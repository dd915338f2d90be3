--------------------------- MODULE RoutingProofs ----------------------------
(***************************************************************************)
(* Proofs about Routing: the types, that Match finds the best route, that  *)
(* several attempts go through all targets, the direct ones first, and     *)
(* that the round-robin counters are fair.                                 *)
(***************************************************************************)
EXTENDS Routing, CountingTheorems, FunctionTheorems, SequenceTheorems, TLAPS

----------------------------------------------------------------------------
\* Lists.

LEMMA ListOf ==
    ASSUME NEW S, NEW n \in Nat, NEW f \in [1..n -> S]
    PROVE  f \in Seq(S) /\ Len(f) = n /\ DOMAIN f = 1..n
  OBVIOUS

\* A strict and total order on S.
StrictOrder(S, R) ==
    /\ \A x \in S : <<x, x>> \notin R
    /\ \A x, y \in S : x # y => <<x, y>> \in R \/ <<y, x>> \in R
    /\ \A x, y, z \in S : <<x, y>> \in R /\ <<y, z>> \in R => <<x, z>> \in R

\* The members of S in the order R.
Listed(S, R) == Ascending(S, LAMBDA x, y : <<x, y>> \in R)

LEMMA ListedOrder ==
    ASSUME NEW S, IsFiniteSet(S), NEW R, StrictOrder(S, R)
    PROVE  /\ Listed(S, R) \in Bijection(1..Cardinality(S), S)
           /\ \A m, n \in 1..Cardinality(S) :
                  m < n => <<Listed(S, R)[m], Listed(S, R)[n]>> \in R
  <1> DEFINE N == Cardinality(S)
             Below(x) == {y \in S : <<y, x>> \in R}
             rank == [x \in S |-> Cardinality(Below(x))]
             ranked == {<<Cardinality(Below(x)), x>> : x \in S}
             p == [n \in 1..N |-> (CHOOSE z \in ranked : z[1] = n - 1)[2]]
  <1>1. N \in Nat
    BY FS_CardinalityType
  <1>2. Listed(S, R) = p
    BY DEF Listed, Ascending, WithRank
  <1>3. ASSUME NEW x \in S
        PROVE  /\ IsFiniteSet(Below(x)) /\ Cardinality(Below(x)) \in 0..(N - 1)
               /\ rank[x] = Cardinality(Below(x))
    <2>1. Below(x) \in SUBSET S /\ x \notin Below(x)
      BY DEF StrictOrder
    <2>2. /\ IsFiniteSet(Below(x))
          /\ Cardinality(Below(x)) <= N
          /\ N = Cardinality(Below(x)) => S = Below(x)
      BY <2>1, FS_Subset
    <2>3. Cardinality(Below(x)) \in Nat
      BY <2>2, FS_CardinalityType
    <2> QED
      BY <1>1, <2>1, <2>2, <2>3
  <1>4. ASSUME NEW x \in S, NEW y \in S, <<x, y>> \in R
        PROVE  rank[x] < rank[y]
    <2>1. Below(x) \in SUBSET Below(y) /\ x \in Below(y) /\ x \notin Below(x)
      BY <1>4 DEF StrictOrder
    <2>2. /\ Cardinality(Below(x)) <= Cardinality(Below(y))
          /\ Cardinality(Below(x)) # Cardinality(Below(y))
      BY <1>3, <2>1, FS_Subset
    <2> HIDE DEF Below
    <2> QED
      BY <1>3, <2>2
  <1>5. rank \in [S -> 0..(N - 1)]
    BY <1>3
  <1>6. \A x, y \in S : rank[x] = rank[y] => x = y
    <2> SUFFICES ASSUME NEW x \in S, NEW y \in S, rank[x] = rank[y], x # y
                 PROVE  FALSE
      OBVIOUS
    <2>1. <<x, y>> \in R \/ <<y, x>> \in R
      BY DEF StrictOrder
    <2>2. rank[x] \in Int /\ rank[y] \in Int
      BY <1>5
    <2> HIDE DEF rank
    <2> QED
      BY <1>4, <2>1, <2>2
  <1>7. \A i \in 0..(N - 1) : \E x \in S : rank[x] = i
    <2>1. rank \in Injection(S, 0..(N - 1))
      BY <1>5, <1>6, Fun_IsInj
    <2>2. IsFiniteSet(0..(N - 1)) /\ Cardinality(0..(N - 1)) = N
      BY <1>1, FS_Interval
    <2> HIDE DEF rank
    <2>3. rank \in Surjection(S, 0..(N - 1))
      BY <2>1, <2>2, FS_Injection
    <2> QED
      BY <2>3, Zenon DEF Surjection
  <1>8. ASSUME NEW n \in 1..N
        PROVE  p[n] \in S /\ rank[p[n]] = n - 1
    <2>1. n - 1 \in 0..(N - 1)
      BY <1>1
    <2>2. PICK x \in S : rank[x] = n - 1
      BY <1>7, <2>1
    <2>3. <<Cardinality(Below(x)), x>> \in ranked /\ Cardinality(Below(x)) = n - 1
      BY <1>3, <2>2
    <2> DEFINE z == CHOOSE z \in ranked : z[1] = n - 1
    <2>4. z \in ranked /\ z[1] = n - 1
      <3>1. \E y \in ranked : y[1] = n - 1
        BY <2>3
      <3> HIDE DEF ranked
      <3> QED
        BY <3>1, Zenon
    <2>5. p[n] = z[2]
      OBVIOUS
    <2> HIDE DEF z, p
    <2>6. PICK y \in S : z = <<Cardinality(Below(y)), y>>
      BY <2>4
    <2> QED
      BY <1>3, <2>4, <2>5, <2>6
  <1> HIDE DEF rank, p, N
  <1>9. p \in Bijection(1..N, S)
    <2>1. p \in [1..N -> S]
      BY <1>8 DEF p
    <2>2. \A m, n \in 1..N : p[m] = p[n] => m = n
      BY <1>8
    <2>3. ASSUME NEW x \in S PROVE \E n \in 1..N : p[n] = x
      <3>1. rank[x] + 1 \in 1..N /\ (rank[x] + 1) - 1 = rank[x]
        BY <1>1, <1>5
      <3>2. rank[p[rank[x] + 1]] = rank[x] /\ p[rank[x] + 1] \in S
        BY <1>8, <3>1
      <3> QED
        BY <1>6, <3>1, <3>2
    <2> QED
      BY <2>1, <2>2, <2>3, Fun_IsBij
  <1>10. ASSUME NEW m \in 1..N, NEW n \in 1..N, m < n
         PROVE  <<p[m], p[n]>> \in R
    <2>1. p[m] \in S /\ p[n] \in S /\ rank[p[m]] < rank[p[n]]
      BY <1>8, <1>10
    <2>2. p[m] # p[n]
      BY <1>5, <2>1
    <2>3. ~(rank[p[n]] < rank[p[m]])
      BY <1>5, <2>1
    <2> QED
      BY <1>4, <2>1, <2>2, <2>3 DEF StrictOrder
  <1> QED
    BY <1>2, <1>9, <1>10 DEF N

\* A function g over 0..n defined by recursion, with the step St.
Steps(X, n) == [X \X (1..n) -> X]
IsRun(g, X, n, seed, St) ==
    /\ g \in [0..n -> X]
    /\ g[0] = seed
    /\ \A i \in 1..n : g[i] = St[<<g[i - 1], i>>]

LEMMA RecursionExists ==
    ASSUME NEW X, NEW n \in Nat, NEW seed \in X, NEW St \in Steps(X, n)
    PROVE  \E g : IsRun(g, X, n, seed, St)
  <1> DEFINE Run(g, m) ==
                 g[0] = seed /\ \A i \in 1..m : g[i] = St[<<g[i - 1], i>>]
             T == {m \in 0..n : ~\E g \in [0..m -> X] : Run(g, m)}
  <1> SUFFICES ASSUME ~\E g \in [0..n -> X] : Run(g, n)
               PROVE  FALSE
    BY DEF IsRun
  <1> USE DEF Steps
  <1> HIDE DEF Run
  <1>0. n \in T /\ T \in SUBSET Nat
    OBVIOUS
  <1>1. PICK m \in T : \A k \in T : m <= k
    <2> HIDE DEF T
    <2> QED
      BY <1>0, LeastNat
  <1>2. m \in 0..n /\ ~\E g \in [0..m -> X] : Run(g, m)
    OBVIOUS
  <1>3. m # 0
    <2> SUFFICES ASSUME m = 0 PROVE FALSE
      OBVIOUS
    <2> DEFINE g == [i \in 0..0 |-> seed]
    <2>1. g \in [0..m -> X] /\ Run(g, m)
      BY DEF Run
    <2> QED
      BY <1>2, <2>1
  <1>4. PICK g \in [0..(m - 1) -> X] : Run(g, m - 1)
    <2>1. m - 1 \in 0..n /\ m - 1 \notin T
      BY <1>1, <1>2, <1>3
    <2> QED
      BY <2>1
  <1> HIDE DEF T
  <1> DEFINE h == [i \in 0..m |-> IF i < m THEN g[i] ELSE St[<<g[m - 1], m>>]]
  <1>5. h \in [0..m -> X]
    BY <1>2, <1>3
  <1>6. Run(h, m)
    <2>1. h[0] = seed
      BY <1>2, <1>3, <1>4 DEF Run
    <2>2. ASSUME NEW i \in 1..m PROVE h[i] = St[<<h[i - 1], i>>]
      <3>1. h[i - 1] = g[i - 1]
        BY <1>2
      <3>2. CASE i < m
        BY <1>2, <1>4, <3>1, <3>2 DEF Run
      <3>3. CASE i = m
        <4>1. h[m] = St[<<g[m - 1], m>>]
          BY <1>2
        <4> HIDE DEF h
        <4> QED
          BY <3>1, <3>3, <4>1
      <3> QED
        BY <1>2, <3>2, <3>3
    <2> QED
      BY <2>1, <2>2 DEF Run
  <1> HIDE DEF h
  <1> QED
    BY <1>2, <1>5, <1>6

----------------------------------------------------------------------------
\* The search through a bucket.

Compilable == [service : Service, route : RouteRule]

\* What the invariant says of the table where the search needs it.
TableOK == table \in Seq(Compilable)

\* The routes of a bucket that a path hits.
Hits(bucket, path) == {n \in bucket : IsPrefix(table[n].route.prefix, path)}

\* Of the places in H the first with the highest score.
Foremost(i, H) ==
    /\ i \in H
    /\ \A j \in H : /\ Score(table[j]) <= Score(table[i])
                    /\ j < i => Score(table[j]) < Score(table[i])

\* f[n] is the best match of the first n routes, as bestRouteMatchSeed
\* defines it.
IsSearch(f, bucket, path, seed) ==
    f = [n \in 0..Len(table) |->
            IF n = 0 THEN seed
            ELSE LET prev == f[n - 1]
                     a == table[n]
                 IN  IF n \in bucket /\ IsPrefix(a.route.prefix, path) /\ Score(a) > prev.score
                     THEN [score |-> Score(a), match |-> a]
                     ELSE prev]

LEMMA ScoreType ==
    ASSUME NEW a \in Compilable
    PROVE  /\ Score(a) \in Nat /\ Len(a.route.prefix) \in Nat
           /\ a.route.weight \in 1..100 /\ a.route.weight \in Int
           /\ Score(a) = Len(a.route.prefix) * 100 + a.route.weight
  <1>1. /\ a.route.prefix \in Seq(STRING)
        /\ a.route.weight \in 1..100
    BY DEF Compilable, RouteRule
  <1>2. Len(a.route.prefix) \in Nat /\ a.route.weight \in Int
    <2>1. \A w \in 1..100 : w \in Int
      OBVIOUS
    <2>2. a.route.weight \in Int
      BY <1>1, <2>1, Zenon
    <2> QED
      BY <1>1, <2>2
  <1>3. Score(a) = Len(a.route.prefix) * 100 + a.route.weight
    BY DEF Score
  <1> DEFINE l == Len(a.route.prefix)
             w == a.route.weight
  <1> HIDE DEF l, w
  <1>4. l \in Nat /\ w \in 1..100 => l * 100 + w \in Nat
    OBVIOUS
  <1> QED
    BY <1>1, <1>2, <1>3, <1>4 DEF l, w

LEMMA SearchExists ==
    ASSUME TableOK, NEW bucket, NEW path, NEW seed
    PROVE  \E f : IsSearch(f, bucket, path, seed)
  <1> DEFINE N == Len(table)
             Step(prev, n) ==
                 IF /\ n \in bucket /\ IsPrefix(table[n].route.prefix, path)
                    /\ Score(table[n]) > prev.score
                 THEN [score |-> Score(table[n]), match |-> table[n]]
                 ELSE prev
             X == {seed} \cup {[score |-> Score(table[n]), match |-> table[n]] : n \in 1..N}
             St == [z \in X \X (1..N) |-> Step(z[1], z[2])]
  <1>1. N \in Nat
    BY DEF TableOK
  <1>2. St \in Steps(X, N)
    BY DEF Steps
  <1>3. PICK g : IsRun(g, X, N, seed, St)
    <2>1. seed \in X
      OBVIOUS
    <2> HIDE DEF X, St, N, Step
    <2> QED
      BY <1>1, <1>2, <2>1, RecursionExists
  <1>4. \A n \in 1..N : g[n] = Step(g[n - 1], n)
    <2> SUFFICES ASSUME NEW n \in 1..N PROVE g[n] = Step(g[n - 1], n)
      OBVIOUS
    <2> HIDE DEF Step, X, N
    <2>1. <<g[n - 1], n>> \in X \X (1..N)
      BY <1>1, <1>3 DEF IsRun
    <2> QED
      BY <1>3, <2>1 DEF IsRun
  <1> DEFINE e == [n \in 0..N |-> IF n = 0 THEN seed ELSE Step(g[n - 1], n)]
  <1>5. g = e
    <2> HIDE DEF Step, X, N
    <2>1. \A n \in 0..N : g[n] = e[n]
      BY <1>1, <1>3, <1>4 DEF IsRun
    <2>2. DOMAIN e = 0..N /\ e = [n \in 0..N |-> e[n]]
      OBVIOUS
    <2> HIDE DEF e
    <2> QED
      BY <1>3, <2>1, <2>2 DEF IsRun
  <1>6. IsSearch(g, bucket, path, seed)
    BY <1>5 DEF IsSearch
  <1> QED
    BY <1>6

LEMMA SearchIs ==
    ASSUME TableOK, NEW bucket, NEW path, NEW seed
    PROVE  \E f : /\ IsSearch(f, bucket, path, seed)
                  /\ bestRouteMatchSeed(bucket, path, seed) = f[Len(table)]
  <1> DEFINE h == CHOOSE f : IsSearch(f, bucket, path, seed)
  <1>1. IsSearch(h, bucket, path, seed)
    BY SearchExists
  <1>2. bestRouteMatchSeed(bucket, path, seed) = h[Len(table)]
    BY DEF bestRouteMatchSeed, IsSearch
  <1> HIDE DEF h
  <1> QED
    BY <1>1, <1>2

\* What a search gives, with H the places it hits: its seed if no score is
\* higher, or else the foremost one.
FoundIn(b, H, seed) ==
    \/ b = seed /\ \A j \in H : Score(table[j]) <= seed.score
    \/ \E i \in H : /\ Foremost(i, H)
                    /\ Score(table[i]) > seed.score
                    /\ b = [score |-> Score(table[i]), match |-> table[i]]

LEMMA FoundStep ==
    ASSUME NEW D \in SUBSET Nat, \A i \in D : Score(table[i]) \in Nat,
           NEW H \in SUBSET D, NEW n \in D, \A i \in H : i < n,
           NEW seed, seed.score \in Int, NEW b, FoundIn(b, H, seed)
    PROVE  FoundIn(IF Score(table[n]) > b.score
                   THEN [score |-> Score(table[n]), match |-> table[n]] ELSE b,
                   H \cup {n}, seed)
  <1> DEFINE e == [score |-> Score(table[n]), match |-> table[n]]
             K == H \cup {n}
  <1> SUFFICES FoundIn(IF Score(table[n]) > b.score THEN e ELSE b, K, seed)
    OBVIOUS
  <1>1. e.score = Score(table[n]) /\ Score(table[n]) \in Nat
    OBVIOUS
  <1> HIDE DEF e
  <1>2. CASE b = seed /\ \A j \in H : Score(table[j]) <= seed.score
    <2>1. CASE Score(table[n]) > b.score
      <3>1. Foremost(n, K)
        BY <1>1, <1>2, <2>1 DEF Foremost
      <3> QED
        BY <1>2, <2>1, <3>1 DEF FoundIn, e
    <2>2. CASE ~(Score(table[n]) > b.score)
      BY <1>1, <1>2, <2>2 DEF FoundIn
    <2> QED
      BY <2>1, <2>2
  <1>3. ASSUME NEW i \in H, Foremost(i, H), Score(table[i]) > seed.score,
               b = [score |-> Score(table[i]), match |-> table[i]]
        PROVE  FoundIn(IF Score(table[n]) > b.score THEN e ELSE b, K, seed)
    <2>1. b.score = Score(table[i]) /\ Score(table[i]) \in Nat /\ i < n /\ i \in Nat
      BY <1>3
    <2>2. CASE Score(table[n]) > b.score
      <3>1. Foremost(n, K)
        BY <1>1, <1>3, <2>1, <2>2 DEF Foremost
      <3>2. Score(table[n]) > seed.score
        BY <1>1, <1>3, <2>1, <2>2
      <3> QED
        BY <2>2, <3>1, <3>2 DEF FoundIn, e
    <2>3. CASE ~(Score(table[n]) > b.score)
      <3>1. Foremost(i, K)
        BY <1>1, <1>3, <2>1, <2>3 DEF Foremost
      <3> QED
        BY <1>3, <2>3, <3>1 DEF FoundIn
    <2> QED
      BY <2>2, <2>3
  <1>4. \/ b = seed /\ \A j \in H : Score(table[j]) <= seed.score
        \/ \E i \in H : /\ Foremost(i, H)
                        /\ Score(table[i]) > seed.score
                        /\ b = [score |-> Score(table[i]), match |-> table[i]]
    BY DEF FoundIn
  <1> QED
    BY <1>2, <1>3, <1>4

LEMMA SearchFinds ==
    ASSUME TableOK, NEW bucket \in SUBSET (DOMAIN table), NEW path,
           NEW seed, seed.score \in Int
    PROVE  FoundIn(bestRouteMatchSeed(bucket, path, seed), Hits(bucket, path), seed)
  <1> DEFINE N == Len(table)
             H == Hits(bucket, path)
             Upto(n) == {i \in H : i <= n}
  <1>1. PICK f : /\ IsSearch(f, bucket, path, seed)
                 /\ bestRouteMatchSeed(bucket, path, seed) = f[Len(table)]
    BY SearchIs
  <1>2. N \in Nat /\ DOMAIN table = 1..N
    BY DEF TableOK
  <1>3. \A i \in 1..N : Score(table[i]) \in Nat
    BY ScoreType DEF TableOK
  <1>4. H \in SUBSET (1..N)
    BY <1>2 DEF Hits
  <1> HIDE DEF N, H
  <1>5. f[0] = seed
    BY <1>1, <1>2 DEF IsSearch, N
  <1>6. ASSUME NEW n \in 1..N
        PROVE  f[n] = IF n \in H /\ Score(table[n]) > f[n - 1].score
                      THEN [score |-> Score(table[n]), match |-> table[n]]
                      ELSE f[n - 1]
    <2>1. n \in 0..Len(table) /\ n # 0
      BY <1>2 DEF N
    <2>2. n \in H <=> n \in bucket /\ IsPrefix(table[n].route.prefix, path)
      BY DEF H, Hits
    <2>3. f[n] = IF n \in bucket /\ IsPrefix(table[n].route.prefix, path)
                    /\ Score(table[n]) > f[n - 1].score
                 THEN [score |-> Score(table[n]), match |-> table[n]]
                 ELSE f[n - 1]
      BY <1>1, <2>1 DEF IsSearch
    <2> QED
      BY <2>2, <2>3
  <1>7. Upto(0) = {} /\ Upto(N) = H
    <2>1. \A i \in H : i \in Nat /\ ~(i <= 0) /\ i <= N
      BY <1>2, <1>4
    <2> QED
      BY <2>1
  <1>8. ASSUME NEW n \in 1..N
        PROVE  /\ Upto(n) = IF n \in H THEN Upto(n - 1) \cup {n} ELSE Upto(n - 1)
               /\ Upto(n - 1) \in SUBSET (1..N) /\ \A i \in Upto(n - 1) : i < n
    <2>1. \A i \in H : i \in Nat /\ (i <= n <=> i <= n - 1 \/ i = n)
      BY <1>2, <1>4
    <2>2. Upto(n) = IF n \in H THEN Upto(n - 1) \cup {n} ELSE Upto(n - 1)
      BY <1>2, <2>1
    <2>3. Upto(n - 1) \in SUBSET (1..N) /\ \A i \in Upto(n - 1) : i < n
      <3>1. \A i \in H : i \in 1..N /\ (i <= n - 1 => i < n)
        BY <1>2, <1>4
      <3> QED
        BY <3>1
    <2> QED
      BY <2>2, <2>3
  <1> HIDE DEF Upto
  <1> DEFINE T == {n \in 0..N : ~FoundIn(f[n], Upto(n), seed)}
  <1>9. ASSUME T # {} PROVE FALSE
    <2>1. T \in SUBSET Nat
      BY <1>2
    <2>2. PICK n \in T : \A m \in T : n <= m
      BY <1>9, <2>1, LeastNat
    <2>3. n \in 0..N /\ ~FoundIn(f[n], Upto(n), seed)
      OBVIOUS
    <2>4. n # 0
      BY <1>5, <1>7, <2>3 DEF FoundIn
    <2>5. n \in 1..N /\ n - 1 \in 0..N
      BY <1>2, <2>3, <2>4
    <2>6. n - 1 \notin T
      <3> HIDE DEF T
      <3> QED
        BY <2>2, <2>5
    <2>7. FoundIn(f[n - 1], Upto(n - 1), seed)
      BY <2>5, <2>6
    <2> HIDE DEF T
    <2>8. CASE n \in H
      <3>1. f[n] = IF Score(table[n]) > f[n - 1].score
                   THEN [score |-> Score(table[n]), match |-> table[n]] ELSE f[n - 1]
        BY <1>6, <2>5, <2>8
      <3>2. 1..N \in SUBSET Nat
        BY <1>2
      <3>3. FoundIn(f[n], Upto(n - 1) \cup {n}, seed)
        BY <1>3, <1>8, <2>5, <2>7, <3>1, <3>2, FoundStep
      <3> QED
        BY <1>8, <2>3, <2>5, <2>8, <3>3
    <2>9. CASE n \notin H
      BY <1>6, <1>8, <2>3, <2>5, <2>7, <2>9
    <2> QED
      BY <2>8, <2>9
  <1>10. FoundIn(f[N], Upto(N), seed)
    BY <1>2, <1>9
  <1> QED
    BY <1>1, <1>7, <1>10 DEF H, N

----------------------------------------------------------------------------
\* The buckets.

LEMMA ScoreOrder ==
    ASSUME NEW a \in Compilable, NEW b \in Compilable
    PROVE  Score(a) <= Score(b)
               <=> \/ Len(a.route.prefix) < Len(b.route.prefix)
                   \/ /\ Len(a.route.prefix) = Len(b.route.prefix)
                      /\ a.route.weight <= b.route.weight
  <1>1. ASSUME NEW k \in Nat, NEW l \in Nat, NEW v \in 1..100, NEW w \in 1..100
        PROVE  k * 100 + v <= l * 100 + w <=> k < l \/ (k = l /\ v <= w)
    OBVIOUS
  <1>2. /\ Len(a.route.prefix) \in Nat /\ a.route.weight \in 1..100
        /\ Len(b.route.prefix) \in Nat /\ b.route.weight \in 1..100
        /\ Score(a) = Len(a.route.prefix) * 100 + a.route.weight
        /\ Score(b) = Len(b.route.prefix) * 100 + b.route.weight
    BY ScoreType
  <1> DEFINE k == Len(a.route.prefix)
             l == Len(b.route.prefix)
             v == a.route.weight
             w == b.route.weight
  <1>3. k \in Nat /\ l \in Nat /\ v \in 1..100 /\ w \in 1..100
    BY <1>2
  <1> HIDE DEF k, l, v, w
  <1>4. k * 100 + v <= l * 100 + w <=> k < l \/ (k = l /\ v <= w)
    BY <1>1, <1>3
  <1> QED
    BY <1>2, <1>4 DEF k, l, v, w

LEMMA PrefixAt ==
    ASSUME NEW pre \in Seq(STRING), NEW path \in Seq(STRING), IsPrefix(pre, path)
    PROVE  /\ Len(pre) \in Nat /\ Len(path) \in Nat /\ Len(pre) <= Len(path)
           /\ \A i \in 1..Len(pre) : pre[i] = path[i]
  <1>1. /\ Len(pre) \in Nat /\ Len(path) \in Nat /\ Len(pre) <= Len(path)
        /\ SubSeq(pre, 1, Len(pre)) = SubSeq(path, 1, Len(pre))
    BY DEF IsPrefix
  <1>2. ASSUME NEW i \in 1..Len(pre) PROVE pre[i] = path[i]
    <2>1. SubSeq(pre, 1, Len(pre)) = pre
      BY SubSeqFull
    <2>2. SubSeq(path, 1, Len(pre))[i] = path[i]
      BY <1>1
    <2> QED
      BY <1>1, <2>1, <2>2
  <1> QED
    BY <1>1, <1>2

\* Of one path there is one prefix of each length.
LEMMA SamePrefix ==
    ASSUME NEW pre \in Seq(STRING), NEW other \in Seq(STRING), NEW path \in Seq(STRING),
           IsPrefix(pre, path), IsPrefix(other, path), Len(pre) = Len(other)
    PROVE  pre = other
  BY PrefixAt, SeqEqual

\* A prefix of a path is in the path's bucket or in the one without a byte.
LEMMA PrefixByte ==
    ASSUME NEW pre \in Seq(STRING), NEW path \in Seq(STRING), IsPrefix(pre, path)
    PROVE  pathFirstByte(pre) \in {"", pathFirstByte(path)}
  <1>1. /\ Len(pre) \in Nat /\ Len(path) \in Nat /\ Len(pre) <= Len(path)
        /\ \A i \in 1..Len(pre) : pre[i] = path[i]
    BY PrefixAt
  <1>2. CASE Len(pre) < 2
    BY <1>2 DEF pathFirstByte
  <1>3. CASE ~(Len(pre) < 2)
    <2>1. pre[1] = path[1] /\ pre[2] = path[2] /\ ~(Len(pre) < 2) /\ ~(Len(path) < 2)
      BY <1>1, <1>3
    <2> QED
      BY <2>1 DEF pathFirstByte
  <1> QED
    BY <1>2, <1>3

\* The routes of a host that fit a path.
Fitting(host, path) ==
    {n \in DOMAIN table : /\ host \in table[n].route.hosts
                          /\ IsPrefix(table[n].route.prefix, path)}

LEMMA MatcherFinds ==
    ASSUME TableOK, NEW host, NEW path \in Seq(STRING)
    PROVE  \/ Fitting(host, path) = {} /\ matchPathMatcher(host, path) = None
           \/ \E i \in Fitting(host, path) :
                  /\ Foremost(i, Fitting(host, path))
                  /\ matchPathMatcher(host, path) = table[i]
  <1> DEFINE F == Fitting(host, path)
             seed == [score |-> -1, match |-> None]
             byte == pathFirstByte(path)
             B1 == Bucket(host, byte)
             B2 == Bucket(host, "")
             first == IF byte = "" THEN seed ELSE bestRouteMatchSeed(B1, path, seed)
             b == bestRouteMatchSeed(B2, path, first)
             H1 == IF byte = "" THEN {} ELSE Hits(B1, path)
             H2 == Hits(B2, path)
             e(i) == [score |-> Score(table[i]), match |-> table[i]]
  <1>1. matchPathMatcher(host, path) = b.match
    BY DEF matchPathMatcher
  <1>2. B1 \in SUBSET (DOMAIN table) /\ B2 \in SUBSET (DOMAIN table)
    BY DEF Bucket
  <1>3. seed.score = -1 /\ seed.match = None
    OBVIOUS
  <1>4. ASSUME NEW i \in DOMAIN table
        PROVE  /\ table[i] \in Compilable /\ Score(table[i]) \in Nat
               /\ table[i].route.prefix \in Seq(STRING)
               /\ i \in Nat
    <2>1. table[i] \in Compilable /\ i \in Nat
      BY DEF TableOK
    <2>2. table[i].route.prefix \in Seq(STRING)
      BY <2>1 DEF Compilable, RouteRule
    <2> QED
      BY <2>1, <2>2, ScoreType
  <1>5. F = H1 \cup H2
    <2>1. ASSUME NEW i \in F PROVE i \in H1 \cup H2
      <3>1. i \in DOMAIN table /\ host \in table[i].route.hosts
            /\ IsPrefix(table[i].route.prefix, path)
        BY DEF Fitting
      <3>2. pathFirstByte(table[i].route.prefix) \in {"", byte}
        BY <1>4, <3>1, PrefixByte
      <3> QED
        BY <3>1, <3>2 DEF Hits, Bucket
    <2>2. H1 \cup H2 \subseteq F
      BY DEF Hits, Bucket, Fitting
    <2> QED
      BY <2>1, <2>2
  <1>6. F \in SUBSET (DOMAIN table)
    BY DEF Fitting
  <1>7. ASSUME NEW i \in H1, NEW j \in H2
        PROVE  Score(table[i]) # Score(table[j])
    <2> SUFFICES ASSUME Score(table[i]) = Score(table[j]) PROVE FALSE
      OBVIOUS
    <2>1. /\ byte # "" /\ pathFirstByte(table[i].route.prefix) = byte
          /\ pathFirstByte(table[j].route.prefix) = ""
          /\ IsPrefix(table[i].route.prefix, path) /\ IsPrefix(table[j].route.prefix, path)
      BY DEF Hits, Bucket
    <2>2. i \in DOMAIN table /\ j \in DOMAIN table
      BY <1>5, <1>6
    <2>3. /\ table[i] \in Compilable /\ table[j] \in Compilable
          /\ table[i].route.prefix \in Seq(STRING) /\ table[j].route.prefix \in Seq(STRING)
          /\ Score(table[i]) \in Nat
      BY <1>4, <2>2
    <2> HIDE DEF F, seed, byte, B1, B2, first, b, H1, H2, e
    <2>4. Len(table[i].route.prefix) = Len(table[j].route.prefix)
      <3>1. Score(table[i]) <= Score(table[j]) /\ Score(table[j]) <= Score(table[i])
        BY <2>3
      <3>2. Len(table[i].route.prefix) \in Nat /\ Len(table[j].route.prefix) \in Nat
        BY <2>3, ScoreType
      <3> QED
        BY <2>3, <3>1, <3>2, ScoreOrder
    <2>5. table[i].route.prefix = table[j].route.prefix
      BY <2>1, <2>3, <2>4, SamePrefix
    <2> QED
      BY <2>1, <2>5
  <1>8. FoundIn(first, H1, seed)
    <2>1. CASE byte = ""
      BY <2>1 DEF FoundIn
    <2>2. CASE byte # ""
      <3>1. seed.score \in Int
        BY <1>3
      <3> HIDE DEF seed, B1
      <3> QED
        BY <1>2, <2>2, <3>1, SearchFinds
    <2> QED
      BY <2>1, <2>2
  <1> HIDE DEF seed, byte, B1, B2, H1, first, F
  <1>9. \/ first = seed /\ H1 = {} /\ first.score = -1
        \/ \E i \in H1 : Foremost(i, H1) /\ first = e(i)
    <2>1. \A i \in H1 : Score(table[i]) \in Nat
      BY <1>4, <1>5, <1>6
    <2> QED
      BY <1>3, <1>8, <2>1 DEF FoundIn
  <1>10. first.score \in Int
    BY <1>4, <1>5, <1>6, <1>9
  <1>11. FoundIn(b, H2, first)
    BY <1>2, <1>10, SearchFinds
  <1> HIDE DEF b, H2
  <1>12. ASSUME b = first, \A j \in H2 : Score(table[j]) <= first.score,
                first = seed, H1 = {}, first.score = -1
         PROVE  F = {} /\ b.match = None
    <2>1. H2 = {}
      BY <1>4, <1>5, <1>6, <1>12
    <2> QED
      BY <1>3, <1>5, <1>12, <2>1
  <1>13. ASSUME b = first, \A j \in H2 : Score(table[j]) <= first.score,
                NEW i \in H1, Foremost(i, H1), first = e(i)
         PROVE  i \in F /\ Foremost(i, F) /\ b.match = table[i]
    <2>1. i \in F /\ b.match = table[i] /\ first.score = Score(table[i])
      BY <1>5, <1>13
    <2>2. ASSUME NEW j \in F
          PROVE  /\ Score(table[j]) <= Score(table[i])
                 /\ j < i => Score(table[j]) < Score(table[i])
      <3>1. Score(table[j]) \in Nat /\ Score(table[i]) \in Nat
        BY <1>4, <1>6, <2>1
      <3>2. CASE j \in H1
        BY <1>13, <3>2 DEF Foremost
      <3>3. CASE j \in H2
        BY <1>7, <1>13, <2>1, <3>1, <3>3
      <3> QED
        BY <1>5, <3>2, <3>3
    <2> QED
      BY <2>1, <2>2 DEF Foremost
  <1>14. ASSUME NEW i \in H2, Foremost(i, H2), Score(table[i]) > first.score, b = e(i)
         PROVE  i \in F /\ Foremost(i, F) /\ b.match = table[i]
    <2>1. i \in F /\ b.match = table[i]
      BY <1>5, <1>14
    <2>2. ASSUME NEW j \in H1 PROVE Score(table[j]) < Score(table[i])
      <3>1. PICK k \in H1 : Foremost(k, H1) /\ first = e(k)
        BY <1>9
      <3>2. first.score = Score(table[k]) /\ Score(table[j]) <= Score(table[k])
        BY <3>1 DEF Foremost
      <3>3. Score(table[j]) \in Nat /\ Score(table[i]) \in Nat /\ Score(table[k]) \in Nat
        BY <1>4, <1>5, <1>6, <2>1
      <3> QED
        BY <1>14, <3>2, <3>3
    <2>3. ASSUME NEW j \in F
          PROVE  /\ Score(table[j]) <= Score(table[i])
                 /\ j < i => Score(table[j]) < Score(table[i])
      <3>1. Score(table[j]) \in Nat /\ Score(table[i]) \in Nat
        BY <1>4, <1>6, <2>1
      <3>2. CASE j \in H1
        BY <2>2, <3>1, <3>2
      <3>3. CASE j \in H2
        BY <1>14, <3>3 DEF Foremost
      <3> QED
        BY <1>5, <3>2, <3>3
    <2> QED
      BY <2>1, <2>3 DEF Foremost
  <1>15. \/ F = {} /\ b.match = None
         \/ \E i \in F : Foremost(i, F) /\ b.match = table[i]
    <2>1. CASE b = first /\ \A j \in H2 : Score(table[j]) <= first.score
      BY <1>9, <1>12, <1>13, <2>1
    <2>2. CASE \E i \in H2 : Foremost(i, H2) /\ Score(table[i]) > first.score /\ b = e(i)
      BY <1>14, <2>2
    <2> QED
      BY <1>11, <2>1, <2>2 DEF FoundIn
  <1> QED
    BY <1>1, <1>15 DEF F

----------------------------------------------------------------------------
\* The sorts: what is sorted has a key of five numbers, which are compared one
\* after the other.

Keys == Int \X Int \X Int \X Int \X Int

LexBefore(k, m) ==
    \/ k[1] < m[1]
    \/ /\ k[1] = m[1]
       /\ \/ k[2] < m[2]
          \/ /\ k[2] = m[2]
             /\ \/ k[3] < m[3]
                \/ /\ k[3] = m[3]
                   /\ \/ k[4] < m[4]
                      \/ k[4] = m[4] /\ k[5] < m[5]

SameKey(k, m) == \A i \in 1..5 : k[i] = m[i]

LEMMA LexStrict ==
    ASSUME NEW k \in Keys, NEW m \in Keys
    PROVE  /\ ~LexBefore(k, k)
           /\ SameKey(k, m) \/ LexBefore(k, m) \/ LexBefore(m, k)
           /\ \A n \in Keys : LexBefore(k, m) /\ LexBefore(m, n) => LexBefore(k, n)
  <1> USE DEF Keys
  <1>1. ~LexBefore(k, k)
    BY DEF LexBefore
  <1>2. SameKey(k, m) \/ LexBefore(k, m) \/ LexBefore(m, k)
    <2>1. \A i \in 1..5 : i = 1 \/ i = 2 \/ i = 3 \/ i = 4 \/ i = 5
      OBVIOUS
    <2>2. \/ k[1] = m[1] /\ k[2] = m[2] /\ k[3] = m[3] /\ k[4] = m[4] /\ k[5] = m[5]
          \/ LexBefore(k, m) \/ LexBefore(m, k)
      BY DEF LexBefore
    <2> QED
      BY <2>1, <2>2 DEF SameKey
  <1>3. ASSUME NEW n \in Keys, LexBefore(k, m), LexBefore(m, n)
        PROVE  LexBefore(k, n)
    BY <1>3 DEF LexBefore
  <1> QED
    BY <1>1, <1>2, <1>3

LEMMA KeyedOrder ==
    ASSUME NEW S, NEW R, NEW K \in [S -> Keys],
           \A x, y \in S : <<x, y>> \in R <=> LexBefore(K[x], K[y]),
           \A x, y \in S : SameKey(K[x], K[y]) => x = y
    PROVE  StrictOrder(S, R)
  <1>1. \A x \in S : K[x] \in Keys
    OBVIOUS
  <1> QED
    BY <1>1, LexStrict DEF StrictOrder

LEMMA PlanType ==
    ASSUME NEW p \in Plans, NEW s \in Stored(p)
    PROVE  /\ s \in Service /\ p[s] \in Offered[s]
           /\ p[s].strategy \in Strategy
           /\ p[s].attempts \in Nat \ {0}
           /\ p[s].routes \in Seq(RouteRule)
           /\ DOMAIN p[s].groups \subseteq Group
           /\ p[s].groups \in [DOMAIN p[s].groups -> Seq(Target) \ {<<>>}]
  <1>1. s \in Service /\ p[s] \in Offered[s]
    BY DEF Plans, Stored
  <1> QED
    BY <1>1, OfferedAssumption

LEMMA PlaceType ==
    ASSUME NEW p \in Plans, NEW x \in Places(p)
    PROVE  /\ x = <<x[1], x[2]>> /\ x[1] \in Stored(p)
           /\ x[2] \in Nat /\ x[2] \in DOMAIN p[x[1]].routes
           /\ RouteAt(p, x) \in Compilable
           /\ RouteAt(p, x).service = x[1]
           /\ RouteAt(p, x).route = p[x[1]].routes[x[2]]
  <1>1. PICK s \in Stored(p) : x \in {s} \X DOMAIN p[s].routes
    BY DEF Places
  <1>2. x = <<x[1], x[2]>> /\ x[1] = s /\ x[2] \in DOMAIN p[s].routes
    BY <1>1
  <1>3. s \in Service /\ p[s].routes \in Seq(RouteRule)
    BY PlanType
  <1>4. p[s].routes[x[2]] \in RouteRule /\ x[2] \in Nat
    BY <1>2, <1>3
  <1> QED
    BY <1>2, <1>3, <1>4 DEF RouteAt, Compilable

LEMMA PlacesFinite ==
    ASSUME NEW p \in Plans
    PROVE  IsFiniteSet(Places(p))
  <1> DEFINE Of(s) == {s} \X DOMAIN p[s].routes
             f == [s \in Stored(p) |-> Of(s)]
             U == {Of(s) : s \in Stored(p)}
  <1>1. IsFiniteSet(Stored(p))
    <2>1. Stored(p) \in SUBSET Service
      BY DEF Stored
    <2> QED
      BY <2>1, NameAssumption, FS_Subset
  <1>2. f \in Surjection(Stored(p), U)
    BY DEF Surjection
  <1>3. IsFiniteSet(U)
    <2> HIDE DEF f, U
    <2> QED
      BY <1>1, <1>2, FS_Surjection
  <1>4. ASSUME NEW s \in Stored(p) PROVE IsFiniteSet(Of(s))
    <2>1. p[s].routes \in Seq(RouteRule)
      BY PlanType
    <2>2. Len(p[s].routes) \in Int /\ DOMAIN p[s].routes = 1..Len(p[s].routes)
      BY <2>1
    <2>3. IsFiniteSet(DOMAIN p[s].routes)
      BY <2>2, FS_Interval
    <2> QED
      BY <2>3, FS_Singleton, FS_Product
  <1>5. \A T \in U : IsFiniteSet(T)
    BY <1>4
  <1>6. Places(p) = UNION U
    BY DEF Places
  <1> HIDE DEF U
  <1> QED
    BY <1>3, <1>5, <1>6, FS_UNION

PlaceKey(p, x) ==
    LET a == RouteAt(p, x)
    IN  <<-Len(a.route.prefix), -a.route.weight, Rank[a.service], Rank[a.route.dest], x[2]>>

LEMMA PlaceBeforeIs ==
    ASSUME NEW p \in Plans, NEW x \in Places(p), NEW y \in Places(p)
    PROVE  /\ PlaceKey(p, x) \in Keys
           /\ PlaceBefore(p, x, y) <=> LexBefore(PlaceKey(p, x), PlaceKey(p, y))
           /\ SameKey(PlaceKey(p, x), PlaceKey(p, y)) => x = y
  <1> DEFINE a == RouteAt(p, x)
             b == RouteAt(p, y)
             k == PlaceKey(p, x)
             m == PlaceKey(p, y)
  <1>1. /\ a \in Compilable /\ b \in Compilable
        /\ a.service = x[1] /\ b.service = y[1]
        /\ x[1] \in Service /\ y[1] \in Service /\ x[2] \in Nat /\ y[2] \in Nat
        /\ x = <<x[1], x[2]>> /\ y = <<y[1], y[2]>>
    BY PlaceType DEF Stored
  <1>2. /\ k[1] = -Len(a.route.prefix) /\ k[2] = -a.route.weight
        /\ k[3] = Rank[x[1]] /\ k[4] = Rank[a.route.dest] /\ k[5] = x[2]
        /\ m[1] = -Len(b.route.prefix) /\ m[2] = -b.route.weight
        /\ m[3] = Rank[y[1]] /\ m[4] = Rank[b.route.dest] /\ m[5] = y[2]
        /\ k = <<k[1], k[2], k[3], k[4], k[5]>>
    BY <1>1 DEF PlaceKey
  <1> HIDE DEF a, b
  <1>3. /\ Len(a.route.prefix) \in Nat /\ a.route.weight \in Nat
        /\ Len(b.route.prefix) \in Nat /\ b.route.weight \in Nat
    <2>1. Len(a.route.prefix) \in Nat /\ a.route.weight \in 1..100
      BY <1>1, ScoreType
    <2>2. Len(b.route.prefix) \in Nat /\ b.route.weight \in 1..100
      BY <1>1, ScoreType
    <2>3. \A w \in 1..100 : w \in Nat
      OBVIOUS
    <2> QED
      BY <2>1, <2>2, <2>3, Zenon
  <1>4. /\ Rank[x[1]] \in Int /\ Rank[y[1]] \in Int
        /\ Rank[x[1]] = Rank[y[1]] <=> x[1] = y[1]
    BY <1>1, NameAssumption
  <1>5. Rank[a.route.dest] \in Int /\ Rank[b.route.dest] \in Int
    <2>1. a.route.dest \in DOMAIN Rank /\ b.route.dest \in DOMAIN Rank
      BY <1>1 DEF Compilable, RouteRule
    <2> QED
      BY <2>1, NameAssumption
  <1>6. k \in Keys
    <2>1. k[1] \in Int /\ k[2] \in Int /\ k[3] \in Int /\ k[4] \in Int /\ k[5] \in Int
      BY <1>1, <1>2, <1>3, <1>4, <1>5, SMTT(30)
    <2> HIDE DEF k
    <2> QED
      BY <1>2, <2>1 DEF Keys
  <1> DEFINE la == Len(a.route.prefix)
             lb == Len(b.route.prefix)
             wa == a.route.weight
             wb == b.route.weight
             sa == Rank[x[1]]
             sb == Rank[y[1]]
             da == Rank[a.route.dest]
             db == Rank[b.route.dest]
  <1> HIDE DEF k, m
  <1>7. CompiledBefore(a, b)
            <=> \/ la > lb
                \/ la = lb /\ (wa > wb \/ (wa = wb /\ (sa < sb \/ (sa = sb /\ da < db))))
    BY <1>1, <1>4 DEF CompiledBefore
  <1>8. CompiledBefore(b, a)
            <=> \/ lb > la
                \/ la = lb /\ (wb > wa \/ (wa = wb /\ (sb < sa \/ (sa = sb /\ db < da))))
    BY <1>1, <1>4 DEF CompiledBefore
  <1>9. PlaceBefore(p, x, y)
            <=> CompiledBefore(a, b) \/ (~CompiledBefore(b, a) /\ k[5] < m[5])
    BY <1>2 DEF PlaceBefore, a, b
  <1>10. /\ la \in Nat /\ lb \in Nat /\ wa \in Nat /\ wb \in Nat /\ sa \in Int /\ sb \in Int
         /\ da \in Int /\ db \in Int /\ k[5] \in Nat /\ m[5] \in Nat
         /\ k[1] = -la /\ m[1] = -lb /\ k[2] = -wa /\ m[2] = -wb
         /\ k[3] = sa /\ m[3] = sb /\ k[4] = da /\ m[4] = db
    BY <1>1, <1>2, <1>3, <1>4, <1>5
  <1>11. PlaceBefore(p, x, y) <=> LexBefore(k, m)
    <2> HIDE DEF la, lb, wa, wb, sa, sb, da, db
    <2>1. /\ -la < -lb <=> la > lb
          /\ -la = -lb <=> la = lb
          /\ -wa < -wb <=> wa > wb
          /\ -wa = -wb <=> wa = wb
      BY <1>10
    <2> QED
      BY <1>7, <1>8, <1>9, <1>10, <2>1 DEF LexBefore
  <1>12. ASSUME SameKey(k, m) PROVE x = y
    <2>1. k[3] = m[3] /\ k[5] = m[5]
      BY <1>12 DEF SameKey
    <2> QED
      BY <1>1, <1>2, <1>4, <2>1
  <1> QED
    BY <1>6, <1>11, <1>12 DEF k, m

\* The routes are compiled one by one, each place once, in the order of the sort.
LEMMA CompiledIs ==
    ASSUME NEW p \in Plans
    PROVE  /\ Cardinality(Places(p)) \in Nat
           /\ \E q \in Bijection(1..Cardinality(Places(p)), Places(p)) :
                  /\ Compiled(p) = [n \in 1..Cardinality(Places(p)) |-> RouteAt(p, q[n])]
                  /\ \A m, n \in 1..Cardinality(Places(p)) :
                         m < n => PlaceBefore(p, q[m], q[n])
  <1> DEFINE S == Places(p)
             R == {z \in S \X S : PlaceBefore(p, z[1], z[2])}
             K == [x \in S |-> PlaceKey(p, x)]
             q == Listed(S, R)
  <1>1. IsFiniteSet(S) /\ Cardinality(S) \in Nat
    BY PlacesFinite, FS_CardinalityType
  <1>2. \A x, y \in S : <<x, y>> \in R <=> PlaceBefore(p, x, y)
    OBVIOUS
  <1>3. StrictOrder(S, R)
    <2>1. K \in [S -> Keys]
      BY PlaceBeforeIs
    <2>2. \A x, y \in S : <<x, y>> \in R <=> LexBefore(K[x], K[y])
      <3> HIDE DEF R
      <3> QED
        BY <1>2, PlaceBeforeIs
    <2>3. \A x, y \in S : SameKey(K[x], K[y]) => x = y
      BY PlaceBeforeIs
    <2> HIDE DEF R, K, S
    <2> QED
      BY <2>1, <2>2, <2>3, KeyedOrder
  <1>4. Ascending(S, LAMBDA x, y : PlaceBefore(p, x, y)) = q
    <2> HIDE DEF R, S
    <2>1. \A x \in S : {y \in S : PlaceBefore(p, y, x)} = {y \in S : <<y, x>> \in R}
      BY <1>2
    <2>2. {<<Cardinality({y \in S : PlaceBefore(p, y, x)}), x>> : x \in S}
              = {<<Cardinality({y \in S : <<y, x>> \in R}), x>> : x \in S}
      BY <2>1
    <2> QED
      BY <2>2 DEF Ascending, Listed
  <1>5. Compiled(p) = [n \in 1..Cardinality(S) |-> RouteAt(p, q[n])]
    <2> HIDE DEF q
    <2> QED
      BY <1>4 DEF Compiled
  <1> HIDE DEF S, R
  <1>6. /\ q \in Bijection(1..Cardinality(S), S)
        /\ \A m, n \in 1..Cardinality(S) : m < n => <<q[m], q[n]>> \in R
    BY <1>1, <1>3, ListedOrder
  <1> HIDE DEF q
  <1>7. \A n \in 1..Cardinality(S) : q[n] \in S
    BY <1>6 DEF Bijection, Injection
  <1>8. \A m, n \in 1..Cardinality(S) : m < n => PlaceBefore(p, q[m], q[n])
    BY <1>2, <1>6, <1>7
  <1> QED
    BY <1>1, <1>5, <1>6, <1>8 DEF S

----------------------------------------------------------------------------
\* Match finds the best route.

LEMMA TableIs ==
    ASSUME plan \in Plans, table = Compiled(plan)
    PROVE  /\ TableOK
           /\ {table[n] : n \in DOMAIN table} = {RouteAt(plan, x) : x \in Places(plan)}
           /\ \A i, j \in DOMAIN table :
                  i < j => \/ CompiledBefore(table[i], table[j])
                           \/ ~CompiledBefore(table[j], table[i])
           /\ \A n \in DOMAIN table : table[n].service \in Stored(plan)
  <1> DEFINE N == Cardinality(Places(plan))
  <1>1. N \in Nat
    BY CompiledIs
  <1>2. PICK q \in Bijection(1..N, Places(plan)) :
            /\ table = [n \in 1..N |-> RouteAt(plan, q[n])]
            /\ \A m, n \in 1..N : m < n => PlaceBefore(plan, q[m], q[n])
    BY CompiledIs
  <1> HIDE DEF N
  <1>3. /\ \A n \in 1..N : q[n] \in Places(plan)
        /\ \A x \in Places(plan) : \E n \in 1..N : q[n] = x
    BY DEF Bijection, Injection, Surjection
  <1>4. /\ DOMAIN table = 1..N
        /\ \A n \in 1..N : /\ table[n] = RouteAt(plan, q[n]) /\ table[n] \in Compilable
                           /\ table[n].service \in Stored(plan)
    BY <1>2, <1>3, PlaceType
  <1>5. TableOK
    <2>1. table \in [1..N -> Compilable]
      BY <1>2, <1>3, PlaceType
    <2> QED
      BY <1>1, <2>1, ListOf DEF TableOK
  <1>6. {table[n] : n \in DOMAIN table} = {RouteAt(plan, x) : x \in Places(plan)}
    BY <1>3, <1>4
  <1>7. \A i, j \in DOMAIN table :
            i < j => \/ CompiledBefore(table[i], table[j])
                     \/ ~CompiledBefore(table[j], table[i])
    BY <1>2, <1>4 DEF PlaceBefore
  <1> QED
    BY <1>4, <1>5, <1>6, <1>7

\* Of the routes that are found, the ones BestRoutes keeps.
Longest(found) ==
    {a \in found : \A b \in found : Len(b.route.prefix) <= Len(a.route.prefix)}
Heaviest(found) ==
    {a \in Longest(found) : \A b \in Longest(found) : b.route.weight <= a.route.weight}
Best(found) ==
    {a \in Heaviest(found) : \A b \in Heaviest(found) : Rank[a.service] <= Rank[b.service]}

RoutesAt(F) == {table[n] : n \in F}

LEMMA ForemostIsBest ==
    ASSUME plan \in Plans, table = Compiled(plan),
           NEW F \in SUBSET (DOMAIN table), NEW i \in F, Foremost(i, F)
    PROVE  table[i] \in Best(RoutesAt(F))
  <1> DEFINE a == table[i]
             found == RoutesAt(F)
  <1>1. /\ TableOK
        /\ \A n, j \in DOMAIN table :
               n < j => \/ CompiledBefore(table[n], table[j])
                        \/ ~CompiledBefore(table[j], table[n])
    BY TableIs
  <1>2. ASSUME NEW n \in DOMAIN table
        PROVE  /\ table[n] \in Compilable /\ Score(table[n]) \in Nat /\ n \in Nat
               /\ Len(table[n].route.prefix) \in Nat /\ table[n].route.weight \in Int
               /\ Rank[table[n].service] \in Int
    <2>1. table[n] \in Compilable /\ n \in Nat
      BY <1>1 DEF TableOK
    <2>2. Rank[table[n].service] \in Int
      BY <2>1, NameAssumption DEF Compilable
    <2> QED
      BY <2>1, <2>2, ScoreType
  <1>3. i \in DOMAIN table /\ a \in found
    BY DEF RoutesAt
  <1>4. ASSUME NEW j \in F
        PROVE  /\ \/ Len(table[j].route.prefix) < Len(a.route.prefix)
                  \/ /\ Len(table[j].route.prefix) = Len(a.route.prefix)
                     /\ table[j].route.weight <= a.route.weight
               /\ (/\ Len(table[j].route.prefix) = Len(a.route.prefix)
                   /\ table[j].route.weight = a.route.weight) =>
                     Rank[a.service] <= Rank[table[j].service]
    <2> DEFINE b == table[j]
    <2>1. j \in DOMAIN table
      OBVIOUS
    <2>2. a \in Compilable /\ b \in Compilable /\ i \in Nat /\ j \in Nat
      BY <1>2, <1>3, <2>1
    <2>3. /\ Score(b) <= Score(a)
          /\ j < i => Score(b) < Score(a)
      BY DEF Foremost
    <2>4. /\ Len(a.route.prefix) \in Nat /\ a.route.weight \in Int
          /\ Len(b.route.prefix) \in Nat /\ b.route.weight \in Int
          /\ Rank[a.service] \in Int /\ Rank[b.service] \in Int
          /\ Score(a) \in Nat /\ Score(b) \in Nat
      BY <1>2, <1>3, <2>1
    <2>5. i < j => CompiledBefore(a, b) \/ ~CompiledBefore(b, a)
      BY <1>1, <1>3, <2>1
    <2> HIDE DEF a, b
    <2>6. \/ Len(b.route.prefix) < Len(a.route.prefix)
          \/ Len(b.route.prefix) = Len(a.route.prefix) /\ b.route.weight <= a.route.weight
      BY <2>2, <2>3, ScoreOrder
    <2>7. ASSUME Len(b.route.prefix) = Len(a.route.prefix), b.route.weight = a.route.weight
          PROVE  Rank[a.service] <= Rank[b.service]
      <3>1. Score(a) <= Score(b)
        BY <2>2, <2>4, <2>7, ScoreOrder
      <3>2. ~(j < i)
        BY <2>3, <2>4, <3>1
      <3>3. CASE i = j
        BY <2>4, <3>3 DEF a, b
      <3>4. CASE i < j
        <4>1. CompiledBefore(a, b) \/ ~CompiledBefore(b, a)
          BY <2>5, <3>4
        <4>2. CompiledBefore(a, b) => Rank[a.service] <= Rank[b.service]
          <5>1. ~(Len(a.route.prefix) > Len(b.route.prefix))
            BY <2>4, <2>7
          <5>2. ~(a.route.weight > b.route.weight)
            BY <2>4, <2>7
          <5>3. CompiledBefore(a, b) =>
                    Rank[a.service] < Rank[b.service] \/ a.service = b.service
            BY <5>1, <5>2 DEF CompiledBefore
          <5> QED
            BY <2>4, <5>3
        <4>3. ~CompiledBefore(b, a) => ~(Rank[b.service] < Rank[a.service])
          BY <2>7 DEF CompiledBefore
        <4> QED
          BY <2>4, <4>1, <4>2, <4>3
      <3> QED
        BY <2>2, <3>2, <3>3, <3>4
    <2> QED
      BY <2>6, <2>7 DEF b
  <1>5. \A c \in found : \E j \in F : c = table[j]
    BY DEF RoutesAt
  <1>6. \A c \in found : Len(c.route.prefix) \in Nat /\ c.route.weight \in Int
    BY <1>2, <1>5
  <1> HIDE DEF a, found
  <1>7. a \in Longest(found)
    BY <1>3, <1>4, <1>5, <1>6 DEF Longest
  <1>8. a \in Heaviest(found)
    <2>1. ASSUME NEW c \in Longest(found) PROVE c.route.weight <= a.route.weight
      <3>1. c \in found /\ Len(a.route.prefix) <= Len(c.route.prefix)
        BY <1>3 DEF Longest
      <3> QED
        BY <1>3, <1>4, <1>5, <1>6, <3>1
    <2> QED
      BY <1>7, <2>1 DEF Heaviest
  <1>9. ASSUME NEW c \in Heaviest(found) PROVE Rank[a.service] <= Rank[c.service]
    <2>1. /\ c \in found
          /\ Len(a.route.prefix) <= Len(c.route.prefix)
          /\ Len(c.route.prefix) <= Len(a.route.prefix)
          /\ a.route.weight <= c.route.weight
          /\ c.route.weight <= a.route.weight
      BY <1>7, <1>8 DEF Longest, Heaviest
    <2>2. Len(c.route.prefix) = Len(a.route.prefix)
      BY <1>3, <1>6, <2>1
    <2>3. c.route.weight = a.route.weight
      BY <1>3, <1>6, <2>1
    <2> QED
      BY <1>4, <1>5, <2>1, <2>2, <2>3
  <1> QED
    BY <1>8, <1>9 DEF Best, a, found

LEMMA MatchFindsBest ==
    ASSUME plan \in Plans, table = Compiled(plan), NEW host, NEW path \in Seq(STRING)
    PROVE  IF Match(host, path) = None THEN BestRoutes(host, path) = {}
           ELSE Match(host, path) \in BestRoutes(host, path)
  <1> DEFINE all == {RouteAt(plan, x) : x \in Places(plan)}
             fits(h) == {a \in all : h \in a.route.hosts /\ IsPrefix(a.route.prefix, path)}
             found == IF fits(host) # {} THEN fits(host) ELSE fits("*")
  <1>1. BestRoutes(host, path) = Best(found)
    BY DEF BestRoutes, Best, Heaviest, Longest
  <1>2. TableOK /\ {table[n] : n \in DOMAIN table} = all
    BY TableIs
  <1>3. ASSUME NEW h PROVE fits(h) = RoutesAt(Fitting(h, path))
    BY <1>2 DEF RoutesAt, Fitting
  <1>4. \A n \in DOMAIN table : table[n] # None
    <2>1. \A n \in DOMAIN table : table[n] \in Compilable
      BY <1>2 DEF TableOK
    <2> QED
      BY <2>1, NameAssumption DEF Compilable
  <1> HIDE DEF all, fits
  <1>5. ASSUME NEW h
        PROVE  \/ fits(h) = {} /\ matchPathMatcher(h, path) = None
               \/ /\ matchPathMatcher(h, path) \in Best(fits(h))
                  /\ matchPathMatcher(h, path) # None /\ fits(h) # {}
    <2> DEFINE F == Fitting(h, path)
    <2>1. F \in SUBSET (DOMAIN table)
      BY DEF Fitting
    <2> HIDE DEF F
    <2>2. CASE F = {} /\ matchPathMatcher(h, path) = None
      BY <1>3, <2>2 DEF RoutesAt, F
    <2>3. ASSUME NEW i \in F, Foremost(i, F), matchPathMatcher(h, path) = table[i]
          PROVE  /\ matchPathMatcher(h, path) \in Best(fits(h))
                 /\ matchPathMatcher(h, path) # None /\ fits(h) # {}
      <3>1. table[i] \in Best(RoutesAt(F))
        BY <2>1, <2>3, ForemostIsBest
      <3>2. table[i] # None
        BY <1>4, <2>1
      <3>3. RoutesAt(F) # {}
        BY DEF RoutesAt
      <3> QED
        BY <1>3, <2>3, <3>1, <3>2, <3>3 DEF F
    <2>4. \/ F = {} /\ matchPathMatcher(h, path) = None
          \/ \E i \in F : Foremost(i, F) /\ matchPathMatcher(h, path) = table[i]
      BY <1>2, MatcherFinds DEF F
    <2> QED
      BY <2>2, <2>3, <2>4
  <1>6. Match(host, path) = IF matchPathMatcher(host, path) # None
                            THEN matchPathMatcher(host, path)
                            ELSE matchPathMatcher("*", path)
    BY DEF Match
  <1>7. fits("*") = {} => Best(fits("*")) = {}
    BY DEF Best, Heaviest, Longest
  <1>8. CASE matchPathMatcher(host, path) # None
    <2>1. found = fits(host) /\ Match(host, path) = matchPathMatcher(host, path)
          /\ matchPathMatcher(host, path) \in Best(fits(host))
      BY <1>5, <1>6, <1>8
    <2> QED
      BY <1>1, <1>8, <2>1
  <1>9. CASE matchPathMatcher(host, path) = None
    <2>1. found = fits("*") /\ Match(host, path) = matchPathMatcher("*", path)
      BY <1>5, <1>6, <1>9
    <2> QED
      BY <1>1, <1>5, <1>7, <2>1
  <1> QED
    BY <1>8, <1>9

----------------------------------------------------------------------------
\* The orders of targets.

\* o has the members of ts in some order.
Arranged(o, ts) ==
    \E f \in Bijection(DOMAIN ts, DOMAIN ts) : o = [i \in DOMAIN ts |-> ts[f[i]]]

LEMMA InjectionTurns ==
    ASSUME NEW n \in Nat, NEW f \in [1..n -> 1..n],
           \A i, j \in 1..n : f[i] = f[j] => i = j
    PROVE  f \in Bijection(1..n, 1..n)
  <1>1. f \in Injection(1..n, 1..n)
    BY Fun_IsInj
  <1>2. IsFiniteSet(1..n)
    BY FS_Interval
  <1>3. f \in Surjection(1..n, 1..n)
    BY <1>1, <1>2, FS_Injection
  <1> QED
    BY <1>1, <1>3 DEF Bijection

LEMMA ListedArranged ==
    ASSUME NEW ts \in Seq(Target), NEW R, StrictOrder(DOMAIN ts, R)
    PROVE  Arranged([n \in DOMAIN ts |-> ts[Listed(DOMAIN ts, R)[n]]], ts)
  <1>1. Len(ts) \in Nat /\ DOMAIN ts = 1..Len(ts)
    OBVIOUS
  <1>2. IsFiniteSet(DOMAIN ts) /\ Cardinality(DOMAIN ts) = Len(ts)
    BY <1>1, FS_Interval
  <1>3. Listed(DOMAIN ts, R) \in Bijection(1..Cardinality(DOMAIN ts), DOMAIN ts)
    BY <1>2, ListedOrder
  <1>4. Listed(DOMAIN ts, R) \in Bijection(DOMAIN ts, DOMAIN ts)
    BY <1>1, <1>2, <1>3
  <1> QED
    BY <1>4 DEF Arranged

LEMMA TargetType ==
    ASSUME NEW ts \in Seq(Target), NEW i \in DOMAIN ts
    PROVE  /\ i \in Nat /\ ts[i] \in Target
           /\ ts[i].addr \in Addr /\ Rank[ts[i].addr] \in Int
           /\ ts[i].weight \in Int /\ ts[i].relay \in BOOLEAN
  <1>1. i \in Nat /\ ts[i] \in Target
    OBVIOUS
  <1>2. ts[i].addr \in Addr /\ ts[i].weight \in 1..100 /\ ts[i].relay \in BOOLEAN
    BY <1>1 DEF Target
  <1>3. Rank[ts[i].addr] \in Int
    BY <1>2, NameAssumption
  <1>4. \A w \in 1..100 : w \in Int
    OBVIOUS
  <1>5. ts[i].weight \in Int
    BY <1>2, <1>4, Zenon
  <1> QED
    BY <1>1, <1>2, <1>3, <1>5

\* A target's key; u and v stand for its latency.
TargetKey(ts, i, u, v) == <<u, v, -ts[i].weight, Rank[ts[i].addr], i>>

LEMMA TargetKeyIs ==
    ASSUME NEW ts \in Seq(Target), NEW i \in DOMAIN ts, NEW u \in Int, NEW v \in Int
    PROVE  LET k == TargetKey(ts, i, u, v)
           IN  /\ k \in Keys
               /\ k[1] = u /\ k[2] = v /\ k[3] = -ts[i].weight
               /\ k[4] = Rank[ts[i].addr] /\ k[5] = i
  <1>1. i \in Int /\ -ts[i].weight \in Int /\ Rank[ts[i].addr] \in Int
    BY TargetType
  <1> QED
    BY <1>1 DEF TargetKey, Keys

LEMMA HeavierArranges ==
    ASSUME NEW ts \in Seq(Target)
    PROVE  Arranged(Sorted(ts, Heavier), ts)
  <1> DEFINE S == DOMAIN ts
             Ahead(i, j) == Heavier(ts[i], ts[j]) \/ (~Heavier(ts[j], ts[i]) /\ i < j)
             R == {z \in S \X S : Ahead(z[1], z[2])}
             K == [i \in S |-> TargetKey(ts, i, 0, 0)]
  <1>1. \A i, j \in S : <<i, j>> \in R <=> Ahead(i, j)
    OBVIOUS
  <1>2. ASSUME NEW i \in S, NEW j \in S
        PROVE  /\ Ahead(i, j) <=> LexBefore(K[i], K[j])
               /\ SameKey(K[i], K[j]) => i = j
    <2> DEFINE v == ts[i].weight
               w == ts[j].weight
               a == Rank[ts[i].addr]
               b == Rank[ts[j].addr]
               k == K[i]
               m == K[j]
    <2>1. /\ k[1] = 0 /\ k[2] = 0 /\ k[3] = -v /\ k[4] = a /\ k[5] = i
          /\ m[1] = 0 /\ m[2] = 0 /\ m[3] = -w /\ m[4] = b /\ m[5] = j
      BY TargetKeyIs
    <2>2. /\ v \in Int /\ w \in Int /\ a \in Int /\ b \in Int /\ i \in Nat /\ j \in Nat
      BY TargetType
    <2>3. /\ Heavier(ts[i], ts[j]) <=> v > w \/ (v = w /\ a < b)
          /\ Heavier(ts[j], ts[i]) <=> w > v \/ (v = w /\ b < a)
      BY DEF Heavier
    <2>4. Ahead(i, j) <=> LexBefore(k, m)
      <3> HIDE DEF v, w, a, b, k, m, K, R
      <3> QED
        BY <2>1, <2>2, <2>3 DEF LexBefore
    <2>5. SameKey(k, m) => i = j
      <3> HIDE DEF k, m
      <3> QED
        BY <2>1 DEF SameKey
    <2> QED
      BY <2>4, <2>5
  <1>3. K \in [S -> Keys]
    BY TargetKeyIs
  <1>4. StrictOrder(S, R)
    <2> HIDE DEF R, K, S, Ahead
    <2> QED
      BY <1>1, <1>2, <1>3, KeyedOrder
  <1>5. Sorted(ts, Heavier) = [n \in S |-> ts[Listed(S, R)[n]]]
    <2>1. \A x \in S : {y \in S : Ahead(y, x)} = {y \in S : <<y, x>> \in R}
      BY <1>1
    <2>2. {<<Cardinality({y \in S : Ahead(y, x)}), x>> : x \in S}
              = {<<Cardinality({y \in S : <<y, x>> \in R}), x>> : x \in S}
      <3> HIDE DEF R, Ahead
      <3> QED
        BY <2>1
    <2>3. Sorted(ts, Heavier) = [n \in S |-> ts[Ascending(S, Ahead)[n]]]
      BY DEF Sorted, Ascending
    <2>4. Ascending(S, Ahead) = Listed(S, R)
      <3> HIDE DEF R, Ahead
      <3> QED
        BY <2>2 DEF Ascending, Listed
    <2>5. [n \in S |-> ts[Ascending(S, Ahead)[n]]] = [n \in S |-> ts[Listed(S, R)[n]]]
      BY <2>4
    <2> QED
      BY <2>3, <2>5
  <1> HIDE DEF R
  <1> QED
    BY <1>4, <1>5, ListedArranged

\* What the invariant says of the latencies.
LatencyOK == latency \in [Watched -> 1..MaxLatency \cup {None}]

LEMMA FasterArranges ==
    ASSUME NEW ts \in Seq(Target), LatencyOK, \A i \in DOMAIN ts : ts[i].addr \in Watched
    PROVE  Arranged(Sorted(ts, Faster), ts)
  <1> DEFINE S == DOMAIN ts
             Ahead(i, j) == Faster(ts[i], ts[j]) \/ (~Faster(ts[j], ts[i]) /\ i < j)
             R == {z \in S \X S : Ahead(z[1], z[2])}
             Lat(i) == latency[ts[i].addr]
             Unknown(i) == IF Lat(i) = None THEN 1 ELSE 0
             Known(i) == IF Lat(i) = None THEN 0 ELSE Lat(i)
             K == [i \in S |-> TargetKey(ts, i, Unknown(i), Known(i))]
  <1>1. \A i, j \in S : <<i, j>> \in R <=> Ahead(i, j)
    OBVIOUS
  <1>2. ASSUME NEW i \in S
        PROVE  Lat(i) = None \/ Lat(i) \in Int
    <2>1. Lat(i) \in 1..MaxLatency \cup {None}
      BY DEF LatencyOK
    <2>2. \A x \in 1..MaxLatency : x \in Int
      OBVIOUS
    <2> QED
      BY <2>1, <2>2, Zenon
  <1>3. \A i \in S : Unknown(i) \in Int /\ Known(i) \in Int
    <2> HIDE DEF Lat
    <2> QED
      BY <1>2
  <1>4. ASSUME NEW i \in S, NEW j \in S
        PROVE  /\ Ahead(i, j) <=> LexBefore(K[i], K[j])
               /\ SameKey(K[i], K[j]) => i = j
    <2> DEFINE v == ts[i].weight
               w == ts[j].weight
               a == Rank[ts[i].addr]
               b == Rank[ts[j].addr]
               x == Lat(i)
               y == Lat(j)
               k == K[i]
               m == K[j]
    <2>1. /\ k[1] = Unknown(i) /\ k[2] = Known(i) /\ k[3] = -v /\ k[4] = a /\ k[5] = i
          /\ m[1] = Unknown(j) /\ m[2] = Known(j) /\ m[3] = -w /\ m[4] = b /\ m[5] = j
      <3> HIDE DEF Unknown, Known
      <3> QED
        BY <1>3, TargetKeyIs
    <2>2. /\ v \in Int /\ w \in Int /\ a \in Int /\ b \in Int /\ i \in Nat /\ j \in Nat
      BY TargetType
    <2>3. /\ Heavier(ts[i], ts[j]) <=> v > w \/ (v = w /\ a < b)
          /\ Heavier(ts[j], ts[i]) <=> w > v \/ (v = w /\ b < a)
      BY DEF Heavier
    <2>4. /\ Faster(ts[i], ts[j]) <=> \/ x # None /\ y = None
                                      \/ x # None /\ y # None /\ x < y
                                      \/ x = y /\ Heavier(ts[i], ts[j])
          /\ Faster(ts[j], ts[i]) <=> \/ y # None /\ x = None
                                      \/ y # None /\ x # None /\ y < x
                                      \/ x = y /\ Heavier(ts[j], ts[i])
      BY DEF Faster
    <2>5. /\ k[1] = (IF x = None THEN 1 ELSE 0) /\ k[2] = (IF x = None THEN 0 ELSE x)
          /\ m[1] = (IF y = None THEN 1 ELSE 0) /\ m[2] = (IF y = None THEN 0 ELSE y)
          /\ x = None \/ x \in Int
          /\ y = None \/ y \in Int
      BY <1>2, <2>1
    <2>6. /\ Heavier(ts[i], ts[j]) <=> k[3] < m[3] \/ (k[3] = m[3] /\ k[4] < m[4])
          /\ Heavier(ts[j], ts[i]) <=> m[3] < k[3] \/ (k[3] = m[3] /\ m[4] < k[4])
          /\ k[3] \in Int /\ m[3] \in Int /\ k[4] \in Int /\ m[4] \in Int
          /\ k[5] = i /\ m[5] = j
      <3> HIDE DEF v, w, a, b, k, m, K, R, Unknown, Known, Lat
      <3> QED
        BY <2>1, <2>2, <2>3
    <2>7. Ahead(i, j) <=> LexBefore(k, m)
      <3> HIDE DEF k, m, K, R, x, y, Unknown, Known, Lat
      <3>1. CASE x = None /\ y = None
        <4>1. k[1] = 1 /\ m[1] = 1 /\ k[2] = 0 /\ m[2] = 0 /\ x = y
          BY <2>5, <3>1
        <4> QED
          BY <2>2, <2>4, <2>6, <3>1, <4>1, SMTT(30) DEF LexBefore
      <3>2. CASE x = None /\ y # None
        <4>1. k[1] = 1 /\ m[1] = 0 /\ x # y
          BY <2>5, <3>2
        <4> QED
          BY <2>4, <3>2, <4>1 DEF LexBefore
      <3>3. CASE x # None /\ y = None
        <4>1. k[1] = 0 /\ m[1] = 1
          BY <2>5, <3>3
        <4> QED
          BY <2>4, <3>3, <4>1 DEF LexBefore
      <3>4. CASE x # None /\ y # None
        <4>1. k[1] = 0 /\ m[1] = 0 /\ k[2] = x /\ m[2] = y /\ x \in Int /\ y \in Int
          BY <2>5, <3>4
        <4> QED
          BY <2>2, <2>4, <2>6, <3>4, <4>1, SMTT(30) DEF LexBefore
      <3> QED
        BY <3>1, <3>2, <3>3, <3>4
    <2>8. SameKey(k, m) => i = j
      <3> HIDE DEF k, m
      <3> QED
        BY <2>1 DEF SameKey
    <2> QED
      BY <2>7, <2>8
  <1>5. K \in [S -> Keys]
    <2> HIDE DEF Unknown, Known
    <2> QED
      BY <1>3, TargetKeyIs
  <1>6. StrictOrder(S, R)
    <2> HIDE DEF R, K, S, Ahead
    <2> QED
      BY <1>1, <1>4, <1>5, KeyedOrder
  <1>7. Sorted(ts, Faster) = [n \in S |-> ts[Listed(S, R)[n]]]
    <2> HIDE DEF K, Unknown, Known, Lat
    <2>1. \A x \in S : {y \in S : Ahead(y, x)} = {y \in S : <<y, x>> \in R}
      <3> HIDE DEF R, Ahead
      <3> QED
        BY <1>1
    <2>2. {<<Cardinality({y \in S : Ahead(y, x)}), x>> : x \in S}
              = {<<Cardinality({y \in S : <<y, x>> \in R}), x>> : x \in S}
      <3> HIDE DEF R, Ahead
      <3> QED
        BY <2>1
    <2>3. Sorted(ts, Faster) = [n \in S |-> ts[Ascending(S, Ahead)[n]]]
      BY DEF Sorted, Ascending
    <2>4. Ascending(S, Ahead) = Listed(S, R)
      <3> HIDE DEF R, Ahead
      <3> QED
        BY <2>2 DEF Ascending, Listed
    <2>5. [n \in S |-> ts[Ascending(S, Ahead)[n]]] = [n \in S |-> ts[Listed(S, R)[n]]]
      BY <2>4
    <2> QED
      BY <2>3, <2>5
  <1> HIDE DEF R
  <1> QED
    BY <1>6, <1>7, ListedArranged

\* Numbers that are less than L apart have different remainders.
LEMMA RemainderDiffers ==
    ASSUME NEW L \in Nat \ {0}, NEW a \in Nat, NEW t \in 1..(L - 1)
    PROVE  a % L # (a + t) % L
  <1> DEFINE b == a + t
             q == a \div L
             k == b \div L
             r == a % L
             z == 0
  <1> SUFFICES ASSUME b % L = r PROVE FALSE
    OBVIOUS
  <1>1. b \in Nat /\ b = a + t
    OBVIOUS
  <1>2. q \in Int /\ r \in 0..(L - 1) /\ a = L * q + r
    BY Divided
  <1>3. k \in Int /\ b = L * k + (b % L)
    BY <1>1, Divided
  <1>4. b = L * k + r
    BY <1>3
  <1>5. z = 0 /\ z \in 0..(L - 1) /\ t \in 0..(L - 1)
    OBVIOUS
  <1> HIDE DEF b, q, k, r, z
  <1>6. L * q \in Int /\ L * k \in Int
    BY <1>2, <1>3
  <1>7. L * q + t = L * k + z
    BY <1>1, <1>2, <1>4, <1>5, <1>6
  <1>8. t = z
    BY <1>2, <1>3, <1>5, <1>7, DivisionUnique
  <1> QED
    BY <1>5, <1>8

LEMMA RotateArranges ==
    ASSUME NEW ts \in Seq(Target), NEW n \in Nat
    PROVE  Arranged(Rotate(ts, n), ts)
  <1> DEFINE L == Len(ts)
             rem(i) == (n + i - 1) % L
             f == [i \in 1..L |-> rem(i) + 1]
  <1>1. L \in Nat /\ DOMAIN ts = 1..L
    OBVIOUS
  <1> HIDE DEF L
  <1>2. ASSUME NEW i \in 1..L
        PROVE  L \in Nat \ {0} /\ n + i - 1 \in Nat /\ rem(i) \in 0..(L - 1)
    <2>1. L \in Nat \ {0} /\ n + i - 1 \in Nat
      BY <1>1
    <2> QED
      BY <2>1, Divided
  <1>3. f \in [1..L -> 1..L]
    <2> HIDE DEF rem
    <2> QED
      BY <1>1, <1>2
  <1>4. ASSUME NEW i \in 1..L, NEW j \in 1..L, i < j
        PROVE  rem(i) # rem(j)
    <2> DEFINE a == n + i - 1
               t == j - i
    <2>1. t \in 1..(L - 1) /\ a + t = n + j - 1
      BY <1>1, <1>4
    <2>2. a \in Nat /\ L \in Nat \ {0}
      BY <1>2
    <2>3. a % L # (a + t) % L
      <3> HIDE DEF a, t
      <3> QED
        BY <2>1, <2>2, RemainderDiffers
    <2> QED
      BY <2>1, <2>3
  <1>5. \A i, j \in 1..L : f[i] = f[j] => i = j
    <2> HIDE DEF rem
    <2> SUFFICES ASSUME NEW i \in 1..L, NEW j \in 1..L, f[i] = f[j], i # j PROVE FALSE
      OBVIOUS
    <2>1. rem(i) + 1 = rem(j) + 1
      OBVIOUS
    <2>2. rem(i) \in Int /\ rem(j) \in Int
      BY <1>1, <1>2
    <2>3. rem(i) = rem(j)
      <3> HIDE DEF f
      <3> QED
        BY <2>1, <2>2
    <2>4. i < j \/ j < i
      BY <1>1
    <2> QED
      BY <1>4, <2>3, <2>4
  <1>6. f \in Bijection(1..L, 1..L)
    <2> HIDE DEF f
    <2> QED
      BY <1>1, <1>3, <1>5, InjectionTurns
  <1>7. Rotate(ts, n) = [i \in 1..L |-> ts[f[i]]]
    BY <1>1 DEF Rotate, L
  <1> HIDE DEF f
  <1> QED
    BY <1>1, <1>6, <1>7 DEF Arranged

LEMMA OrdersArrange ==
    ASSUME NEW ts \in Seq(Target), NEW strategy, NEW n \in Nat, LatencyOK,
           strategy = "latency-first" => \A i \in DOMAIN ts : ts[i].addr \in Watched,
           NEW o \in Orders(ts, strategy, n)
    PROVE  Arranged(o, ts)
  <1>1. CASE strategy = "round-robin"
    BY <1>1, RotateArranges DEF Orders
  <1>2. CASE strategy = "random"
    BY <1>2 DEF Orders, Arranged
  <1>3. CASE strategy = "latency-first"
    <2>1. Orders(ts, strategy, n) = {Sorted(ts, Faster)}
      BY <1>3 DEF Orders
    <2> QED
      BY <1>3, <2>1, FasterArranges
  <1>4. CASE strategy \notin {"round-robin", "random", "latency-first"}
    <2>1. Orders(ts, strategy, n) = {Sorted(ts, Heavier)}
      BY <1>4 DEF Orders
    <2> QED
      BY <2>1, HeavierArranges
  <1> QED
    BY <1>1, <1>2, <1>3, <1>4

\* The places of the direct targets, or of the relays.
PlacesOf(ts, relay) == {i \in DOMAIN ts : ts[i].relay = relay}

LEMMA SplitIs ==
    ASSUME NEW ts \in Seq(Target), NEW relay \in BOOLEAN
    PROVE  LET n == Cardinality(PlacesOf(ts, relay))
           IN  /\ n \in Nat
               /\ \E q \in Bijection(1..n, PlacesOf(ts, relay)) :
                      splitTargets(ts, relay) = [i \in 1..n |-> ts[q[i]]]
               /\ splitTargets(ts, relay) \in Seq(Target)
               /\ Len(splitTargets(ts, relay)) = n
  <1> DEFINE S == PlacesOf(ts, relay)
             n == Cardinality(S)
             R == {z \in S \X S : z[1] < z[2]}
             q == Listed(S, R)
  <1>1. S \in SUBSET (DOMAIN ts)
    BY DEF PlacesOf
  <1>2. IsFiniteSet(DOMAIN ts)
    <2>1. Len(ts) \in Int /\ DOMAIN ts = 1..Len(ts)
      OBVIOUS
    <2> QED
      BY <2>1, FS_Interval
  <1>3. IsFiniteSet(S) /\ n \in Nat
    BY <1>1, <1>2, FS_Subset, FS_CardinalityType
  <1>4. \A x \in S : x \in Nat
    BY <1>1, TargetType
  <1>5. \A x, y \in S : <<x, y>> \in R <=> x < y
    OBVIOUS
  <1> HIDE DEF S, R
  <1>6. StrictOrder(S, R)
    BY <1>4, <1>5 DEF StrictOrder
  <1>7. q \in Bijection(1..n, S)
    BY <1>3, <1>6, ListedOrder
  <1>8. Ascending(S, <) = q
    <2>1. \A x \in S : {y \in S : y < x} = {y \in S : <<y, x>> \in R}
      BY <1>5
    <2>2. {<<Cardinality({y \in S : y < x}), x>> : x \in S}
              = {<<Cardinality({y \in S : <<y, x>> \in R}), x>> : x \in S}
      BY <2>1
    <2> QED
      BY <2>2 DEF Ascending, Listed
  <1>9. splitTargets(ts, relay) = [i \in 1..n |-> ts[q[i]]]
    <2>1. splitTargets(ts, relay) = [i \in 1..n |-> ts[Ascending(S, <)[i]]]
      BY DEF splitTargets, S, PlacesOf, Ascending
    <2> HIDE DEF q
    <2>2. [i \in 1..n |-> ts[Ascending(S, <)[i]]] = [i \in 1..n |-> ts[q[i]]]
      BY <1>8
    <2> QED
      BY <2>1, <2>2
  <1> HIDE DEF q, n
  <1>10. splitTargets(ts, relay) \in [1..n -> Target]
    <2>1. \A i \in 1..n : q[i] \in DOMAIN ts
      BY <1>1, <1>7 DEF Bijection, Injection
    <2>2. \A i \in 1..n : ts[q[i]] \in Target
      BY <2>1, TargetType
    <2> QED
      BY <1>9, <2>2
  <1>11. splitTargets(ts, relay) \in Seq(Target) /\ Len(splitTargets(ts, relay)) = n
    BY <1>3, <1>10, ListOf
  <1> QED
    BY <1>3, <1>7, <1>9, <1>11 DEF S, n

LEMMA SplitLengths ==
    ASSUME NEW ts \in Seq(Target)
    PROVE  Cardinality(PlacesOf(ts, FALSE)) + Cardinality(PlacesOf(ts, TRUE)) = Len(ts)
  <1> DEFINE D == PlacesOf(ts, FALSE)
             E == PlacesOf(ts, TRUE)
  <1>1. Len(ts) \in Nat /\ DOMAIN ts = 1..Len(ts)
    OBVIOUS
  <1>2. IsFiniteSet(DOMAIN ts) /\ Cardinality(DOMAIN ts) = Len(ts)
    BY <1>1, FS_Interval
  <1>3. D \in SUBSET (DOMAIN ts) /\ E \in SUBSET (DOMAIN ts)
    BY DEF PlacesOf
  <1>4. D \cup E = DOMAIN ts
    <2>1. \A i \in DOMAIN ts : ts[i].relay \in BOOLEAN
      BY TargetType
    <2> QED
      BY <2>1 DEF PlacesOf
  <1>5. D \cap E = {}
    BY DEF PlacesOf
  <1> HIDE DEF D, E
  <1>6. IsFiniteSet(D) /\ IsFiniteSet(E)
    BY <1>2, <1>3, FS_Subset
  <1>7. Cardinality(D) \in Nat /\ Cardinality(E) \in Nat /\ Cardinality({}) = 0
    BY <1>6, FS_CardinalityType, FS_EmptySet
  <1>8. Cardinality(D \cup E) = Cardinality(D) + Cardinality(E) - Cardinality(D \cap E)
    BY <1>6, FS_Union
  <1>9. Cardinality(D) + Cardinality(E) = Len(ts)
    <2>1. Cardinality(D) + Cardinality(E) - 0 = Len(ts)
      BY <1>2, <1>4, <1>5, <1>7, <1>8
    <2> QED
      BY <1>7, <2>1
  <1> QED
    BY <1>9 DEF D, E

----------------------------------------------------------------------------
\* The candidates of several attempts.

\* The addresses of the direct targets, or of the relays, in some order.
PartOrdered(list, ts, relay) ==
    \E f \in Bijection(1..Cardinality(PlacesOf(ts, relay)), PlacesOf(ts, relay)) :
        list = [i \in 1..Cardinality(PlacesOf(ts, relay)) |-> ts[f[i]].addr]

\* What EveryTargetOnceDirectFirst says of one request.
Tried(ts, cands) ==
    \E p \in Bijection(DOMAIN ts, DOMAIN ts) :
        /\ \A i \in DOMAIN ts \cap DOMAIN cands : cands[i] = ts[p[i]].addr
        /\ \A i, j \in DOMAIN ts : i < j /\ ts[p[i]].relay => ts[p[j]].relay

\* An order of one part of the targets, as addresses.
LEMMA PartArranged ==
    ASSUME NEW ts \in Seq(Target), NEW relay \in BOOLEAN,
           NEW o, Arranged(o, splitTargets(ts, relay))
    PROVE  LET n == Cardinality(PlacesOf(ts, relay))
           IN  /\ n \in Nat
               /\ PartOrdered(Addrs(o), ts, relay)
               /\ Addrs(o) \in Seq(Addr) /\ Len(Addrs(o)) = n
  <1> DEFINE S == PlacesOf(ts, relay)
             n == Cardinality(S)
             part == splitTargets(ts, relay)
  <1>1. n \in Nat /\ part \in Seq(Target) /\ Len(part) = n
    BY SplitIs
  <1>2. PICK q \in Bijection(1..n, S) : part = [i \in 1..n |-> ts[q[i]]]
    BY SplitIs
  <1> HIDE DEF part, n
  <1>3. DOMAIN part = 1..n
    BY <1>2
  <1>4. PICK g \in Bijection(1..n, 1..n) : o = [i \in 1..n |-> part[g[i]]]
    BY <1>3 DEF Arranged, part
  <1> DEFINE f == [i \in 1..n |-> q[g[i]]]
  <1>5. f \in Bijection(1..n, S)
    BY Fun_BijTransitive
  <1>6. /\ \A i \in 1..n : g[i] \in 1..n
        /\ \A i \in 1..n : q[i] \in S
    BY DEF Bijection, Injection
  <1>7. Addrs(o) = [i \in 1..n |-> ts[f[i]].addr]
    <2>1. DOMAIN o = 1..n
      BY <1>4
    <2>2. \A i \in 1..n : o[i] = ts[f[i]]
      BY <1>2, <1>4, <1>6
    <2> HIDE DEF f
    <2> QED
      BY <2>1, <2>2 DEF Addrs
  <1>8. \A i \in 1..n : ts[f[i]].addr \in Addr
    <2>1. \A i \in 1..n : f[i] \in DOMAIN ts
      BY <1>6 DEF PlacesOf
    <2> HIDE DEF f
    <2> QED
      BY <2>1, TargetType
  <1> HIDE DEF f
  <1>9. Addrs(o) \in [1..n -> Addr]
    BY <1>7, <1>8
  <1>10. Addrs(o) \in Seq(Addr) /\ Len(Addrs(o)) = n
    BY <1>1, <1>9, ListOf
  <1> QED
    BY <1>1, <1>5, <1>7, <1>10 DEF n, PartOrdered

LEMMA AttemptsAre ==
    ASSUME NEW s \in Seq(Addr), s # <<>>, NEW n \in Nat
    PROVE  /\ AttemptsOf(s, n) \in Seq(Addr) /\ Len(AttemptsOf(s, n)) = n
           /\ DOMAIN AttemptsOf(s, n) = 1..n
           /\ \A i \in 1..n : i <= Len(s) => AttemptsOf(s, n)[i] = s[i]
  <1> DEFINE L == Len(s)
             rem(i) == (i - 1) % L
  <1>1. L \in Nat \ {0} /\ DOMAIN s = 1..L
    <2>1. L \in Nat /\ DOMAIN s = 1..L
      OBVIOUS
    <2>2. L # 0
      BY EmptySeq
    <2> QED
      BY <2>1, <2>2
  <1>2. AttemptsOf(s, n) = [i \in 1..n |-> s[rem(i) + 1]]
    BY DEF AttemptsOf
  <1> HIDE DEF L
  <1>3. ASSUME NEW i \in 1..n
        PROVE  /\ rem(i) \in 0..(L - 1)
               /\ i <= L => rem(i) = i - 1
    <2> DEFINE a == i - 1
               q == a \div L
               r == a % L
    <2>1. a \in Nat /\ a + 1 = i
      OBVIOUS
    <2>2. q \in Int /\ r \in 0..(L - 1) /\ a = L * q + r
      BY <1>1, <2>1, Divided
    <2>3. ASSUME i <= L PROVE r = a
      <3>1. a \in 0..(L - 1) /\ L * 0 + a = a
        BY <1>1, <2>1, <2>3
      <3> DEFINE z == 0
      <3>2. L * q + r = L * z + a /\ z \in Int
        BY <1>1, <2>1, <2>2
      <3> HIDE DEF a, q, r, z
      <3> QED
        BY <1>1, <2>2, <3>1, <3>2, DivisionUnique
    <2> QED
      BY <2>2, <2>3
  <1>4. \A i \in 1..n : rem(i) + 1 \in 1..L /\ (i <= L => rem(i) + 1 = i)
    <2> HIDE DEF rem
    <2> QED
      BY <1>1, <1>3
  <1> HIDE DEF rem
  <1>5. AttemptsOf(s, n) \in [1..n -> Addr]
    <2>1. \A i \in 1..L : s[i] \in Addr
      BY <1>1
    <2> QED
      BY <1>2, <1>4, <2>1
  <1>6. AttemptsOf(s, n) \in Seq(Addr) /\ Len(AttemptsOf(s, n)) = n /\ DOMAIN AttemptsOf(s, n) = 1..n
    BY <1>5, ListOf
  <1>7. \A i \in 1..n : i <= L => AttemptsOf(s, n)[i] = s[i]
    BY <1>2, <1>4
  <1> QED
    BY <1>6, <1>7 DEF L

LEMMA TriedAll ==
    ASSUME NEW ts \in Seq(Target) \ {<<>>}, NEW ordered, PartOrdered(ordered, ts, FALSE),
           NEW o, Arranged(o, splitTargets(ts, TRUE)), NEW n \in Nat
    PROVE  LET cands == AttemptsOf(ordered \o Addrs(o), n)
           IN  cands \in Seq(Addr) /\ Len(cands) = n /\ Tried(ts, cands)
  <1> DEFINE D == PlacesOf(ts, FALSE)
             E == PlacesOf(ts, TRUE)
             d == Cardinality(D)
             e == Cardinality(E)
             N == Len(ts)
             rest == Addrs(o)
             s == ordered \o rest
             cands == AttemptsOf(s, n)
  <1>1. d \in Nat /\ e \in Nat /\ d + e = N
    BY SplitIs, SplitLengths
  <1>2. N \in Nat \ {0} /\ DOMAIN ts = 1..N
    <2>1. N \in Nat /\ DOMAIN ts = 1..N
      OBVIOUS
    <2>2. N # 0
      BY EmptySeq
    <2> QED
      BY <2>1, <2>2
  <1>3. PICK f \in Bijection(1..d, D) : ordered = [i \in 1..d |-> ts[f[i]].addr]
    BY DEF PartOrdered
  <1>4. PICK g \in Bijection(1..e, E) : rest = [i \in 1..e |-> ts[g[i]].addr]
    <2>1. PartOrdered(rest, ts, TRUE)
      BY PartArranged
    <2> QED
      BY <2>1 DEF PartOrdered
  <1>5. rest \in Seq(Addr) /\ Len(rest) = e
    BY PartArranged
  <1>6. /\ D \subseteq DOMAIN ts /\ E \subseteq DOMAIN ts
        /\ D \cap E = {}
        /\ \A i \in D : ts[i].relay = FALSE
        /\ \A i \in E : ts[i].relay = TRUE
    BY DEF PlacesOf
  <1> HIDE DEF D, E, d, e, N, rest, s
  <1>7. /\ f \in [1..d -> D] /\ \A i, j \in 1..d : f[i] = f[j] => i = j
        /\ g \in [1..e -> E] /\ \A i, j \in 1..e : g[i] = g[j] => i = j
    BY Fun_BijectionProperties
  <1>8. ordered \in Seq(Addr) /\ Len(ordered) = d
    <2>1. \A i \in 1..d : f[i] \in DOMAIN ts
      BY <1>6, <1>7
    <2>2. \A i \in 1..d : ts[f[i]].addr \in Addr
      BY <2>1, TargetType
    <2>3. ordered \in [1..d -> Addr]
      BY <1>3, <2>2
    <2> QED
      BY <1>1, <2>3, ListOf
  <1>9. /\ s \in Seq(Addr) /\ Len(s) = N
        /\ \A i \in 1..N : s[i] = IF i <= d THEN ordered[i] ELSE rest[i - d]
    <2>1. /\ s \in Seq(Addr) /\ Len(s) = Len(ordered) + Len(rest)
          /\ \A i \in 1..(Len(ordered) + Len(rest)) :
                 s[i] = IF i <= Len(ordered) THEN ordered[i] ELSE rest[i - Len(ordered)]
      BY <1>5, <1>8, ConcatProperties, Zenon DEF s
    <2>2. Len(ordered) = d /\ Len(ordered) + Len(rest) = N
      BY <1>1, <1>5, <1>8
    <2> QED
      BY <2>1, <2>2, Zenon
  <1>10. s # <<>>
    BY <1>2, <1>9, EmptySeq
  <1>11. /\ cands \in Seq(Addr) /\ Len(cands) = n /\ DOMAIN cands = 1..n
         /\ \A i \in 1..n : i <= Len(s) => cands[i] = s[i]
    BY <1>9, <1>10, AttemptsAre
  <1> HIDE DEF cands
  <1> DEFINE p == [i \in 1..N |-> IF i <= d THEN f[i] ELSE g[i - d]]
  <1>12. \A i \in 1..N : IF i <= d THEN i \in 1..d ELSE i - d \in 1..e
    BY <1>1, <1>2
  <1>13. \A i \in 1..N : /\ i <= d => p[i] = f[i] /\ p[i] \in D
                         /\ ~(i <= d) => p[i] = g[i - d] /\ p[i] \in E
    BY <1>7, <1>12
  <1> HIDE DEF p
  <1>14. p \in [1..N -> 1..N]
    <2>1. \A i \in 1..N : p[i] \in 1..N
      BY <1>2, <1>6, <1>13
    <2> QED
      BY <2>1 DEF p
  <1>15. ASSUME NEW i \in 1..N, NEW j \in 1..N, p[i] = p[j]
         PROVE  i = j
    <2>1. CASE i <= d /\ j <= d
      <3>1. i \in 1..d /\ j \in 1..d /\ f[i] = f[j]
        BY <1>12, <1>13, <1>15, <2>1
      <3> QED
        BY <1>7, <3>1
    <2>2. CASE ~(i <= d) /\ ~(j <= d)
      <3>1. i - d \in 1..e /\ j - d \in 1..e /\ g[i - d] = g[j - d]
        BY <1>12, <1>13, <1>15, <2>2
      <3>2. i - d = j - d
        BY <1>7, <3>1
      <3> QED
        BY <1>1, <3>2
    <2>3. CASE (i <= d) # (j <= d)
      BY <1>6, <1>13, <1>15, <2>3
    <2> QED
      BY <2>1, <2>2, <2>3
  <1>16. p \in Bijection(1..N, 1..N)
    BY <1>2, <1>14, <1>15, InjectionTurns
  <1>17. ASSUME NEW i \in DOMAIN ts \cap DOMAIN cands
         PROVE  cands[i] = ts[p[i]].addr
    <2>1. i \in 1..N /\ i \in 1..n /\ i <= Len(s)
      BY <1>2, <1>9, <1>11
    <2>2. cands[i] = IF i <= d THEN ordered[i] ELSE rest[i - d]
      BY <1>9, <1>11, <2>1
    <2>3. CASE i <= d
      BY <1>3, <1>12, <1>13, <2>1, <2>2, <2>3
    <2>4. CASE ~(i <= d)
      BY <1>4, <1>12, <1>13, <2>1, <2>2, <2>4
    <2> QED
      BY <2>3, <2>4
  <1>18. ASSUME NEW i \in DOMAIN ts, NEW j \in DOMAIN ts, i < j, ts[p[i]].relay
         PROVE  ts[p[j]].relay
    <2>1. i \in 1..N /\ j \in 1..N
      BY <1>2
    <2>2. ~(i <= d)
      BY <1>6, <1>13, <1>18, <2>1
    <2>3. ~(j <= d)
      BY <1>1, <1>18, <2>1, <2>2
    <2> QED
      BY <1>6, <1>13, <2>1, <2>3
  <1>19. Tried(ts, cands)
    BY <1>2, <1>16, <1>17, <1>18 DEF Tried
  <1> QED
    BY <1>11, <1>19 DEF cands, s, rest

----------------------------------------------------------------------------
\* Turns.

\* How often a counter that has come to r has given the turn to the target
\* j + 1 of L, had it begun with the first one.
Turns(r, j, L) == (r \div L) + (IF j < r % L THEN 1 ELSE 0)

LEMMA TurnsNext ==
    ASSUME NEW L \in Nat \ {0}, NEW a \in Nat, NEW j \in 0..(L - 1)
    PROVE  /\ Turns(a, j, L) \in Int /\ a % L \in 0..(L - 1)
           /\ Turns(a + 1, j, L) = Turns(a, j, L) + (IF j = a % L THEN 1 ELSE 0)
  <1> DEFINE q == a \div L
             r == a % L
             k == (a + 1) \div L
             s == (a + 1) % L
             t == r + 1
             u == q + 1
             z == 0
  <1>1. q \in Int /\ r \in 0..(L - 1) /\ a = L * q + r
    BY Divided
  <1>2. k \in Int /\ s \in 0..(L - 1) /\ a + 1 = L * k + s
    BY Divided
  <1>3. t = r + 1 /\ u = q + 1 /\ z = 0
    OBVIOUS
  <1>4. /\ Turns(a, j, L) = q + (IF j < r THEN 1 ELSE 0)
        /\ Turns(a + 1, j, L) = k + (IF j < s THEN 1 ELSE 0)
    BY DEF Turns
  <1> HIDE DEF q, r, k, s, t, u, z
  <1>5. ASSUME r < L - 1
        PROVE  Turns(a + 1, j, L) = Turns(a, j, L) + (IF j = r THEN 1 ELSE 0)
    <2>1. L * k + s = L * q + t /\ t \in 0..(L - 1)
      BY <1>1, <1>2, <1>3, <1>5
    <2>2. k = q /\ s = t
      BY <1>1, <1>2, <2>1, DivisionUnique, ZenonT(30)
    <2>3. Turns(a + 1, j, L) = q + (IF j < r + 1 THEN 1 ELSE 0)
      BY <1>3, <1>4, <2>2
    <2>4. j < r + 1 <=> j < r \/ j = r
      BY <1>1
    <2> QED
      BY <1>1, <1>4, <2>3, <2>4
  <1>6. ASSUME r = L - 1
        PROVE  Turns(a + 1, j, L) = Turns(a, j, L) + (IF j = r THEN 1 ELSE 0)
    <2>1. L * u = L * q + L /\ L * q \in Int /\ L * k \in Int /\ L * z = 0
      BY <1>1, <1>2, <1>3
    <2>2. L * k + s = L * u + z /\ u \in Int /\ z \in 0..(L - 1)
      BY <1>1, <1>2, <1>3, <1>6, <2>1
    <2>3. k = u /\ s = z
      BY <1>2, <2>2, DivisionUnique
    <2>4. Turns(a + 1, j, L) = q + 1
      BY <1>1, <1>3, <1>4, <2>3
    <2>5. j < r \/ (j = r /\ ~(j < r))
      BY <1>1, <1>6
    <2>6. Turns(a, j, L) + (IF j = r THEN 1 ELSE 0) = q + 1
      <3>1. CASE j < r
        <4>1. j # r
          BY <1>1, <3>1
        <4> QED
          BY <1>1, <1>4, <3>1, <4>1
      <3>2. CASE j = r /\ ~(j < r)
        BY <1>1, <1>4, <3>2
      <3> QED
        BY <2>5, <3>1, <3>2
    <2> QED
      BY <2>4, <2>6
  <1>7. Turns(a + 1, j, L) = Turns(a, j, L) + (IF j = r THEN 1 ELSE 0)
    BY <1>1, <1>5, <1>6
  <1>8. Turns(a, j, L) \in Int
    BY <1>1, <1>4
  <1> QED
    BY <1>1, <1>7, <1>8 DEF r

\* What has been served, with what stale picks have taken, is what the turns
\* from some number r0 on add up to.
EvenlyServed(L, r, sv, st) ==
    \E r0 \in Nat, lost \in [1..L -> Nat] :
        \A i \in 1..L : /\ lost[i] <= st
                        /\ sv[i] + lost[i] = Turns(r, i - 1, L) - Turns(r0, i - 1, L)

LEMMA EvenReset ==
    ASSUME NEW L \in Nat, NEW r \in Nat
    PROVE  EvenlyServed(L, r, [i \in 1..L |-> 0], 0)
  <1> DEFINE lost == [i \in 1..L |-> 0]
  <1>1. lost \in [1..L -> Nat]
    OBVIOUS
  <1>2. ASSUME NEW i \in 1..L
        PROVE  lost[i] <= 0 /\ lost[i] + lost[i] = Turns(r, i - 1, L) - Turns(r, i - 1, L)
    <2>1. Turns(r, i - 1, L) \in Int
      <3>1. L \in Nat \ {0} /\ i - 1 \in 0..(L - 1)
        OBVIOUS
      <3> QED
        BY <3>1, TurnsNext
    <2> QED
      BY <2>1
  <1> HIDE DEF lost
  <1>3. EvenlyServed(L, r, lost, 0)
    BY <1>1, <1>2 DEF EvenlyServed
  <1> QED
    BY <1>3 DEF lost

LEMMA EvenStep ==
    ASSUME NEW L \in Nat \ {0}, NEW r \in Nat, NEW st \in Nat, NEW sv \in [1..L -> Nat],
           EvenlyServed(L, r, sv, st)
    PROVE  EvenlyServed(L, r + 1, [sv EXCEPT ![(r % L) + 1] = @ + 1], st)
  <1> DEFINE sv2 == [sv EXCEPT ![(r % L) + 1] = @ + 1]
  <1>1. PICK r0 \in Nat, lost \in [1..L -> Nat] :
            \A i \in 1..L : /\ lost[i] <= st
                            /\ sv[i] + lost[i] = Turns(r, i - 1, L) - Turns(r0, i - 1, L)
    BY DEF EvenlyServed
  <1>2. ASSUME NEW i \in 1..L
        PROVE  sv2[i] + lost[i] = Turns(r + 1, i - 1, L) - Turns(r0, i - 1, L)
    <2> DEFINE j == i - 1
               m == r % L
               a == Turns(r, j, L)
               b == Turns(r0, j, L)
               c == Turns(r + 1, j, L)
    <2>1. j \in 0..(L - 1) /\ i = j + 1
      OBVIOUS
    <2>2. a \in Int /\ m \in 0..(L - 1) /\ c = a + (IF j = m THEN 1 ELSE 0)
      BY <2>1, TurnsNext
    <2>3. b \in Int
      BY <2>1, TurnsNext
    <2>4. sv[i] + lost[i] = a - b /\ sv[i] \in Nat /\ lost[i] \in Nat
      BY <1>1
    <2> HIDE DEF m, a, b, c
    <2>5. sv2[i] = IF j = m THEN sv[i] + 1 ELSE sv[i]
      <3>1. m + 1 = i <=> j = m
        BY <2>1, <2>2
      <3>2. sv2[i] = IF m + 1 = i THEN sv[i] + 1 ELSE sv[i]
        BY DEF m
      <3> HIDE DEF sv2
      <3> QED
        BY <3>1, <3>2
    <2> HIDE DEF sv2, j
    <2>6. sv2[i] + lost[i] = c - b
      <3>1. CASE j = m
        <4>1. sv2[i] = sv[i] + 1 /\ c = a + 1
          BY <2>2, <2>5, <3>1
        <4> QED
          BY <2>2, <2>3, <2>4, <4>1, SMTT(30)
      <3>2. CASE j # m
        <4>1. sv2[i] = sv[i] /\ c = a
          BY <2>2, <2>5, <3>2
        <4> QED
          BY <2>2, <2>3, <2>4, <4>1
      <3> QED
        BY <3>1, <3>2
    <2> QED
      BY <2>6 DEF b, c, j
  <1> HIDE DEF sv2
  <1>3. EvenlyServed(L, r + 1, sv2, st)
    BY <1>1, <1>2 DEF EvenlyServed
  <1> QED
    BY <1>3 DEF sv2

LEMMA EvenStale ==
    ASSUME NEW L \in Nat, NEW r \in Nat, NEW st \in Nat, NEW sv \in [1..L -> Nat],
           EvenlyServed(L, r, sv, st)
    PROVE  EvenlyServed(L, r + 1, sv, st + 1)
  <1>1. PICK r0 \in Nat, lost \in [1..L -> Nat] :
            \A i \in 1..L : /\ lost[i] <= st
                            /\ sv[i] + lost[i] = Turns(r, i - 1, L) - Turns(r0, i - 1, L)
    BY DEF EvenlyServed
  <1> DEFINE lost2 == [i \in 1..L |-> IF i - 1 = r % L THEN lost[i] + 1 ELSE lost[i]]
  <1>2. lost2 \in [1..L -> Nat]
    OBVIOUS
  <1>3. ASSUME NEW i \in 1..L
        PROVE  /\ lost2[i] <= st + 1
               /\ sv[i] + lost2[i] = Turns(r + 1, i - 1, L) - Turns(r0, i - 1, L)
    <2> DEFINE j == i - 1
               m == r % L
               a == Turns(r, j, L)
               b == Turns(r0, j, L)
               c == Turns(r + 1, j, L)
    <2>1. j \in 0..(L - 1) /\ L \in Nat \ {0}
      OBVIOUS
    <2>2. a \in Int /\ m \in 0..(L - 1) /\ c = a + (IF j = m THEN 1 ELSE 0)
      BY <2>1, TurnsNext
    <2>3. b \in Int
      BY <2>1, TurnsNext
    <2>4. sv[i] + lost[i] = a - b /\ sv[i] \in Nat /\ lost[i] \in Nat /\ lost[i] <= st
      BY <1>1
    <2>5. lost2[i] = IF j = m THEN lost[i] + 1 ELSE lost[i]
      OBVIOUS
    <2> HIDE DEF m, a, b, c, j, lost2
    <2>6. sv[i] + lost2[i] = c - b /\ lost2[i] <= st + 1
      <3>1. CASE j = m
        <4>1. lost2[i] = lost[i] + 1 /\ c = a + 1
          BY <2>2, <2>5, <3>1
        <4>2. lost2[i] <= st + 1
          BY <2>4, <4>1
        <4> DEFINE x == sv[i]
                   y == lost[i]
        <4>3. x \in Nat /\ y \in Nat /\ x + y = a - b
          BY <2>4
        <4> HIDE DEF x, y
        <4>4. x + (y + 1) = (a + 1) - b
          BY <2>2, <2>3, <4>3
        <4>5. sv[i] + lost2[i] = c - b
          BY <4>1, <4>4 DEF x, y
        <4> QED
          BY <4>2, <4>5
      <3>2. CASE j # m
        <4>1. lost2[i] = lost[i] /\ c = a
          BY <2>2, <2>5, <3>2
        <4>2. lost2[i] <= st + 1
          BY <2>4, <4>1
        <4>3. sv[i] + lost2[i] = c - b
          BY <2>2, <2>3, <2>4, <4>1
        <4> QED
          BY <4>2, <4>3
      <3> QED
        BY <3>1, <3>2
    <2> QED
      BY <2>6 DEF b, c, j
  <1> HIDE DEF lost2
  <1> QED
    BY <1>2, <1>3 DEF EvenlyServed

LEMMA EvenFair ==
    ASSUME NEW L \in Nat, NEW r \in Nat, NEW st \in Nat, NEW sv \in [1..L -> Nat],
           EvenlyServed(L, r, sv, st), NEW i \in 1..L, NEW j \in 1..L
    PROVE  sv[i] <= sv[j] + 1 + st
  <1>1. PICK r0 \in Nat, lost \in [1..L -> Nat] :
            \A n \in 1..L : /\ lost[n] <= st
                            /\ sv[n] + lost[n] = Turns(r, n - 1, L) - Turns(r0, n - 1, L)
    BY DEF EvenlyServed
  <1>2. L \in Nat \ {0} /\ i - 1 \in 0..(L - 1) /\ j - 1 \in 0..(L - 1)
    OBVIOUS
  <1>3. ASSUME NEW a \in Nat
        PROVE  /\ Turns(a, i - 1, L) \in Int /\ Turns(a, j - 1, L) \in Int
               /\ i <= j => /\ Turns(a, i - 1, L) <= Turns(a, j - 1, L) + 1
                            /\ Turns(a, j - 1, L) <= Turns(a, i - 1, L)
               /\ j <= i => /\ Turns(a, j - 1, L) <= Turns(a, i - 1, L) + 1
                            /\ Turns(a, i - 1, L) <= Turns(a, j - 1, L)
    <2> DEFINE q == a \div L
               m == a % L
    <2>1. q \in Int /\ m \in Int
      BY <1>2, Divided
    <2>2. /\ Turns(a, i - 1, L) = q + (IF i - 1 < m THEN 1 ELSE 0)
          /\ Turns(a, j - 1, L) = q + (IF j - 1 < m THEN 1 ELSE 0)
      BY DEF Turns
    <2> HIDE DEF q, m
    <2> QED
      BY <2>1, <2>2, SMTT(30)
  <1> DEFINE x == Turns(r, i - 1, L)
             y == Turns(r, j - 1, L)
             u == Turns(r0, i - 1, L)
             v == Turns(r0, j - 1, L)
  <1>4. /\ x \in Int /\ y \in Int /\ u \in Int /\ v \in Int
        /\ i <= j => x <= y + 1 /\ v <= u
        /\ j <= i => x <= y /\ v <= u + 1
    BY <1>3
  <1>5. /\ sv[i] + lost[i] = x - u /\ sv[i] \in Nat /\ lost[i] \in Nat
        /\ sv[j] + lost[j] = y - v /\ sv[j] \in Nat /\ lost[j] \in Nat /\ lost[j] <= st
    BY <1>1
  <1>6. i <= j \/ j <= i
    OBVIOUS
  <1> HIDE DEF x, y, u, v
  <1> QED
    BY <1>4, <1>5, <1>6, SMTT(30)

----------------------------------------------------------------------------
\* The counters.

LEMMA CounterFinite == IsFiniteSet(Counter)
  <1>1. IsFiniteSet({"all"}) /\ IsFiniteSet({"direct"}) /\ IsFiniteSet({"relay"})
    BY FS_Singleton
  <1>2. IsFiniteSet(({"all"} \cup {"direct"}) \cup {"relay"})
    BY <1>1, FS_Union
  <1>3. ({"all"} \cup {"direct"}) \cup {"relay"} = {"all", "direct", "relay"}
    OBVIOUS
  <1>4. IsFiniteSet({"all", "direct", "relay"})
    BY <1>2, <1>3
  <1> QED
    BY <1>4, NameAssumption, FS_Product DEF Counter

LEMMA SumOfNothing ==
    ASSUME NEW D, IsFiniteSet(D)
    PROVE  SumFunction([k \in D |-> 0]) = 0
  <1> DEFINE w == [k \in D |-> 0]
  <1>1. DOMAIN w = D /\ \A x \in D : w[x] = 0
    OBVIOUS
  <1> HIDE DEF w
  <1>2. PICK f : IsSum(f, w) /\ SumFunction(w) = f[D]
    BY <1>1, SumIs
  <1> DEFINE C == {s \in SUBSET D : f[s] # 0}
  <1>3. C = {}
    <2> SUFFICES ASSUME C # {} PROVE FALSE
      OBVIOUS
    <2>1. PICK s \in C : \A x \in s : s \ {x} \notin C
      BY MinimalSet
    <2>2. s # {} /\ s \in SUBSET DOMAIN w
      BY <1>1, <1>2, SumNone
    <2>3. PICK x \in s : f[s] = w[x] + f[s \ {x}]
      BY <1>2, <2>2, SumStep
    <2>4. f[s \ {x}] = 0 /\ w[x] = 0
      BY <1>1, <2>1, <2>2
    <2> QED
      BY <2>3, <2>4
  <1> QED
    BY <1>2, <1>3 DEF w

LEMMA SumRaised ==
    ASSUME NEW D, IsFiniteSet(D), NEW w \in [D -> Nat], NEW k \in D
    PROVE  /\ SumFunction(w) \in Nat /\ w[k] <= SumFunction(w)
           /\ SumFunction([w EXCEPT ![k] = @ + 1]) = SumFunction(w) + 1
  <1> DEFINE v == [w EXCEPT ![k] = @ + 1]
  <1>1. Summable(w) /\ DOMAIN w = D
    BY DEF Summable
  <1>2. DOMAIN v = D /\ v \in [D -> Nat] /\ v[k] = w[k] + 1 /\ \A y \in D : y # k => v[y] = w[y]
    OBVIOUS
  <1> HIDE DEF v
  <1>3. Summable(v)
    BY <1>2 DEF Summable
  <1>4. SumFunction(v) + ValueAt(w, k) = SumFunction(w) + ValueAt(v, k)
    BY <1>1, <1>2, <1>3, SumChange
  <1>5. ValueAt(w, k) = w[k] /\ ValueAt(v, k) = w[k] + 1 /\ w[k] \in Nat
    BY <1>1, <1>2 DEF ValueAt
  <1>6. SumFunction(w) \in Nat /\ SumFunction(v) \in Nat
    BY <1>1, <1>3, SumNat
  <1>7. w[k] <= SumFunction(w)
    <2>1. PICK f : IsSum(f, w) /\ SumFunction(w) = f[D]
      BY <1>1, SumIs
    <2>2. f[D] = w[k] + f[D \ {k}]
      BY <1>1, <2>1, SumAny
    <2>3. f[D \ {k}] \in Nat
      BY <1>1, <2>1, SumType
    <2> QED
      BY <1>5, <2>1, <2>2, <2>3
  <1>8. SumFunction(v) = SumFunction(w) + 1
    BY <1>4, <1>5, <1>6
  <1> QED
    BY <1>6, <1>7, <1>8 DEF v

\* A counter that has come to r with L targets: what it has served and missed.
CounterOK(L, r, sv, st) ==
    /\ r \in Nat
    /\ st \in 0..r
    /\ sv \in [1..L -> 0..r]
    /\ EvenlyServed(L, r, sv, st)

LEMMA CounterReset ==
    ASSUME NEW L \in Nat, NEW r \in Nat
    PROVE  CounterOK(L, r, [i \in 1..L |-> 0], 0)
  BY EvenReset DEF CounterOK

LEMMA CounterServes ==
    ASSUME NEW L \in Nat \ {0}, NEW r, NEW sv, NEW st, CounterOK(L, r, sv, st)
    PROVE  CounterOK(L, r + 1, [sv EXCEPT ![(r % L) + 1] = @ + 1], st)
  <1> DEFINE sv2 == [sv EXCEPT ![(r % L) + 1] = @ + 1]
  <1>1. r \in Nat /\ st \in 0..r /\ sv \in [1..L -> 0..r] /\ sv \in [1..L -> Nat] /\ st \in Nat
    BY DEF CounterOK
  <1>2. EvenlyServed(L, r + 1, sv2, st)
    BY <1>1, EvenStep DEF CounterOK
  <1>3. sv2 \in [1..L -> 0..(r + 1)]
    <2>1. \A x \in 0..r : x \in 0..(r + 1) /\ x + 1 \in 0..(r + 1)
      BY <1>1
    <2> QED
      BY <1>1, <2>1
  <1>4. r + 1 \in Nat /\ st \in 0..(r + 1)
    BY <1>1
  <1> QED
    BY <1>2, <1>3, <1>4 DEF CounterOK

LEMMA CounterMisses ==
    ASSUME NEW L \in Nat, NEW r, NEW sv, NEW st, CounterOK(L, r, sv, st)
    PROVE  CounterOK(L, r + 1, sv, st + 1)
  <1>1. r \in Nat /\ st \in 0..r /\ sv \in [1..L -> 0..r] /\ sv \in [1..L -> Nat] /\ st \in Nat
    BY DEF CounterOK
  <1>2. EvenlyServed(L, r + 1, sv, st + 1)
    BY <1>1, EvenStale DEF CounterOK
  <1>3. sv \in [1..L -> 0..(r + 1)]
    <2>1. \A x \in 0..r : x \in 0..(r + 1)
      BY <1>1
    <2> QED
      BY <1>1, <2>1
  <1>4. r + 1 \in Nat /\ st + 1 \in 0..(r + 1)
    BY <1>1
  <1> QED
    BY <1>2, <1>3, <1>4 DEF CounterOK

----------------------------------------------------------------------------
\* What a request keeps of its plan.

\* Latency is looked at only where it is kept.
LooksAt(strategy, ts) ==
    strategy = "latency-first" => \A i \in DOMAIN ts : ts[i].addr \in Watched

LEMMA TargetsType ==
    ASSUME NEW p \in Plans, NEW g
    PROVE  /\ TargetsIn(p, g) \in Seq(Target)
           /\ TargetsIn(p, g) # <<>> =>
                  LET owner == CHOOSE s \in Service : <<s, g>> \in Groups(p)
                  IN  LooksAt(p[owner].strategy, TargetsIn(p, g))
  <1> DEFINE owner == CHOOSE s \in Service : <<s, g>> \in Groups(p)
             ts == TargetsIn(p, g)
  <1>1. CASE ~\E s \in Service : <<s, g>> \in Groups(p)
    <2>1. ts = <<>>
      BY <1>1 DEF TargetsIn
    <2> QED
      BY <2>1
  <1>2. CASE \E s \in Service : <<s, g>> \in Groups(p)
    <2>1. owner \in Service /\ <<owner, g>> \in Groups(p)
      BY <1>2
    <2>2. ts = p[owner].groups[g]
      BY <1>2 DEF TargetsIn
    <2> HIDE DEF owner, ts
    <2>3. owner \in Stored(p) /\ g \in DOMAIN p[owner].groups
      BY <2>1 DEF Groups, Stored
    <2>4. p[owner] \in Offered[owner] /\ ts \in Seq(Target)
      BY <2>2, <2>3, PlanType
    <2>5. LooksAt(p[owner].strategy, ts)
      <3> SUFFICES ASSUME p[owner].strategy = "latency-first", NEW i \in DOMAIN ts
                   PROVE  ts[i].addr \in Watched
        BY DEF LooksAt
      <3>1. p[owner] \in {d \in UNION {Offered[s] : s \in Service} : d.strategy = "latency-first"}
        BY <2>1, <2>4
      <3>2. ts[i].addr \in {p[owner].groups[g][j].addr : j \in DOMAIN p[owner].groups[g]}
        BY <2>2
      <3>3. ts[i].addr \in UNION {{p[owner].groups[h][j].addr : j \in DOMAIN p[owner].groups[h]} :
                                     h \in DOMAIN p[owner].groups}
        BY <2>3, <3>2
      <3> QED
        BY <3>1, <3>3 DEF Watched
    <2> QED
      BY <2>4, <2>5 DEF owner, ts
  <1> QED
    BY <1>1, <1>2

LEMMA PartType ==
    ASSUME NEW ts \in Seq(Target), NEW relay \in BOOLEAN, NEW strategy, LooksAt(strategy, ts)
    PROVE  /\ splitTargets(ts, relay) \in Seq(Target)
           /\ LooksAt(strategy, splitTargets(ts, relay))
  <1> DEFINE n == Cardinality(PlacesOf(ts, relay))
             part == splitTargets(ts, relay)
  <1>1. PICK q \in Bijection(1..n, PlacesOf(ts, relay)) : part = [i \in 1..n |-> ts[q[i]]]
    BY SplitIs
  <1>2. part \in Seq(Target)
    BY SplitIs
  <1>3. \A i \in 1..n : q[i] \in DOMAIN ts
    BY DEF Bijection, Injection, PlacesOf
  <1> HIDE DEF part, n
  <1>4. LooksAt(strategy, part)
    BY <1>1, <1>3 DEF LooksAt
  <1> QED
    BY <1>2, <1>4 DEF part

LEMMA TurnedType ==
    ASSUME NEW p \in Plans, NEW k
    PROVE  /\ Turned(p, k) \in Seq(Target)
           /\ Len(Turned(p, k)) \in Nat /\ DOMAIN Turned(p, k) = 1..Len(Turned(p, k))
  <1>1. TargetsIn(p, k[1]) \in Seq(Target)
    BY TargetsType
  <1>2. Turned(p, k) \in Seq(Target)
    BY <1>1, SplitIs DEF Turned
  <1> QED
    BY <1>2

LEMMA MatchType ==
    ASSUME plan \in Plans, table = Compiled(plan), NEW host, NEW path \in Seq(STRING),
           Match(host, path) # None
    PROVE  Match(host, path).service \in Stored(plan)
  <1>1. TableOK /\ \A n \in DOMAIN table : table[n].service \in Stored(plan)
    BY TableIs
  <1>2. \A h : matchPathMatcher(h, path) # None =>
                   \E n \in DOMAIN table : matchPathMatcher(h, path) = table[n]
    BY <1>1, MatcherFinds DEF Fitting
  <1>3. \E n \in DOMAIN table : Match(host, path) = table[n]
    BY <1>2 DEF Match
  <1> QED
    BY <1>1, <1>3

----------------------------------------------------------------------------
\* The inductive invariant.

PlanInv == plan \in Plans /\ table = Compiled(plan)

\* A request with its targets before it, and one with its candidates.
PendingOK(q) ==
    /\ q.attempts \in Nat \ {0}
    /\ q.group \in Group
    /\ q.targets \in Seq(Target) \ {<<>>}
    /\ LooksAt(q.strategy, q.targets)

ChosenOK(q) ==
    /\ q.cands \in Seq(Addr)
    /\ q.cands # <<>> => Len(q.cands) = q.attempts
    /\ q.attempts > 1 /\ q.targets # <<>> => Tried(q.targets, q.cands)

RequestOK(q) ==
    /\ q.pc \in {"routed", "direct"} => PendingOK(q)
    /\ q.pc = "direct" => PartOrdered(q.ordered, q.targets, FALSE)
    /\ q.pc = "chosen" => ChosenOK(q)

ReqInv ==
    /\ DOMAIN req = Request
    /\ \A r \in Request : RequestOK(req[r])

CountInv ==
    /\ rr \in [Counter -> Nat]
    /\ SumFunction(rr) <= MaxPicks
    /\ DOMAIN served = Counter
    /\ stale \in [Counter -> Nat]

TurnsInv ==
    \A k \in Counter : CounterOK(Len(Turned(plan, k)), rr[k], served[k], stale[k])

Inv == PlanInv /\ LatencyOK /\ ReqInv /\ CountInv /\ TurnsInv

LEMMA InitInv == Init => Inv
  <1> SUFFICES ASSUME Init PROVE Inv
    OBVIOUS
  <1>1. PlanInv
    BY DEF Init, PlanInv
  <1>2. LatencyOK
    BY DEF Init, LatencyOK
  <1>3. ReqInv
    BY DEF Init, ReqInv, Idle, RequestOK
  <1>4. CountInv
    <2>1. rr = [k \in Counter |-> 0] /\ stale = [k \in Counter |-> 0] /\ DOMAIN served = Counter
      BY DEF Init
    <2>2. SumFunction(rr) = 0
      BY <2>1, CounterFinite, SumOfNothing
    <2> QED
      BY <2>1, <2>2, BoundAssumption DEF CountInv
  <1>5. TurnsInv
    <2> SUFFICES ASSUME NEW k \in Counter
                 PROVE  CounterOK(Len(Turned(plan, k)), rr[k], served[k], stale[k])
      BY DEF TurnsInv
    <2> DEFINE L == Len(Turned(plan, k))
    <2>1. L \in Nat /\ DOMAIN Turned(plan, k) = 1..L
      BY TurnedType DEF Init
    <2>2. rr[k] = 0 /\ stale[k] = 0 /\ served[k] = [i \in DOMAIN Turned(plan, k) |-> 0]
      BY DEF Init
    <2> HIDE DEF L
    <2>3. CounterOK(L, 0, [i \in 1..L |-> 0], 0)
      BY <2>1, CounterReset
    <2> QED
      BY <2>1, <2>2, <2>3 DEF L
  <1> QED
    BY <1>1, <1>2, <1>3, <1>4, <1>5 DEF Inv

\* A step of one request leaves the others alone.
LEMMA RequestStep ==
    ASSUME ReqInv, NEW r \in Request, NEW q, RequestOK(q), req' = [req EXCEPT ![r] = q]
    PROVE  ReqInv'
  <1>1. DOMAIN req' = Request /\ \A s \in Request : req'[s] = IF s = r THEN q ELSE req[s]
    BY DEF ReqInv
  <1>2. \A s \in Request : RequestOK(req'[s])
    BY <1>1 DEF ReqInv
  <1> QED
    BY <1>1, <1>2 DEF ReqInv

\* Count with the targets that a counter goes round, where the plan still has
\* them.
LEMMA CountStep ==
    ASSUME Inv, UNCHANGED plan, NEW r, NEW k \in Counter, NEW ts, Count(r, k, ts),
           req[r].targets = TargetsIn(plan, k[1]) => ts = Turned(plan, k)
    PROVE  CountInv' /\ TurnsInv'
  <1> USE DEF Inv
  <1>1. CASE ~(req[r].strategy = "round-robin" /\ Len(ts) > 1)
    <2>1. UNCHANGED <<rr, served, stale>>
      BY <1>1 DEF Count
    <2> QED
      BY <2>1 DEF CountInv, TurnsInv
  <1>2. CASE req[r].strategy = "round-robin" /\ Len(ts) > 1
    <2> DEFINE L == Len(Turned(plan, k))
    <2>0. L \in Nat
      BY TurnedType DEF PlanInv
    <2>1. rr' = [rr EXCEPT ![k] = @ + 1] /\ SumFunction(rr) < MaxPicks
      BY <1>2 DEF Count
    <2>2. /\ SumFunction(rr) \in Nat /\ MaxPicks \in Nat
          /\ SumFunction(rr') = SumFunction(rr) + 1
      BY <2>1, CounterFinite, SumRaised, BoundAssumption DEF CountInv
    <2>3. rr' \in [Counter -> Nat] /\ SumFunction(rr') <= MaxPicks
      <3>1. rr' \in [Counter -> Nat]
        BY <2>1 DEF CountInv
      <3> DEFINE x == SumFunction(rr)
      <3>2. x \in Nat /\ x < MaxPicks /\ SumFunction(rr') = x + 1
        BY <2>1, <2>2
      <3> HIDE DEF x
      <3>3. x + 1 <= MaxPicks
        BY <2>2, <3>2
      <3> QED
        BY <3>1, <3>2, <3>3
    <2>4. rr'[k] = rr[k] + 1 /\ \A j \in Counter : j # k => rr'[j] = rr[j]
      BY <2>1 DEF CountInv
    <2>5. CounterOK(L, rr[k], served[k], stale[k])
      BY DEF TurnsInv
    <2>6. CASE req[r].targets = TargetsIn(plan, k[1])
      <3>1. ts = Turned(plan, k)
        BY <2>6
      <3>2. stale' = stale /\ served' = [served EXCEPT ![k][(rr[k] % L) + 1] = @ + 1]
        BY <1>2, <2>6, <3>1 DEF Count
      <3>3. /\ served'[k] = [served[k] EXCEPT ![(rr[k] % L) + 1] = @ + 1]
            /\ DOMAIN served' = Counter
            /\ \A j \in Counter : j # k => served'[j] = served[j]
        BY <3>2 DEF CountInv
      <3>4. L \in Nat \ {0}
        BY <1>2, <2>0, <3>1
      <3>5. CounterOK(L, rr'[k], served'[k], stale'[k])
        <4> DEFINE sv == served[k]
                   n == rr[k]
        <4> HIDE DEF L, sv, n
        <4>1. CounterOK(L, n + 1, [sv EXCEPT ![(n % L) + 1] = @ + 1], stale[k])
          BY <2>5, <3>4, CounterServes DEF sv, n
        <4>2. served'[k] = [sv EXCEPT ![(n % L) + 1] = @ + 1]
          BY <3>3 DEF sv, n
        <4> QED
          BY <2>4, <3>2, <4>1, <4>2 DEF n
      <3>6. TurnsInv'
        BY <2>4, <3>2, <3>3, <3>5 DEF TurnsInv
      <3> QED
        BY <2>3, <3>2, <3>3, <3>6 DEF CountInv
    <2>7. CASE req[r].targets # TargetsIn(plan, k[1])
      <3>1. served' = served /\ stale' = [stale EXCEPT ![k] = @ + 1]
        BY <1>2, <2>7 DEF Count
      <3>2. /\ stale' \in [Counter -> Nat] /\ stale'[k] = stale[k] + 1
            /\ \A j \in Counter : j # k => stale'[j] = stale[j]
        BY <3>1 DEF CountInv
      <3>3. CounterOK(L, rr'[k], served'[k], stale'[k])
        BY <2>0, <2>4, <2>5, <3>1, <3>2, CounterMisses
      <3>4. TurnsInv'
        BY <2>4, <3>1, <3>2, <3>3 DEF TurnsInv
      <3> QED
        BY <2>3, <3>1, <3>2, <3>4 DEF CountInv
    <2> QED
      BY <2>6, <2>7
  <1> QED
    BY <1>1, <1>2

LEMMA RefreshKeeps ==
    ASSUME Inv, NEW s \in Service, NEW c \in Offered[s] \cup {None}, Refresh(s, c)
    PROVE  Inv'
  <1> USE DEF Inv
  <1>1. plan' = [plan EXCEPT ![s] = c] /\ table' = Compiled(plan') /\ UNCHANGED <<rr, latency, req>>
    BY DEF Refresh, KeepState
  <1>2. plan' \in Plans
    BY <1>1 DEF PlanInv, Plans
  <1>3. PlanInv'
    BY <1>1, <1>2 DEF PlanInv
  <1>4. LatencyOK' /\ ReqInv'
    BY <1>1 DEF LatencyOK, ReqInv
  <1> DEFINE changed == {k \in Counter : TargetsIn(plan, k[1]) # TargetsIn(plan', k[1])}
  <1>5. /\ served' = [k \in Counter |->
                         IF k \in changed THEN [i \in DOMAIN Turned(plan', k) |-> 0]
                         ELSE served[k]]
        /\ stale' = [k \in Counter |-> IF k \in changed THEN 0 ELSE stale[k]]
    BY DEF Refresh
  <1>6. \A k \in Counter : k \notin changed => Turned(plan', k) = Turned(plan, k)
    BY DEF Turned
  <1> HIDE DEF changed
  <1>7. CountInv'
    <2>1. DOMAIN served' = Counter /\ stale' \in [Counter -> Nat]
      BY <1>5 DEF CountInv
    <2> QED
      BY <1>1, <2>1 DEF CountInv
  <1>8. ASSUME NEW k \in Counter
        PROVE  CounterOK(Len(Turned(plan', k)), rr'[k], served'[k], stale'[k])
    <2>1. CASE k \notin changed
      BY <1>1, <1>5, <1>6, <2>1 DEF TurnsInv
    <2>2. CASE k \in changed
      <3> DEFINE L == Len(Turned(plan', k))
      <3>1. L \in Nat /\ DOMAIN Turned(plan', k) = 1..L
        BY <1>2, TurnedType
      <3>2. rr'[k] \in Nat /\ stale'[k] = 0 /\ served'[k] = [i \in DOMAIN Turned(plan', k) |-> 0]
        BY <1>1, <1>5, <2>2 DEF CountInv
      <3> HIDE DEF L
      <3>3. CounterOK(L, rr'[k], [i \in 1..L |-> 0], 0)
        BY <3>1, <3>2, CounterReset
      <3> QED
        BY <3>1, <3>2, <3>3 DEF L
    <2> QED
      BY <2>1, <2>2
  <1> QED
    BY <1>3, <1>4, <1>7, <1>8 DEF TurnsInv

LEMMA RouteKeeps ==
    ASSUME Inv, NEW r \in Request, NEW q \in Query, Route(r, q)
    PROVE  Inv'
  <1> USE DEF Inv
  <1> DEFINE m == Match(q[1], q[2])
             dest == m.route.dest
             n == plan[m.service].attempts
             ts == TargetsIn(plan, dest)
             owner == CHOOSE s \in Service : <<s, dest>> \in Groups(plan)
             routed == [pc |-> "routed", attempts |-> n, group |-> dest,
                        strategy |-> plan[owner].strategy, targets |-> ts]
             cands == CASE dest \in Stored(plan) -> [i \in 1..n |-> ListenerOf[dest]]
                        [] dest \in Addr \ Stored(plan) -> [i \in 1..n |-> dest]
                        [] OTHER -> <<>>
             chosen == [pc |-> "chosen", attempts |-> n, targets |-> <<>>, cands |-> cands]
             new == IF dest \in Group /\ ts # <<>> THEN routed ELSE chosen
  <1>1. req' = [req EXCEPT ![r] = new] /\ m # None /\ UNCHANGED <<plan, table, rr, latency, served, stale>>
    BY DEF Route
  <1>2. q[1] \in STRING /\ q[2] \in Seq(STRING)
    BY NameAssumption
  <1>3. n \in Nat \ {0}
    <2>1. m.service \in Stored(plan)
      BY <1>1, <1>2, MatchType DEF PlanInv
    <2> QED
      BY <2>1, PlanType DEF PlanInv
  <1>4. ts \in Seq(Target) /\ (ts # <<>> => LooksAt(plan[owner].strategy, ts))
    BY TargetsType DEF PlanInv
  <1> HIDE DEF n, m, ts, owner
  <1>5. ASSUME dest \in Group, ts # <<>> PROVE RequestOK(new)
    <2> HIDE DEF dest
    <2>1. PendingOK(routed)
      BY <1>3, <1>4, <1>5 DEF PendingOK
    <2>2. RequestOK(routed)
      BY <2>1 DEF RequestOK
    <2> QED
      BY <1>5, <2>2
  <1>6. ASSUME ~(dest \in Group /\ ts # <<>>) PROVE RequestOK(new)
    <2> HIDE DEF dest
    <2>1. cands \in Seq(Addr) /\ (cands # <<>> => Len(cands) = n)
      <3>1. CASE dest \in Stored(plan)
        <4>1. ListenerOf[dest] \in Addr
          BY <3>1, NameAssumption DEF Stored
        <4>2. [i \in 1..n |-> ListenerOf[dest]] \in [1..n -> Addr]
          BY <4>1
        <4>3. cands = [i \in 1..n |-> ListenerOf[dest]]
          BY <3>1
        <4> QED
          BY <1>3, <4>2, <4>3, ListOf
      <3>2. CASE dest \notin Stored(plan) /\ dest \in Addr
        <4>1. [i \in 1..n |-> dest] \in [1..n -> Addr]
          BY <3>2
        <4>2. cands = [i \in 1..n |-> dest]
          BY <3>2
        <4> QED
          BY <1>3, <4>1, <4>2, ListOf
      <3>3. CASE dest \notin Stored(plan) /\ dest \notin Addr
        <4>1. cands = <<>>
          BY <3>3
        <4> HIDE DEF cands
        <4> QED
          BY <4>1
      <3> QED
        BY <3>1, <3>2, <3>3
    <2> HIDE DEF cands
    <2>2. ChosenOK(chosen)
      BY <2>1 DEF ChosenOK
    <2>3. RequestOK(chosen)
      BY <2>2 DEF RequestOK
    <2> QED
      BY <1>6, <2>3
  <1>7. RequestOK(new)
    BY <1>5, <1>6
  <1> HIDE DEF new
  <1>8. ReqInv'
    BY <1>1, <1>7, RequestStep
  <1> QED
    BY <1>1, <1>8 DEF PlanInv, LatencyOK, CountInv, TurnsInv

LEMMA PickKeeps ==
    ASSUME Inv, NEW r \in Request, Pick(r)
    PROVE  Inv'
  <1> USE DEF Inv
  <1> DEFINE ts == req[r].targets
             strategy == req[r].strategy
             k == <<req[r].group, "all">>
             choices == CASE strategy = "custom" -> {<<>>}
                          [] strategy = "random" -> {<<t.addr>> : t \in ToSet(ts)}
                          [] OTHER -> {<<Head(o).addr>> : o \in Orders(ts, strategy, rr[k])}
             new(c) == [pc |-> "chosen", attempts |-> 1, targets |-> ts, cands |-> c]
  <1>1. req[r].pc = "routed" /\ Count(r, k, ts) /\ UNCHANGED <<plan, table, latency>>
    BY DEF Pick
  <1>2. PICK c \in choices : req' = [req EXCEPT ![r] = new(c)]
    BY DEF Pick
  <1>3. /\ req[r].group \in Group /\ ts \in Seq(Target) \ {<<>>}
        /\ LooksAt(strategy, ts)
    BY <1>1 DEF ReqInv, RequestOK, PendingOK
  <1>4. k \in Counter /\ k[1] = req[r].group /\ k[2] = "all"
    BY <1>3 DEF Counter
  <1>5. rr[k] \in Nat
    BY <1>4 DEF CountInv
  <1>6. CountInv' /\ TurnsInv'
    <2>1. ts = TargetsIn(plan, k[1]) => ts = Turned(plan, k)
      BY <1>4 DEF Turned
    <2> HIDE DEF k
    <2> QED
      BY <1>1, <1>4, <2>1, CountStep
  <1>7. DOMAIN ts = 1..Len(ts) /\ 1 \in DOMAIN ts /\ Len(ts) \in Nat
    <2>1. Len(ts) \in Nat /\ Len(ts) # 0 /\ DOMAIN ts = 1..Len(ts)
      BY <1>3, EmptySeq
    <2> QED
      BY <2>1
  <1> HIDE DEF ts, strategy, k
  <1>8. \A t \in Target : <<t.addr>> \in Seq(Addr) /\ Len(<<t.addr>>) = 1
    BY DEF Target
  <1>9. c \in Seq(Addr) /\ (c # <<>> => Len(c) = 1)
    <2>1. CASE strategy = "custom"
      <3>1. c = <<>>
        BY <2>1
      <3> QED
        BY <3>1
    <2>2. CASE strategy = "random"
      <3>1. PICK t \in ToSet(ts) : c = <<t.addr>>
        BY <2>2
      <3>2. t \in Target
        BY <1>3 DEF ToSet
      <3> QED
        BY <1>8, <3>1, <3>2
    <2>3. CASE strategy \notin {"custom", "random"}
      <3>1. PICK o \in Orders(ts, strategy, rr[k]) : c = <<Head(o).addr>>
        BY <2>3
      <3>2. Arranged(o, ts)
        BY <1>3, <1>5, OrdersArrange DEF LooksAt
      <3>3. PICK f \in Bijection(DOMAIN ts, DOMAIN ts) : o = [i \in DOMAIN ts |-> ts[f[i]]]
        BY <3>2 DEF Arranged
      <3>4. f \in [DOMAIN ts -> DOMAIN ts]
        BY DEF Bijection, Injection
      <3>5. Head(o) = ts[f[1]] /\ f[1] \in DOMAIN ts
        BY <1>7, <3>3, <3>4
      <3>6. Head(o) \in Target
        BY <1>3, <3>5
      <3> QED
        BY <1>8, <3>1, <3>6
    <2> QED
      BY <2>1, <2>2, <2>3
  <1> HIDE DEF choices
  <1>10. ChosenOK(new(c))
    BY <1>9 DEF ChosenOK
  <1>11. RequestOK(new(c))
    BY <1>10 DEF RequestOK
  <1> HIDE DEF new
  <1>12. ReqInv'
    BY <1>2, <1>11, RequestStep
  <1> QED
    BY <1>1, <1>6, <1>12 DEF PlanInv, LatencyOK

LEMMA OrderDirectKeeps ==
    ASSUME Inv, NEW r \in Request, OrderDirect(r)
    PROVE  Inv'
  <1> USE DEF Inv
  <1> DEFINE ts == req[r].targets
             strategy == req[r].strategy
             part == splitTargets(ts, FALSE)
             k == <<req[r].group, "direct">>
             new(o) == [pc |-> "direct", attempts |-> req[r].attempts,
                        group |-> req[r].group, strategy |-> strategy,
                        targets |-> ts, ordered |-> Addrs(o)]
  <1>1. req[r].pc = "routed" /\ Count(r, k, part) /\ UNCHANGED <<plan, table, latency>>
    BY DEF OrderDirect
  <1>2. PICK o \in Orders(part, strategy, rr[k]) : req' = [req EXCEPT ![r] = new(o)]
    BY DEF OrderDirect, ReqInv
  <1>3. /\ PendingOK(req[r])
        /\ req[r].group \in Group /\ ts \in Seq(Target) \ {<<>>} /\ LooksAt(strategy, ts)
    BY <1>1 DEF ReqInv, RequestOK, PendingOK
  <1>4. k \in Counter /\ k[1] = req[r].group /\ k[2] = "direct"
    BY <1>3 DEF Counter
  <1>5. rr[k] \in Nat
    BY <1>4 DEF CountInv
  <1>6. CountInv' /\ TurnsInv'
    <2>1. ts = TargetsIn(plan, k[1]) => part = Turned(plan, k)
      BY <1>4 DEF Turned
    <2> HIDE DEF k, part
    <2> QED
      BY <1>1, <1>4, <2>1, CountStep
  <1>7. part \in Seq(Target) /\ LooksAt(strategy, part)
    BY <1>3, PartType
  <1> HIDE DEF ts, strategy, k
  <1>8. Arranged(o, part)
    <2> HIDE DEF part
    <2> QED
      BY <1>2, <1>5, <1>7, OrdersArrange DEF LooksAt
  <1>9. PartOrdered(Addrs(o), ts, FALSE)
    BY <1>3, <1>8, PartArranged
  <1>10. RequestOK(new(o))
    <2>1. PendingOK(new(o))
      BY <1>3 DEF PendingOK, ts, strategy
    <2> QED
      BY <1>9, <2>1 DEF RequestOK
  <1> HIDE DEF new
  <1>11. ReqInv'
    BY <1>2, <1>10, RequestStep
  <1> QED
    BY <1>1, <1>6, <1>11 DEF PlanInv, LatencyOK

LEMMA OrderRelayKeeps ==
    ASSUME Inv, NEW r \in Request, OrderRelay(r)
    PROVE  Inv'
  <1> USE DEF Inv
  <1> DEFINE ts == req[r].targets
             strategy == req[r].strategy
             part == splitTargets(ts, TRUE)
             k == <<req[r].group, "relay">>
             n == req[r].attempts
             new(o) == [pc |-> "chosen", attempts |-> n, targets |-> ts,
                        cands |-> AttemptsOf(req[r].ordered \o Addrs(o), n)]
  <1>1. req[r].pc = "direct" /\ Count(r, k, part) /\ UNCHANGED <<plan, table, latency>>
    BY DEF OrderRelay
  <1>2. PICK o \in Orders(part, strategy, rr[k]) : req' = [req EXCEPT ![r] = new(o)]
    BY DEF OrderRelay, ReqInv
  <1>3. /\ n \in Nat /\ req[r].group \in Group /\ ts \in Seq(Target) \ {<<>>}
        /\ LooksAt(strategy, ts) /\ PartOrdered(req[r].ordered, ts, FALSE)
    BY <1>1 DEF ReqInv, RequestOK, PendingOK
  <1>4. k \in Counter /\ k[1] = req[r].group /\ k[2] = "relay"
    BY <1>3 DEF Counter
  <1>5. rr[k] \in Nat
    BY <1>4 DEF CountInv
  <1>6. CountInv' /\ TurnsInv'
    <2>1. ts = TargetsIn(plan, k[1]) => part = Turned(plan, k)
      BY <1>4 DEF Turned
    <2> HIDE DEF k, part
    <2> QED
      BY <1>1, <1>4, <2>1, CountStep
  <1>7. part \in Seq(Target) /\ LooksAt(strategy, part)
    BY <1>3, PartType
  <1> HIDE DEF ts, strategy, k, n
  <1>8. Arranged(o, part)
    <2> HIDE DEF part
    <2> QED
      BY <1>2, <1>5, <1>7, OrdersArrange DEF LooksAt
  <1> DEFINE cands == AttemptsOf(req[r].ordered \o Addrs(o), n)
  <1>9. cands \in Seq(Addr) /\ Len(cands) = n /\ Tried(ts, cands)
    BY <1>3, <1>8, TriedAll
  <1> HIDE DEF cands
  <1>10. new(o) = [pc |-> "chosen", attempts |-> n, targets |-> ts, cands |-> cands]
    BY DEF cands
  <1> HIDE DEF new
  <1>11. ChosenOK(new(o)) /\ new(o).pc = "chosen"
    BY <1>9, <1>10 DEF ChosenOK
  <1>12. RequestOK(new(o))
    BY <1>11 DEF RequestOK
  <1>13. ReqInv'
    BY <1>2, <1>12, RequestStep
  <1> QED
    BY <1>1, <1>6, <1>13 DEF PlanInv, LatencyOK

LEMMA IdleKeeps ==
    ASSUME ReqInv, NEW r \in Request, req' = [req EXCEPT ![r] = Idle]
    PROVE  ReqInv'
  <1>1. RequestOK(Idle)
    BY DEF RequestOK, Idle
  <1> QED
    BY <1>1, RequestStep

LEMMA EndKeeps ==
    ASSUME Inv, NEW r \in Request, End(r)
    PROVE  Inv'
  <1>1. /\ req' = [req EXCEPT ![r] = Idle]
        /\ UNCHANGED <<plan, table, rr, latency, served, stale>>
    BY DEF End
  <1>2. ReqInv'
    BY <1>1, IdleKeeps DEF Inv
  <1> QED
    BY <1>1, <1>2 DEF Inv, PlanInv, LatencyOK, CountInv, TurnsInv

LEMMA EndObservedKeeps ==
    ASSUME Inv, NEW r \in Request, EndObserved(r)
    PROVE  Inv'
  <1>1. /\ req' = [req EXCEPT ![r] = Idle]
        /\ UNCHANGED <<plan, table, rr, served, stale>>
    BY DEF EndObserved
  <1>2. PICK a \in Watched, avg \in 1..MaxLatency : latency' = [latency EXCEPT ![a] = avg]
    BY DEF EndObserved
  <1>3. LatencyOK'
    BY <1>2 DEF Inv, LatencyOK
  <1>4. ReqInv'
    BY <1>1, IdleKeeps DEF Inv
  <1> QED
    BY <1>1, <1>3, <1>4 DEF Inv, PlanInv, CountInv, TurnsInv

LEMMA NextInv == Inv /\ [Next]_vars => Inv'
  <1> SUFFICES ASSUME Inv, [Next]_vars PROVE Inv'
    OBVIOUS
  <1>1. CASE UNCHANGED vars
    BY <1>1 DEF vars, Inv, PlanInv, LatencyOK, ReqInv, CountInv, TurnsInv
  <1>2. ASSUME NEW s \in Service, NEW c \in Offered[s] \cup {None}, Refresh(s, c)
        PROVE  Inv'
    BY <1>2, RefreshKeeps
  <1>3. ASSUME NEW r \in Request, NEW q \in Query, Route(r, q)
        PROVE  Inv'
    BY <1>3, RouteKeeps
  <1>4. ASSUME NEW r \in Request, Pick(r)
        PROVE  Inv'
    BY <1>4, PickKeeps
  <1>5. ASSUME NEW r \in Request, OrderDirect(r)
        PROVE  Inv'
    BY <1>5, OrderDirectKeeps
  <1>6. ASSUME NEW r \in Request, OrderRelay(r)
        PROVE  Inv'
    BY <1>6, OrderRelayKeeps
  <1>7. ASSUME NEW r \in Request, End(r)
        PROVE  Inv'
    BY <1>7, EndKeeps
  <1>8. ASSUME NEW r \in Request, EndObserved(r)
        PROVE  Inv'
    BY <1>8, EndObservedKeeps
  <1> QED
    BY <1>1, <1>2, <1>3, <1>4, <1>5, <1>6, <1>7, <1>8 DEF Next

LEMMA Invariance == Spec => []Inv
  BY InitInv, NextInv, PTL DEF Spec

----------------------------------------------------------------------------
LEMMA InvType == Inv => TypeOK
  <1> SUFFICES ASSUME Inv PROVE TypeOK
    OBVIOUS
  <1>1. plan \in Plans /\ latency \in [Watched -> 1..MaxLatency \cup {None}]
    BY DEF Inv, PlanInv, LatencyOK
  <1>2. \A r \in Request :
            req[r].pc = "chosen" =>
                /\ req[r].cands \in Seq(Addr)
                /\ req[r].cands # <<>> => Len(req[r].cands) = req[r].attempts
    BY DEF Inv, ReqInv, RequestOK, ChosenOK
  <1>3. rr \in [Counter -> Nat] /\ stale \in [Counter -> Nat] /\ DOMAIN served = Counter
    BY DEF Inv, CountInv
  <1>4. ASSUME NEW k \in Counter
        PROVE  /\ rr[k] \in 0..MaxPicks
               /\ stale[k] \in 0..MaxPicks
               /\ served[k] \in [DOMAIN Turned(plan, k) -> 0..MaxPicks]
    <2> DEFINE L == Len(Turned(plan, k))
               sum == SumFunction(rr)
    <2>1. sum \in Nat /\ rr[k] <= sum /\ sum <= MaxPicks /\ rr[k] \in Nat /\ MaxPicks \in Nat
      BY <1>3, CounterFinite, SumRaised, BoundAssumption DEF Inv, CountInv
    <2> HIDE DEF sum
    <2>2. rr[k] <= MaxPicks
      BY <2>1
    <2>3. stale[k] \in 0..rr[k] /\ served[k] \in [1..L -> 0..rr[k]]
      BY DEF Inv, TurnsInv, CounterOK
    <2>4. DOMAIN Turned(plan, k) = 1..L
      BY <1>1, TurnedType
    <2>5. \A x \in 0..rr[k] : x \in 0..MaxPicks
      BY <2>1, <2>2
    <2> HIDE DEF L
    <2> QED
      BY <2>1, <2>2, <2>3, <2>4, <2>5
  <1>5. rr \in [Counter -> 0..MaxPicks] /\ stale \in [Counter -> 0..MaxPicks]
    BY <1>3, <1>4
  <1> QED
    BY <1>1, <1>2, <1>3, <1>4, <1>5 DEF TypeOK

(***************************************************************************)
(* The types hold at all times: in particular a request has as many        *)
(* candidates as attempts, or none where its destination is unknown        *)
(* (runtime.go:478), whatever the configurations, the number of requests   *)
(* and the refreshes between their steps.                                  *)
(***************************************************************************)
THEOREM TypeCorrect == Spec => []TypeOK
  BY Invariance, InvType, PTL

LEMMA InvMatch == Inv => MatchIsBest
  <1> SUFFICES ASSUME Inv, NEW q \in Query
               PROVE  IF Match(q[1], q[2]) = None THEN BestRoutes(q[1], q[2]) = {}
                      ELSE Match(q[1], q[2]) \in BestRoutes(q[1], q[2])
    BY DEF MatchIsBest
  <1>1. q[2] \in Seq(STRING)
    BY NameAssumption
  <1> QED
    BY <1>1, MatchFindsBest DEF Inv, PlanInv

(***************************************************************************)
(* Plan.Match with its buckets by host and first byte and its sorted scan  *)
(* (runtime.go:258) finds a best route in the sense of BestRoutes, and     *)
(* nothing only if no route fits, for any routes that Validate accepts and *)
(* any request.                                                            *)
(***************************************************************************)
THEOREM MatchAlwaysBest == Spec => []MatchIsBest
  BY Invariance, InvMatch, PTL

LEMMA InvTried == Inv => EveryTargetOnceDirectFirst
  BY DEF Inv, ReqInv, RequestOK, ChosenOK, Tried, EveryTargetOnceDirectFirst

(***************************************************************************)
(* With several attempts a request tries each target of its group once     *)
(* before any again, direct targets before relays (runtime.go:485), for    *)
(* every strategy, any list of targets and any number of requests.         *)
(***************************************************************************)
THEOREM AllTargetsTried == Spec => []EveryTargetOnceDirectFirst
  BY Invariance, InvTried, PTL

LEMMA InvFair == Inv => RoundRobinFair
  <1> SUFFICES ASSUME Inv, NEW k \in Counter, NEW i \in DOMAIN served[k], NEW j \in DOMAIN served[k]
               PROVE  served[k][i] <= served[k][j] + 1 + stale[k]
    BY DEF RoundRobinFair
  <1> DEFINE L == Len(Turned(plan, k))
  <1>1. L \in Nat
    BY TurnedType DEF Inv, PlanInv
  <1>2. CounterOK(L, rr[k], served[k], stale[k])
    BY DEF Inv, TurnsInv
  <1> HIDE DEF L
  <1>3. /\ rr[k] \in Nat /\ stale[k] \in Nat
        /\ served[k] \in [1..L -> Nat] /\ EvenlyServed(L, rr[k], served[k], stale[k])
    BY <1>2 DEF CounterOK
  <1>4. i \in 1..L /\ j \in 1..L
    BY <1>3
  <1> QED
    BY <1>1, <1>3, <1>4, EvenFair

(***************************************************************************)
(* Round-robin stays fair: however requests and refreshes interleave, none *)
(* of the targets a counter goes round has been first more than once more  *)
(* than another, but for the picks made on older target lists              *)
(* (balancer.go:119, server.go:302).                                       *)
(***************************************************************************)
THEOREM RoundRobinStaysFair == Spec => []RoundRobinFair
  BY Invariance, InvFair, PTL

=============================================================================
