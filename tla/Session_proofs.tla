--------------------------- MODULE Session_proofs ---------------------------
(***************************************************************************)
(* Proofs about Session: the choice of the probe services, for any list of   *)
(* them and any answers, and the state file, for any number of callers, any  *)
(* mix of their operations and any number of expired tokens.                 *)
(***************************************************************************)
EXTENDS Session, SequenceTheorems, WellFoundedInduction, TLAPS

\* What holds before a loop, and is kept by each of its n steps, holds throughout.
LEMMA LoopInduction ==
  ASSUME NEW n \in Nat, NEW P, 0 \in P, \A k \in 1..n : k - 1 \in P => k \in P
  PROVE  0..n \subseteq P
<1> SUFFICES ASSUME NEW j \in 0..n, j \notin P PROVE FALSE
  OBVIOUS
<1> DEFINE T == {i \in 0..n : i \notin P}
<1>1. T \subseteq Nat /\ T # {}
  OBVIOUS
<1>2. PICK x \in T : \A y \in T : ~(<<y, x>> \in OpToRel(<, Nat))
  BY <1>1, WFMin, NatLessThanWellFounded
<1>3. x \in 1..n /\ x \notin P
  OBVIOUS
<1>4. x - 1 \in T
  BY <1>3
<1>5. <<x - 1, x>> \in OpToRel(<, Nat)
  <2>1. <<x - 1, x>> \in Nat \X Nat /\ x - 1 < x
    BY <1>3
  <2> HIDE DEF T
  <2> QED
    BY <2>1 DEF OpToRel
<1> QED
  BY <1>2, <1>4, <1>5

\* The intermediate results f of a loop of n steps, and a function that is known to have
\* them only as far as they are of the right type.
Runs(f, first, n, Body) == f[0] = first /\ \A k \in 1..n : f[k] = Body[k][f[k - 1]]
Solves(f, S, first, n, Body) ==
  /\ f = [k \in 0..n |-> f[k]] /\ f[0] = first
  /\ \A k \in 1..n : f[k - 1] \in S => f[k] = Body[k][f[k - 1]]

\* A loop computes something: there is a function of its intermediate results.
LEMMA LoopResults ==
  ASSUME NEW S, NEW first \in S, NEW n \in Nat, NEW Body \in [1..n -> [S -> S]]
  PROVE  \E f \in [0..n -> S] : Runs(f, first, n, Body)
<1> DEFINE Upto(m, f) == f[0] = first /\ \A k \in 1..m : f[k] = Body[k][f[k - 1]]
           P == {m \in 0..n : \E f \in [0..m -> S] : Upto(m, f)}
<1>1. 0 \in P
  <2> DEFINE g == [k \in 0..0 |-> first]
  <2>1. g \in [0..0 -> S] /\ Upto(0, g)
    OBVIOUS
  <2> HIDE DEF g, Upto
  <2> QED
    BY <2>1
<1>2. ASSUME NEW m \in 1..n, m - 1 \in P PROVE m \in P
  <2>1. PICK f \in [0..m - 1 -> S] : Upto(m - 1, f)
    BY <1>2
  <2> DEFINE g == [k \in 0..m |-> IF k = m THEN Body[m][f[m - 1]] ELSE f[k]]
  <2>2. m - 1 \in 0..m - 1 /\ f[m - 1] \in S
    OBVIOUS
  <2>3. g \in [0..m -> S]
    BY <2>2
  <2>4. g[0] = first
    BY <2>1
  <2>5. ASSUME NEW k \in 1..m PROVE g[k] = Body[k][g[k - 1]]
    BY <2>1
  <2>6. Upto(m, g)
    BY <2>4, <2>5
  <2> HIDE DEF g, Upto
  <2> QED
    BY <2>3, <2>6
<1>3. n \in P
  <2> HIDE DEF P
  <2>1. 0..n \subseteq P
    BY <1>1, <1>2, LoopInduction
  <2> QED
    BY <2>1
<1> QED
  BY <1>3 DEF Runs

\* A recursive function over 0..n, which TLA+ defines as some solution f of its equation,
\* is the function of the intermediate results of its loop.
LEMMA LoopSolved ==
  ASSUME NEW S, NEW first \in S, NEW n \in Nat, NEW Body \in [1..n -> [S -> S]], NEW f,
         \A g \in [0..n -> S] : Runs(g, first, n, Body) => Solves(f, S, first, n, Body)
  PROVE  f \in [0..n -> S] /\ Runs(f, first, n, Body)
<1>1. /\ f = [k \in 0..n |-> f[k]] /\ f[0] = first
      /\ \A k \in 1..n : f[k - 1] \in S => f[k] = Body[k][f[k - 1]]
  <2>1. PICK g \in [0..n -> S] : Runs(g, first, n, Body)
    BY LoopResults
  <2> QED
    BY <2>1 DEF Solves
<1> DEFINE P == {k \in 0..n : f[k] \in S}
<1>2. 0..n \subseteq P
  <2>1. 0 \in P
    BY <1>1
  <2>2. ASSUME NEW k \in 1..n, k - 1 \in P PROVE k \in P
    <3>1. f[k - 1] \in S /\ f[k] = Body[k][f[k - 1]] /\ Body[k] \in [S -> S]
      BY <1>1, <2>2
    <3> QED
      BY <3>1
  <2> HIDE DEF P
  <2> QED
    BY <2>1, <2>2, LoopInduction
<1>3. \A k \in 1..n : k - 1 \in 0..n
  OBVIOUS
<1> QED
  BY <1>1, <1>2, <1>3 DEF Runs

-----------------------------------------------------------------------------
\* The loop of OnlyType, for the kth service.
OfTypeStep(types, t, k, x) == IF types[k] = t THEN Append(x, k) ELSE x

\* The lists of the services of a type among the first k follow from each other.
LEMMA OfTypeLoop ==
  ASSUME NEW types \in Seq(ServiceType), NEW t, NEW f, f = OfType(types, t)
  PROVE  /\ f \in [0..Len(types) -> Seq(1..Len(types))] /\ f[0] = <<>>
         /\ \A k \in 1..Len(types) : f[k] = OfTypeStep(types, t, k, f[k - 1])
<1> DEFINE Iterate(k, x) == OfTypeStep(types, t, k, x)
<1>1. PICK n \in Nat : n = Len(types)
  OBVIOUS
<1>2. PICK S : S = Seq(1..n)
  OBVIOUS
<1>3. PICK first \in S : first = <<>>
  <2>1. \A U : <<>> \in Seq(U)
    OBVIOUS
  <2> QED
    BY <1>2, <2>1
<1> DEFINE Eq(h) == h = [k \in 0..n |-> IF k = 0 THEN first ELSE Iterate(k, h[k - 1])]
<1>4. f = CHOOSE h : Eq(h)
  BY <1>1, <1>3 DEF OfType, OfTypeStep
<1>5. ASSUME NEW k \in 1..n, NEW x \in S PROVE Iterate(k, x) \in S
  <2>1. PICK R : R = 1..n
    OBVIOUS
  <2>2. k \in R /\ x \in Seq(R)
    BY <1>2, <2>1
  <2>3. Append(x, k) \in Seq(R)
    BY <2>2
  <2> QED
    BY <1>2, <2>1, <2>3 DEF OfTypeStep
<1> HIDE DEF Iterate
<1>6. PICK Body \in [1..n -> [S -> S]] : \A k \in 1..n, x \in S : Body[k][x] = Iterate(k, x)
  <2>1. [k \in 1..n |-> [x \in S |-> Iterate(k, x)]] \in [1..n -> [S -> S]]
    BY <1>5
  <2> QED
    BY <2>1
<1>7. ASSUME NEW g \in [0..n -> S], Runs(g, first, n, Body)
      PROVE  Solves(f, S, first, n, Body)
  <2>1. Eq(g)
    <3>1. \A k \in 1..n : g[k - 1] \in S
      OBVIOUS
    <3> QED
      BY <3>1, <1>6, <1>7 DEF Runs
  <2>2. Eq(f)
    <3> HIDE DEF Eq
    <3> QED
      BY <2>1, <1>4
  <2> QED
    BY <2>2, <1>6 DEF Solves
<1> HIDE DEF Eq
<1>8. f \in [0..n -> S] /\ Runs(f, first, n, Body)
  BY <1>7, LoopSolved
<1>9. \A k \in 1..n : f[k - 1] \in S /\ f[k] = Iterate(k, f[k - 1])
  BY <1>6, <1>8 DEF Runs
<1> QED
  BY <1>1, <1>2, <1>3, <1>8, <1>9 DEF Iterate, Runs

\* A list of the services among the first n that have type t, in their order.
Lists(s, types, t, n) ==
  /\ \A j \in 1..Len(s) : s[j] \in 1..n /\ types[s[j]] = t
  /\ \A i \in 1..n : types[i] = t => \E j \in 1..Len(s) : s[j] = i
  /\ \A j, k \in 1..Len(s) : j < k => s[j] < s[k]

\* SortServices and OnlyHTTPS lose no service, invent none and keep their order.
LEMMA OnlyTypeLists ==
  ASSUME NEW types \in Seq(ServiceType), NEW t
  PROVE  /\ OnlyType(types, t) \in Seq(1..Len(types))
         /\ Lists(OnlyType(types, t), types, t, Len(types))
<1>1. PICK f : f = OfType(types, t)
  OBVIOUS
<1>2. PICK n \in Nat : n = Len(types)
  OBVIOUS
<1>3. PICK R : R = 1..n
  OBVIOUS
<1>4. /\ f \in [0..n -> Seq(R)] /\ f[0] = <<>>
      /\ \A k \in 1..n : f[k] = OfTypeStep(types, t, k, f[k - 1])
  BY <1>1, <1>2, <1>3, OfTypeLoop
<1> DEFINE P == {k \in 0..n : Lists(f[k], types, t, k)}
<1>5. 0 \in P
  BY <1>4 DEF Lists
<1>6. ASSUME NEW k \in 1..n, k - 1 \in P PROVE k \in P
  <2>1. PICK x \in Seq(R) : x = f[k - 1]
    BY <1>4
  <2>2. Lists(x, types, t, k - 1)
    BY <1>6, <2>1
  <2>3. f[k] = OfTypeStep(types, t, k, x)
    BY <1>4, <2>1
  <2>4. CASE types[k] = t
    <3>1. PICK y \in Seq(R) : y = Append(x, k)
      <4>1. k \in R
        BY <1>3
      <4>2. Append(x, k) \in Seq(R)
        BY <4>1
      <4> QED
        BY <4>2
    <3>2. /\ f[k] = y /\ Len(y) = Len(x) + 1 /\ y[Len(x) + 1] = k
          /\ \A j \in 1..Len(x) : y[j] = x[j]
      BY <2>3, <2>4, <3>1 DEF OfTypeStep
    <3>3. \A j \in 1..Len(y) : y[j] \in 1..k /\ types[y[j]] = t
      BY <2>2, <2>4, <3>2 DEF Lists
    <3>4. \A i \in 1..k : types[i] = t => \E j \in 1..Len(y) : y[j] = i
      <4>1. SUFFICES ASSUME NEW i \in 1..k, types[i] = t
                     PROVE  \E j \in 1..Len(y) : y[j] = i
        OBVIOUS
      <4>2. CASE i = k
        BY <3>2, <4>2
      <4>3. CASE i # k
        <5>1. PICK j \in 1..Len(x) : x[j] = i
          BY <2>2, <4>1, <4>3 DEF Lists
        <5> QED
          BY <3>2, <5>1
      <4> QED
        BY <4>2, <4>3
    <3>5. \A i, j \in 1..Len(y) : i < j => y[i] < y[j]
      <4>1. SUFFICES ASSUME NEW i \in 1..Len(y), NEW j \in 1..Len(y), i < j
                     PROVE  y[i] < y[j]
        OBVIOUS
      <4>2. i \in 1..Len(x) /\ y[i] = x[i] /\ x[i] \in 1..k - 1
        BY <2>2, <3>2, <4>1 DEF Lists
      <4>3. CASE j = Len(x) + 1
        BY <3>2, <4>2, <4>3
      <4>4. CASE j # Len(x) + 1
        <5>1. j \in 1..Len(x) /\ y[j] = x[j]
          BY <3>2, <4>4
        <5> QED
          BY <2>2, <4>1, <4>2, <5>1 DEF Lists
      <4> QED
        BY <4>3, <4>4
    <3>6. Lists(y, types, t, k)
      BY <3>3, <3>4, <3>5 DEF Lists
    <3> QED
      BY <3>2, <3>6
  <2>5. CASE types[k] # t
    <3>1. f[k] = x
      BY <2>3, <2>5 DEF OfTypeStep
    <3>2. Lists(x, types, t, k)
      BY <2>2, <2>5 DEF Lists
    <3> QED
      BY <3>1, <3>2
  <2> QED
    BY <2>4, <2>5
<1>7. n \in P
  <2> HIDE DEF P
  <2>1. 0..n \subseteq P
    BY <1>5, <1>6, LoopInduction
  <2> QED
    BY <2>1
<1> QED
  BY <1>1, <1>2, <1>3, <1>4, <1>7 DEF OnlyType

\* The best of the first k candidates follow from each other.
LEMMA BestOfLoop ==
  ASSUME NEW types, NEW res, NEW tried \in Seq(Nat), NEW f, f = BestOf(types, res, tried)
  PROVE  /\ f \in [0..Len(tried) -> Nat] /\ f[0] = 0
         /\ \A k \in 1..Len(tried) : f[k] = Better(types, res, f[k - 1], tried[k])
<1> DEFINE Iterate(k, x) == Better(types, res, x, tried[k])
<1>1. PICK n \in Nat : n = Len(tried)
  OBVIOUS
<1>2. PICK S : S = Nat
  OBVIOUS
<1>3. PICK first \in S : first = 0
  BY <1>2
<1> DEFINE Eq(h) == h = [k \in 0..n |-> IF k = 0 THEN first ELSE Iterate(k, h[k - 1])]
<1>4. f = CHOOSE h : Eq(h)
  BY <1>1, <1>3 DEF BestOf
<1>5. ASSUME NEW k \in 1..n, NEW x \in S PROVE Iterate(k, x) \in S
  BY <1>1, <1>2 DEF Better
<1> HIDE DEF Iterate
<1>6. PICK Body \in [1..n -> [S -> S]] : \A k \in 1..n, x \in S : Body[k][x] = Iterate(k, x)
  <2>1. [k \in 1..n |-> [x \in S |-> Iterate(k, x)]] \in [1..n -> [S -> S]]
    BY <1>5
  <2> QED
    BY <2>1
<1>7. ASSUME NEW g \in [0..n -> S], Runs(g, first, n, Body)
      PROVE  Solves(f, S, first, n, Body)
  <2>1. Eq(g)
    <3>1. \A k \in 1..n : g[k - 1] \in S
      OBVIOUS
    <3> QED
      BY <3>1, <1>6, <1>7 DEF Runs
  <2>2. Eq(f)
    <3> HIDE DEF Eq
    <3> QED
      BY <2>1, <1>4
  <2> QED
    BY <2>2, <1>6 DEF Solves
<1> HIDE DEF Eq
<1>8. f \in [0..n -> S] /\ Runs(f, first, n, Body)
  BY <1>7, LoopSolved
<1>9. \A k \in 1..n : f[k - 1] \in S /\ f[k] = Iterate(k, f[k - 1])
  BY <1>6, <1>8 DEF Runs
<1> QED
  BY <1>1, <1>2, <1>3, <1>8, <1>9 DEF Iterate, Runs

\* Candidate b is the fastest of the first k that work (0: none of them does).
Fastest(types, res, tried, k, b) ==
  /\ b = 0 => \A j \in 1..k : ~Works(types, res, tried[j])
  /\ b # 0 => /\ Works(types, res, b) /\ \E j \in 1..k : tried[j] = b
              /\ \A j \in 1..k : Works(types, res, tried[j]) => res[b] <= res[tried[j]]

\* The loop of SelectBest finds the fastest of the candidates that work.
LEMMA BestOfIsFastest ==
  ASSUME NEW types \in Seq(ServiceType), NEW res \in [1..Len(types) -> Nat],
         NEW tried \in Seq(1..Len(types))
  PROVE  /\ BestOf(types, res, tried)[Len(tried)] \in Nat
         /\ Fastest(types, res, tried, Len(tried), BestOf(types, res, tried)[Len(tried)])
<1>1. PICK f : f = BestOf(types, res, tried)
  OBVIOUS
<1>2. PICK n \in Nat, m \in Nat : n = Len(tried) /\ m = Len(types)
  OBVIOUS
<1>3. /\ \A k \in 1..n : tried[k] \in 1..m
      /\ \A i \in 1..m : res[i] \in Nat
  BY <1>2
<1>4. tried \in Seq(Nat)
  BY <1>2, <1>3
<1>5. /\ f \in [0..n -> Nat] /\ f[0] = 0
      /\ \A k \in 1..n : f[k] = Better(types, res, f[k - 1], tried[k])
  BY <1>1, <1>2, <1>4, BestOfLoop
<1> DEFINE P == {k \in 0..n : Fastest(types, res, tried, k, f[k])}
<1>6. 0 \in P
  BY <1>5 DEF Fastest
<1>7. ASSUME NEW k \in 1..n, k - 1 \in P PROVE k \in P
  <2>1. PICK a \in Nat, b \in Nat, i \in 1..m : a = f[k - 1] /\ b = f[k] /\ i = tried[k]
    <3>1. k - 1 \in 0..n /\ k \in 0..n
      OBVIOUS
    <3>2. f[k - 1] \in Nat /\ f[k] \in Nat
      BY <1>5, <3>1
    <3>3. tried[k] \in 1..m
      BY <1>3
    <3> QED
      BY <3>2, <3>3
  <2>2. Fastest(types, res, tried, k - 1, a)
    BY <1>7, <2>1
  <2>3. b = Better(types, res, a, i)
    BY <1>5, <2>1
  <2>4. Fastest(types, res, tried, k, b)
    <3>1. \A j \in 1..k : j \in 1..k - 1 \/ j = k
      OBVIOUS
    <3>2. \A j \in 1..k - 1 : j \in 1..k /\ j \in 1..n
      OBVIOUS
    <3>3. a # 0 => a \in 1..m
      BY <1>3, <2>2, <3>2 DEF Fastest
    <3>4. CASE ~Works(types, res, i)
      <4>1. b = a
        BY <2>3, <3>4 DEF Better
      <4> QED
        BY <2>1, <2>2, <3>1, <3>2, <3>4, <4>1 DEF Fastest
    <3>5. CASE Works(types, res, i) /\ a = 0
      <4>1. b = i /\ b # 0
        BY <2>3, <3>5 DEF Better
      <4>2. \A j \in 1..k : Works(types, res, tried[j]) => j = k
        BY <2>2, <3>1, <3>5 DEF Fastest
      <4>3. res[b] <= res[i]
        BY <1>3, <4>1
      <4> QED
        BY <2>1, <3>5, <4>1, <4>2, <4>3 DEF Fastest
    <3>6. CASE Works(types, res, i) /\ a # 0
      <4>1. res[a] \in Nat /\ res[i] \in Nat /\ (b = IF res[a] > res[i] THEN i ELSE a)
        BY <1>3, <2>3, <3>3, <3>6 DEF Better
      <4>2. b \in {a, i} /\ b # 0 /\ res[b] \in Nat /\ res[b] <= res[a] /\ res[b] <= res[i]
        BY <3>6, <4>1
      <4>3. Works(types, res, b)
        BY <2>2, <3>6, <4>2 DEF Fastest
      <4>4. \E j \in 1..k : tried[j] = b
        BY <2>1, <2>2, <3>2, <3>6, <4>2 DEF Fastest
      <4>5. ASSUME NEW j \in 1..k, Works(types, res, tried[j]) PROVE res[b] <= res[tried[j]]
        <5>1. CASE j = k
          BY <2>1, <4>2, <5>1
        <5>2. CASE j # k
          <6>1. j \in 1..k - 1 /\ j \in 1..n
            BY <5>2
          <6>2. res[a] <= res[tried[j]] /\ res[tried[j]] \in Nat
            BY <1>3, <2>2, <3>6, <4>5, <6>1 DEF Fastest
          <6> QED
            BY <4>1, <4>2, <6>2
        <5> QED
          BY <5>1, <5>2
      <4> QED
        BY <4>2, <4>3, <4>4, <4>5 DEF Fastest
    <3> QED
      BY <3>4, <3>5, <3>6
  <2> QED
    BY <2>1, <2>4
<1>8. n \in P
  <2> HIDE DEF P
  <2>1. 0..n \subseteq P
    BY <1>6, <1>7, LoopInduction
  <2> QED
    BY <2>1
<1> QED
  BY <1>1, <1>2, <1>5, <1>8

\* Numbers that are not none have a least one.
LEMMA LeastNumber ==
  ASSUME NEW T, T \subseteq Nat, T # {} PROVE \E x \in T : \A y \in T : x <= y
<1>1. PICK x \in T : \A y \in T : ~(<<y, x>> \in OpToRel(<, Nat))
  BY WFMin, NatLessThanWellFounded
<1>2. ASSUME NEW y \in T PROVE x <= y
  <2>1. SUFFICES ASSUME y < x PROVE FALSE
    OBVIOUS
  <2>2. <<y, x>> \in OpToRel(<, Nat)
    BY <2>1 DEF OpToRel
  <2> QED
    BY <1>1, <2>2
<1> QED
  BY <1>2

\* The candidates of TryAll when an https service works: all the https services.
LEMMA TryAllHTTPS ==
  ASSUME NEW types \in Seq(ServiceType), NEW res,
         \E i \in 1..Len(types) : types[i] = "https" /\ Works(types, res, i)
  PROVE  /\ TryAll(types, res) \in Seq(1..Len(types))
         /\ Lists(TryAll(types, res), types, "https", Len(types))
<1>1. PICK h : h = OnlyType(types, "https")
  OBVIOUS
<1>2. h \in Seq(1..Len(types)) /\ Lists(h, types, "https", Len(types))
  BY <1>1, OnlyTypeLists
<1>3. \E k \in DOMAIN h : Works(types, res, h[k])
  <2>1. PICK i \in 1..Len(types) : types[i] = "https" /\ Works(types, res, i)
    OBVIOUS
  <2>2. PICK k \in 1..Len(h) : h[k] = i
    BY <1>2, <2>1 DEF Lists
  <2>3. DOMAIN h = 1..Len(h)
    BY <1>2
  <2> QED
    BY <2>1, <2>2, <2>3
<1>4. TryAll(types, res) = h
  BY <1>1, <1>3 DEF TryAll, OnlyHTTPS
<1> QED
  BY <1>2, <1>4

\* Its candidates otherwise: only one of them can work, the first fallback that does.
LEMMA TryAllFallbacks ==
  ASSUME NEW types \in Seq(ServiceType), NEW res,
         ~\E i \in 1..Len(types) : types[i] = "https" /\ Works(types, res, i)
  PROVE  /\ TryAll(types, res) \in Seq(1..Len(types))
         /\ \A j \in 1..Len(TryAll(types, res)), i \in 1..Len(types) :
              Works(types, res, TryAll(types, res)[j]) /\ Works(types, res, i) =>
                types[i] # "https" /\ TryAll(types, res)[j] <= i
<1>1. PICK h, c, o : /\ h = OnlyType(types, "https") /\ c = OnlyType(types, "cloudfront")
                     /\ o = OnlyType(types, "onion")
  OBVIOUS
<1>2. PICK n \in Nat : n = Len(types)
  OBVIOUS
<1>3. PICK R : R = 1..n
  OBVIOUS
<1>4. /\ h \in Seq(R) /\ Lists(h, types, "https", n)
      /\ c \in Seq(R) /\ Lists(c, types, "cloudfront", n)
      /\ o \in Seq(R) /\ Lists(o, types, "onion", n)
  BY <1>1, <1>2, <1>3, OnlyTypeLists
<1>5. PICK others \in Seq(R) : others = c \o o
  <2>1. c \o o \in Seq(R)
    BY <1>4
  <2> QED
    BY <2>1
<1>6. PICK good : good = {k \in DOMAIN others : Works(types, res, others[k])}
  OBVIOUS
<1>7. PICK last : last = IF good = {} THEN Len(others)
                         ELSE CHOOSE k \in good : \A j \in good : k <= j
  OBVIOUS
<1>8. ~\E k \in DOMAIN h : Works(types, res, h[k])
  BY <1>2, <1>4 DEF Lists
<1>9. TryAll(types, res) = h \o SubSeq(others, 1, last)
  <2> DEFINE H == OnlyHTTPS(types)
             O == OnlyFallbacks(types)
             G == {k \in DOMAIN O : Works(types, res, O[k])}
             L == IF G = {} THEN Len(O) ELSE CHOOSE k \in G : \A j \in G : k <= j
  <2>1. TryAll(types, res) = IF \E k \in DOMAIN H : Works(types, res, H[k])
                               THEN H ELSE H \o SubSeq(O, 1, L)
    BY DEF TryAll
  <2>2. H = h /\ O = others
    BY <1>1, <1>5 DEF OnlyHTTPS, OnlyFallbacks
  <2> HIDE DEF H, O
  <2>3. G = good
    BY <1>6, <2>2
  <2> HIDE DEF G
  <2>4. L = last
    BY <1>7, <2>2, <2>3
  <2> HIDE DEF L
  <2> QED
    BY <1>8, <2>1, <2>2, <2>4
<1>10. /\ Len(others) \in Nat /\ DOMAIN others = 1..Len(others)
       /\ Len(h) \in Nat /\ DOMAIN h = 1..Len(h) /\ Len(c) \in Nat /\ DOMAIN c = 1..Len(c)
  BY <1>4
<1>11. good \subseteq 1..Len(others)
  BY <1>6, <1>10
<1>12. last \in 0..Len(others) /\ \A j \in good : last <= j
  <2>1. CASE good = {}
    BY <1>7, <1>10, <2>1
  <2>2. CASE good # {}
    <3>1. good \subseteq Nat
      BY <1>11, <1>10
    <3>2. \E k \in good : \A j \in good : k <= j
      BY <2>2, <3>1, LeastNumber
    <3>3. last = CHOOSE k \in good : \A j \in good : k <= j
      BY <1>7, <2>2
    <3>4. last \in good /\ \A j \in good : last <= j
      BY <3>2, <3>3
    <3> QED
      BY <1>10, <1>11, <3>4
  <2> QED
    BY <2>1, <2>2
<1>13. PICK q \in Seq(R) : /\ q = SubSeq(others, 1, last) /\ Len(q) = last
                           /\ \A k \in 1..last : q[k] = others[k]
  <2>1. /\ SubSeq(others, 1, last) \in Seq(R)
        /\ Len(SubSeq(others, 1, last)) = last
        /\ \A k \in 1..last : SubSeq(others, 1, last)[k] = others[k]
    BY <1>10, <1>12
  <2> QED
    BY <2>1
<1>14. PICK tried \in Seq(R) : /\ tried = h \o q /\ Len(tried) = Len(h) + last
                               /\ \A k \in 1..Len(h) : tried[k] = h[k]
                               /\ \A k \in 1..last : tried[Len(h) + k] = q[k]
  <2>1. /\ h \o q \in Seq(R) /\ Len(h \o q) = Len(h) + Len(q)
        /\ \A k \in 1..Len(h) : (h \o q)[k] = h[k]
        /\ \A k \in 1..Len(q) : (h \o q)[Len(h) + k] = q[k]
    BY <1>4, <1>10
  <2>2. Len(q) = last
    BY <1>13
  <2> QED
    BY <2>1, <2>2
<1>15. ASSUME NEW j \in 1..Len(tried), NEW i \in 1..n,
              Works(types, res, tried[j]), Works(types, res, i)
       PROVE  types[i] # "https" /\ tried[j] <= i
  <2>1. types[i] = "cloudfront"
    <3>1. types[i] \in ServiceType
      BY <1>2
    <3> QED
      BY <1>2, <1>15, <3>1 DEF ServiceType, Works
  <2>2. PICK p \in 1..Len(c) : c[p] = i
    BY <1>4, <2>1 DEF Lists
  <2>3. p \in 1..Len(others) /\ others[p] = i
    BY <1>4, <1>5, <1>10, <2>2
  <2>4. p \in good
    BY <1>6, <1>10, <1>15, <2>3
  <2>5. last <= p
    BY <1>12, <2>4
  <2>6. j \notin 1..Len(h)
    BY <1>8, <1>10, <1>14, <1>15
  <2>7. PICK k \in 1..last : j = Len(h) + k
    <3>1. j - Len(h) \in 1..last
      BY <1>10, <1>12, <1>14, <2>6
    <3> QED
      BY <1>10, <3>1
  <2>8. tried[j] = others[k] /\ k \in 1..Len(others)
    BY <1>12, <1>13, <1>14, <2>7
  <2>9. k \in good
    BY <1>6, <1>10, <1>15, <2>8
  <2>10. k = last /\ k \in 1..Len(c) /\ k <= p
    BY <1>10, <1>12, <2>5, <2>7, <2>9
  <2>11. others[k] = c[k]
    BY <1>4, <1>5, <1>10, <2>10
  <2>12. c[k] <= c[p]
    <3>1. c[k] \in Nat /\ c[p] \in Nat
      BY <1>4, <2>10 DEF Lists
    <3>2. k < p => c[k] < c[p]
      BY <1>4, <2>10 DEF Lists
    <3> QED
      BY <2>10, <3>1, <3>2
  <2> QED
    BY <2>1, <2>2, <2>8, <2>11, <2>12
<1>16. TryAll(types, res) = tried
  BY <1>9, <1>13, <1>14
<1> QED
  BY <1>2, <1>3, <1>15, <1>16

\* What is selected is the best there is.
LEMMA SelectBestIsBest ==
  ASSUME NEW types \in Seq(ServiceType), NEW res \in [1..Len(types) -> Nat]
  PROVE  /\ SelectBest(types, res) \in 0..Len(types)
         /\ SelectBest(types, res) # 0 => IsBest(types, res, SelectBest(types, res))
<1>1. PICK tried : tried = TryAll(types, res)
  OBVIOUS
<1>2. PICK n \in Nat : n = Len(types)
  OBVIOUS
<1>3. tried \in Seq(1..Len(types))
  BY <1>1, TryAllHTTPS, TryAllFallbacks
<1>4. PICK b : b = SelectBest(types, res)
  OBVIOUS
<1>5. b \in Nat /\ Fastest(types, res, tried, Len(tried), b)
  <2>1. b = BestOf(types, res, tried)[Len(tried)]
    BY <1>1, <1>4 DEF SelectBest
  <2> QED
    BY <1>3, <2>1, BestOfIsFastest
<1>6. SUFFICES ASSUME b # 0 PROVE b \in 1..n /\ IsBest(types, res, b)
  BY <1>2, <1>4
<1>7. /\ Works(types, res, b)
      /\ \A j \in 1..Len(tried) : Works(types, res, tried[j]) => res[b] <= res[tried[j]]
  BY <1>5, <1>6 DEF Fastest
<1>8. PICK j \in 1..Len(tried) : tried[j] = b
  BY <1>5, <1>6 DEF Fastest
<1>9. b \in 1..n
  BY <1>2, <1>3, <1>8
<1>10. CASE \E i \in 1..Len(types) : types[i] = "https" /\ Works(types, res, i)
  <2>1. Lists(tried, types, "https", n)
    BY <1>1, <1>2, <1>10, TryAllHTTPS
  <2>2. types[b] = "https"
    BY <1>8, <2>1 DEF Lists
  <2>3. \A i \in 1..n : types[i] = "https" /\ Works(types, res, i) => res[b] <= res[i]
    BY <1>7, <2>1 DEF Lists
  <2>4. DOMAIN types = 1..n
    BY <1>2
  <2> QED
    BY <1>7, <1>9, <2>2, <2>3, <2>4 DEF IsBest
<1>11. CASE ~\E i \in 1..Len(types) : types[i] = "https" /\ Works(types, res, i)
  <2>1. types[b] # "https"
    BY <1>2, <1>7, <1>9, <1>11
  <2>2. \A i \in 1..n : Works(types, res, i) => types[i] # "https" /\ b <= i
    BY <1>1, <1>2, <1>7, <1>8, <1>11, TryAllFallbacks
  <2>3. DOMAIN types = 1..n
    BY <1>2
  <2> QED
    BY <1>7, <1>9, <2>1, <2>2, <2>3 DEF IsBest
<1> QED
  BY <1>10, <1>11

-----------------------------------------------------------------------------
\* A copy of the state that some server could have filled in: the account exists
\* and has this password, and the token is one of this account.
Consistent(s, accs, toks) ==
  /\ s.id # None => s.id \in DOMAIN accs /\ accs[s.id] = s.password
  /\ s.id = None <=> s.password = None
  /\ s.token # None => s.token \in DOMAIN toks /\ toks[s.token] = s.id

\* The file and every caller's copy of it are consistent, although the copies are
\* of different times.
Copies ==
  /\ Consistent(stateFile, accounts, tokens)
  /\ \A c \in Callers : Consistent(state[c], accounts, tokens)

\* The part of TypeOK about the callers, the state file and the server.
Types ==
  /\ op \in [Callers -> Operations \cup {None}]
  /\ step \in [Callers -> Nat]
  /\ \A c \in Callers : op[c] # None => step[c] \in 1 .. Len(Steps[op[c]])
  /\ \A c \in Callers : pc[c] = "idle" => step[c] = 1
  /\ pc \in [Callers -> {"idle", "enter", "locked", "asked", "write", "done", "error",
                         "not_logged_in"}]
  /\ state \in [Callers -> StateType] /\ stateFile \in StateType
  /\ accounts \in Seq(Nat) /\ tokens \in Seq(DOMAIN accounts)
  /\ expired \subseteq DOMAIN tokens
  /\ undone \subseteq Callers

\* Where a caller is says what is in its copy.
Progress ==
  \A c \in Callers :
    /\ pc[c] # "idle" => op[c] # None
    /\ pc[c] \in {"asked", "write"} => Step(c) \in {"register", "login"}
    /\ pc[c] = "asked" /\ Step(c) = "register" => ~Credentials(state[c])
    /\ pc[c] = "asked" /\ Step(c) = "login" => Credentials(state[c])
    /\ pc[c] = "write" => Credentials(state[c])

\* A caller that nobody disturbed since it began to log in has a token that is
\* valid: first in its copy, then in the file.
Undisturbed ==
  \A c \in Callers \ undone :
    /\ pc[c] = "write" /\ Step(c) = "login" =>
         state[c].token # None /\ state[c].token \notin expired
    /\ Enters(c, "fetch") => LoggedIn
    /\ pc[c] # "not_logged_in"

IInv == Types /\ Copies /\ Progress /\ Undisturbed

\* An account without credentials has no token.
LEMMA NoCredentialsNoToken ==
  ASSUME NEW s \in StateType, NEW accs \in Seq(Nat), NEW toks \in Seq(DOMAIN accs),
         Consistent(s, accs, toks)
  PROVE  /\ Credentials(s) <=> s.id # None
         /\ ~Credentials(s) => s = NoState
         /\ s.token # None => Credentials(s)
<1>1. Credentials(s) <=> s.id # None
  BY DEF Consistent, Credentials
<1>2. s.token # None => s.id # None
  BY SessionAssumption DEF Consistent
<1> QED
  BY <1>1, <1>2 DEF Consistent, StateType, NoState

\* What the model checker calls StateIsOneAccount.
LEMMA ConsistentFile ==
  ASSUME IInv PROVE StateIsOneAccount /\ LoggedInUnlessUndone
  BY DEF IInv, Copies, Consistent, Undisturbed, StateIsOneAccount, LoggedInUnlessUndone,
         Credentials

\* A process that starts with what an earlier one left behind.
LEMMA InitIInv == Init => IInv
<1> SUFFICES ASSUME Init PROVE IInv
  OBVIOUS
<1> USE SessionAssumption DEF Init
<1>1. \/ stateFile = NoState /\ accounts = <<>> /\ tokens = <<>> /\ expired = {}
      \/ /\ stateFile = [id |-> 1, password |-> 1, token |-> None]
         /\ accounts = <<1>> /\ tokens = <<>> /\ expired = {}
      \/ /\ stateFile = [id |-> 1, password |-> 1, token |-> 1]
         /\ accounts = <<1>> /\ tokens = <<1>> /\ expired \in {{}, {1}}
  <2>1. PICK files \in LeftBehind :
          /\ stateFile = files[1] /\ accounts = files[2]
          /\ tokens = files[3] /\ expired = files[4]
    OBVIOUS
  <2> QED
    BY <2>1 DEF LeftBehind
<1>2. /\ stateFile \in StateType /\ accounts \in Seq(Nat) /\ tokens \in Seq(DOMAIN accounts)
      /\ expired \subseteq DOMAIN tokens
      /\ Consistent(stateFile, accounts, tokens)
  <2>1. CASE accounts = <<>> /\ tokens = <<>> /\ stateFile = NoState /\ expired = {}
    BY <2>1 DEF StateType, NoState, Consistent
  <2>2. CASE /\ accounts = <<1>> /\ tokens = <<>> /\ expired = {}
             /\ stateFile = [id |-> 1, password |-> 1, token |-> None]
    BY <2>2 DEF StateType, Consistent
  <2>3. CASE /\ accounts = <<1>> /\ tokens = <<1>> /\ expired \in {{}, {1}}
             /\ stateFile = [id |-> 1, password |-> 1, token |-> 1]
    <3>1. DOMAIN accounts = {1} /\ DOMAIN tokens = {1} /\ accounts[1] = 1 /\ tokens[1] = 1
      BY <2>3
    <3>2. accounts \in Seq(Nat) /\ tokens \in Seq({1})
      BY <2>3
    <3> QED
      BY <2>3, <3>1, <3>2 DEF StateType, Consistent
  <2> QED
    BY <1>1, <2>1, <2>2, <2>3
<1>3. Types
  <2>1. \A c \in Callers : op[c] = None
    BY DEF Nobody
  <2>3. /\ op \in [Callers -> Operations \cup {None}]
        /\ state \in [Callers -> StateType]
    BY DEF Nobody, StateType, NoState
  <2> QED
    BY <1>2, <2>1, <2>3 DEF Types
<1>4. Copies
  BY <1>2 DEF Copies, Consistent, NoState
<1>5. Progress
  BY DEF Progress
<1>6. Undisturbed
  BY DEF Undisturbed, Enters
<1> QED
  BY <1>3, <1>4, <1>5, <1>6 DEF IInv

-----------------------------------------------------------------------------
\* Every operation has a first step, which is not a request.
LEMMA StepsOf ==
  ASSUME NEW o \in DOMAIN Steps
  PROVE  Len(Steps[o]) \in Nat /\ 1 \in 1 .. Len(Steps[o]) /\ Steps[o][1] # "fetch"
<1>1. CASE o = "tor"
  BY <1>1 DEF Steps
<1>2. CASE o = "vpn"
  BY <1>2 DEF Steps
<1>3. CASE o = "checkin"
  BY <1>3 DEF Steps
<1> QED
  BY <1>1, <1>2, <1>3 DEF Steps

\* In every operation, the step before a request that needs a token is the login.
LEMMA LoginBeforeFetch ==
  ASSUME NEW o \in Operations, NEW i \in Nat, i \in 1 .. Len(Steps[o]), i < Len(Steps[o]),
         Steps[o][i + 1] = "fetch"
  PROVE  Steps[o][i] = "login"
<1>1. CASE o = "tor"
  BY <1>1 DEF Steps
<1>2. CASE o = "vpn"
  BY <1>2 DEF Steps
<1>3. CASE o = "checkin"
  BY <1>3 DEF Steps
<1> QED
  BY <1>1, <1>2, <1>3, SessionAssumption DEF Steps

\* Accounts and tokens that the server adds leave every copy consistent.
LEMMA ServerGrows ==
  ASSUME NEW accs \in Seq(Nat), NEW toks \in Seq(DOMAIN accs), NEW s \in StateType,
         Consistent(s, accs, toks)
  PROVE  /\ \A n \in Nat : Consistent(s, Append(accs, n), toks)
         /\ \A a \in DOMAIN accs : Consistent(s, accs, Append(toks, a))
<1>1. ASSUME NEW T, NEW q \in Seq(T), NEW x \in T, NEW i \in DOMAIN q
      PROVE  i \in DOMAIN Append(q, x) /\ Append(q, x)[i] = q[i]
  OBVIOUS
<1>2. ASSUME NEW n \in Nat PROVE Consistent(s, Append(accs, n), toks)
  BY <1>1 DEF Consistent
<1>3. ASSUME NEW a \in DOMAIN accs PROVE Consistent(s, accs, Append(toks, a))
  <2>1. \A i \in DOMAIN toks : i \in DOMAIN Append(toks, a) /\ Append(toks, a)[i] = toks[i]
    BY <1>1
  <2> QED
    BY <2>1 DEF Consistent
<1> QED
  BY <1>2, <1>3

\* The rest of a caller's step: where it goes, and that it stays within its operation.
LEMMA AdvanceGoesOn ==
  ASSUME Types, NEW c \in Callers, op[c] # None, Advance(c), UNCHANGED op
  PROVE  /\ step' \in [Callers -> Nat] /\ step'[c] \in 1 .. Len(Steps[op[c]])
         /\ \A d \in Callers \ {c} : step'[d] = step[d] /\ pc'[d] = pc[d]
         /\ pc' \in [Callers -> {"idle", "enter", "locked", "asked", "write", "done", "error",
                                "not_logged_in"}]
         /\ pc'[c] \in {"enter", "done"}
         /\ Enters(c, "fetch")' => Step(c) = "login"
<1>1. op[c] \in Operations /\ step[c] \in 1 .. Len(Steps[op[c]]) /\ step[c] \in Nat
  BY DEF Types
<1>2. Len(Steps[op[c]]) \in Nat
  BY <1>1, StepsOf, SessionAssumption
<1>3. CASE step[c] < Len(Steps[op[c]])
  <2>1. /\ pc' = [pc EXCEPT ![c] = "enter"] /\ step' = [step EXCEPT ![c] = step[c] + 1]
    BY <1>3 DEF Advance
  <2>2. step'[c] = step[c] + 1
    BY <2>1 DEF Types
  <2>3. Enters(c, "fetch")' => Steps[op[c]][step[c] + 1] = "fetch"
    BY <2>2 DEF Enters, Step
  <2> QED
    BY <1>1, <1>2, <1>3, <2>1, <2>2, <2>3, LoginBeforeFetch DEF Types, Step
<1>4. CASE ~(step[c] < Len(Steps[op[c]]))
  <2>1. pc' = [pc EXCEPT ![c] = "done"] /\ step' = step
    BY <1>4 DEF Advance
  <2> QED
    BY <1>1, <2>1 DEF Types, Enters
<1> QED
  BY <1>3, <1>4

\* The steps that neither read into a copy nor write: they keep the invariant if the
\* caller advances from a step other than the login, or ends where it may end.
LEMMA QuietSteps ==
  ASSUME IInv, NEW c \in Callers, pc[c] # "idle",
         UNCHANGED <<op, state, stateFile, accounts, tokens, expired, undone>>,
         \/ Advance(c) /\ Step(c) # "login"
         \/ GoTo(c, "locked") \/ GoTo(c, "error")
         \/ GoTo(c, "not_logged_in") /\ c \in undone
  PROVE  IInv'
<1> USE DEF IInv
<1>1. op[c] # None /\ op[c] \in Operations
  BY DEF Progress, Types
<1>2. /\ step' \in [Callers -> Nat] /\ step'[c] \in 1 .. Len(Steps[op[c]])
      /\ \A d \in Callers \ {c} : step'[d] = step[d] /\ pc'[d] = pc[d]
      /\ pc' \in [Callers -> {"idle", "enter", "locked", "asked", "write", "done", "error",
                             "not_logged_in"}]
      /\ pc'[c] \in {"enter", "done", "locked", "error", "not_logged_in"}
      /\ Enters(c, "fetch")' => LoggedIn \/ c \in undone
      /\ pc'[c] = "not_logged_in" => c \in undone
  <2>1. CASE Advance(c) /\ Step(c) # "login"
    BY <1>1, <2>1, AdvanceGoesOn
  <2>2. CASE GoTo(c, "locked") \/ GoTo(c, "error") \/ (GoTo(c, "not_logged_in") /\ c \in undone)
    BY <1>1, <2>2 DEF GoTo, Types, Enters
  <2> QED
    BY <2>1, <2>2
<1>3. Types'
  BY <1>1, <1>2 DEF Types
<1>4. Copies'
  BY DEF Copies
<1>5. Progress'
  BY <1>1, <1>2 DEF Progress, Step, Credentials
<1>6. Undisturbed'
  BY <1>2 DEF Undisturbed, Step, Enters, LoggedIn, Credentials, Auth
<1> QED
  BY <1>3, <1>4, <1>5, <1>6

\* The lookups, and the requests of the operations that need no token.
LEMMA LookupsKeepIInv ==
  ASSUME IInv, NEW c \in Callers, Lookups(c) PROVE IInv'
<1> USE DEF server, memory
<1>1. CASE Lock(c)
  BY <1>1, QuietSteps DEF Lock
<1>2. CASE AlreadySelected(c)
  BY <1>2, QuietSteps DEF AlreadySelected, Locked
<1>3. CASE LookupBackends(c)
  BY <1>3, QuietSteps DEF LookupBackends, Locked
<1>4. CASE AllServicesFailed(c)
  BY <1>4, QuietSteps DEF AllServicesFailed, Locked, Fails
<1>5. CASE LookupLocation(c)
  BY <1>5, QuietSteps DEF LookupLocation, Locked
<1>6. CASE LookupLocationFails(c)
  BY <1>6, QuietSteps DEF LookupLocationFails, Locked, Fails
<1>7. CASE ReadLocation(c)
  BY <1>7, QuietSteps DEF ReadLocation, Locked
<1> QED
  BY <1>1, <1>2, <1>3, <1>4, <1>5, <1>6, <1>7 DEF Lookups

\* A caller begins to register or to log in: it reads the file into its copy, or
\* finds that the file already has what it needs.
LEMMA ReadKeepsIInv ==
  ASSUME IInv, NEW c \in Callers,
         AlreadyLoggedIn(c) \/ ReadForRegister(c) \/ ReadForLogin(c)
  PROVE  IInv'
<1> USE DEF IInv, server, memory
<1>1. op[c] # None /\ op[c] \in Operations /\ pc[c] = "enter"
  BY DEF Progress, Types, AlreadyLoggedIn, ReadForRegister, ReadForLogin, Enters
<1>2. CASE AlreadyLoggedIn(c)
  <2>1. LoggedIn
    BY <1>2, NoCredentialsNoToken DEF AlreadyLoggedIn, LoggedIn, Auth, Types, Copies
  <2>2. /\ step' \in [Callers -> Nat] /\ step'[c] \in 1 .. Len(Steps[op[c]])
        /\ \A d \in Callers \ {c} : step'[d] = step[d] /\ pc'[d] = pc[d]
        /\ pc' \in [Callers -> {"idle", "enter", "locked", "asked", "write", "done", "error",
                               "not_logged_in"}]
        /\ pc'[c] \in {"enter", "done"}
    BY <1>1, <1>2, AdvanceGoesOn DEF AlreadyLoggedIn
  <2>3. /\ UNCHANGED <<op, state, stateFile, accounts, tokens, expired>>
        /\ undone' = undone \ {c}
    BY <1>2 DEF AlreadyLoggedIn
  <2>4. Types'
    BY <1>1, <2>2, <2>3 DEF Types
  <2>5. Copies'
    BY <2>3 DEF Copies
  <2>6. Progress'
    BY <1>1, <2>2, <2>3 DEF Progress, Step, Credentials
  <2>7. Undisturbed'
    BY <2>1, <2>2, <2>3 DEF Undisturbed, Step, Enters, LoggedIn, Credentials, Auth
  <2> QED
    BY <2>4, <2>5, <2>6, <2>7
<1>3. CASE ReadForRegister(c) \/ ReadForLogin(c)
  <2>1. PICK s \in StateType :
          /\ state' = [state EXCEPT ![c] = s] /\ Consistent(s, accounts, tokens)
          /\ Step(c) = "register" => ~Credentials(s)
          /\ Step(c) = "login" => Credentials(s)
          /\ Step(c) \in {"register", "login"}
    <3>1. CASE ReadForRegister(c)
      <4>1. NoState \in StateType /\ Consistent(NoState, accounts, tokens)
        BY DEF NoState, StateType, Consistent
      <4> QED
        BY <3>1, <4>1 DEF ReadForRegister, Enters, Types, Copies
    <3>2. CASE ReadForLogin(c)
      BY <3>2 DEF ReadForLogin, Enters, Types, Copies
    <3> QED
      BY <1>3, <3>1, <3>2
  <2>2. /\ UNCHANGED <<op, step, stateFile, accounts, tokens, expired>>
        /\ undone' \in {undone, undone \ {c}} /\ pc' = [pc EXCEPT ![c] = "asked"]
    BY <1>3 DEF ReadForRegister, ReadForLogin, GoTo
  <2>3. Types'
    BY <1>1, <2>1, <2>2 DEF Types
  <2>4. Copies'
    BY <2>1, <2>2 DEF Copies, Types
  <2>5. Progress'
    BY <1>1, <2>1, <2>2 DEF Progress, Step, Credentials, Types
  <2>6. Undisturbed'
    BY <2>1, <2>2 DEF Undisturbed, Step, Enters, LoggedIn, Credentials, Auth, Types
  <2> QED
    BY <2>3, <2>4, <2>5, <2>6
<1> QED
  BY <1>2, <1>3

\* The caller that registers or logs in gives up: its copy goes with it.
LEMMA GiveUpKeepsIInv ==
  ASSUME IInv, NEW c \in Callers, RegisterFails(c) \/ LoginFails(c) \/ WriteFails(c)
  PROVE  IInv'
<1> USE DEF IInv, server, memory
<1>1. /\ UNCHANGED <<op, step, stateFile, accounts, tokens, expired, undone>>
      /\ pc' = [pc EXCEPT ![c] = "error"] /\ state' = [state EXCEPT ![c] = NoState]
      /\ pc[c] # "idle"
  BY DEF RegisterFails, LoginFails, WriteFails, Fails, GoTo, Asked
<1>2. NoState \in StateType /\ Consistent(NoState, accounts, tokens)
  BY DEF NoState, StateType, Consistent
<1>3. Types'
  BY <1>1, <1>2 DEF Types
<1>4. Copies'
  BY <1>1, <1>2 DEF Copies, Types
<1>5. Progress'
  BY <1>1 DEF Progress, Step, Credentials, Types
<1>6. Undisturbed'
  BY <1>1 DEF Undisturbed, Step, Enters, LoggedIn, Credentials, Auth, Types
<1> QED
  BY <1>3, <1>4, <1>5, <1>6

\* The server creates an account.  The caller had no credentials, so that its copy
\* has no token of another account.
LEMMA RegisterKeepsIInv ==
  ASSUME IInv, NEW c \in Callers, Register(c) PROVE IInv'
<1> USE DEF IInv, server, memory
<1> DEFINE n == Len(accounts) + 1
           s == [id |-> n, password |-> n, token |-> None]
<1>1. state[c] = NoState /\ pc[c] = "asked" /\ Step(c) = "register"
  BY NoCredentialsNoToken DEF Register, Asked, Progress, Types, Copies
<1>2. /\ UNCHANGED <<op, step, stateFile, tokens, expired, undone>>
      /\ accounts' = Append(accounts, n) /\ pc' = [pc EXCEPT ![c] = "write"]
      /\ n \in Nat /\ Len(accounts') = n /\ DOMAIN accounts' = 1 .. n
      /\ DOMAIN accounts \subseteq DOMAIN accounts'
  BY DEF Register, GoTo, Types
<1>3. state' = [state EXCEPT ![c] = s]
  <2>1. state' = [state EXCEPT ![c].id = n, ![c].password = n] /\ state \in [Callers -> StateType]
    BY <1>2 DEF Register, Types
  <2>2. \A d \in Callers : d # c => state'[d] = state[d]
    BY <2>1
  <2>3. state'[c] = [[state[c] EXCEPT !.id = n] EXCEPT !.password = n]
    BY <2>1
  <2>4. state'[c] = s
    <3>1. [state[c] EXCEPT !.id = n] = [id |-> n, password |-> None, token |-> None]
      BY <1>1 DEF NoState
    <3>2. [[id |-> n, password |-> None, token |-> None] EXCEPT !.password = n] = s
      OBVIOUS
    <3> QED
      BY <2>3, <3>1, <3>2
  <2> QED
    BY <2>1, <2>2, <2>4
<1>4. s \in StateType /\ s = [id |-> n, password |-> n, token |-> None]
  BY <1>2 DEF StateType
<1>5. accounts'[n] = n
  BY <1>2 DEF Types
<1>6. Consistent(s, accounts', tokens)
  BY <1>2, <1>4, <1>5, SessionAssumption DEF Consistent
<1>7. Credentials(s)
  BY <1>2, SessionAssumption DEF Credentials
<1> HIDE DEF s
<1>8. \A r \in StateType :
        Consistent(r, accounts, tokens) => Consistent(r, accounts', tokens')
  BY <1>2, ServerGrows DEF Types
<1>9. Types'
  <2>1. accounts' \in Seq(Nat)
    BY <1>2 DEF Types
  <2>2. tokens' \in Seq(DOMAIN accounts')
    BY <1>2 DEF Types
  <2> QED
    BY <1>1, <1>2, <1>3, <1>4, <2>1, <2>2 DEF Types
<1>10. Copies'
  BY <1>2, <1>3, <1>4, <1>6, <1>8 DEF Copies, Types
<1>11. Progress'
  BY <1>1, <1>2, <1>3, <1>7 DEF Progress, Step, Credentials, Types
<1>12. Undisturbed'
  BY <1>1, <1>2, <1>3 DEF Undisturbed, Step, Enters, LoggedIn, Credentials, Auth, Types
<1> QED
  BY <1>9, <1>10, <1>11, <1>12

\* The server issues a token, which is new and therefore has not expired.
LEMMA LoginKeepsIInv ==
  ASSUME IInv, NEW c \in Callers, Login(c) PROVE IInv'
<1> USE DEF IInv, server, memory
<1> DEFINE n == Len(tokens) + 1
           s == [state[c] EXCEPT !.token = n]
<1>1. /\ Credentials(state[c]) /\ pc[c] = "asked" /\ Step(c) = "login"
      /\ state[c] \in StateType /\ Consistent(state[c], accounts, tokens)
      /\ tokens \in Seq(DOMAIN accounts) /\ accounts \in Seq(Nat)
  BY DEF Login, Asked, Progress, Types, Copies
<1>2. state[c].id \in DOMAIN accounts
  BY <1>1 DEF Consistent, Credentials
<1>3. /\ UNCHANGED <<op, step, stateFile, accounts, expired, undone>>
      /\ tokens' = Append(tokens, state[c].id) /\ pc' = [pc EXCEPT ![c] = "write"]
      /\ n \in Nat /\ Len(tokens') = n /\ DOMAIN tokens' = 1 .. n
      /\ tokens' \in Seq(DOMAIN accounts) /\ tokens'[n] = state[c].id
      /\ DOMAIN tokens \subseteq DOMAIN tokens' /\ n \notin DOMAIN tokens
  <2>1. /\ UNCHANGED <<op, step, stateFile, accounts, expired, undone>>
        /\ tokens' = Append(tokens, state[c].id) /\ pc' = [pc EXCEPT ![c] = "write"]
    BY DEF Login, GoTo
  <2>2. ASSUME NEW T, NEW q \in Seq(T), NEW x \in T
        PROVE  /\ Append(q, x) \in Seq(T) /\ Len(q) + 1 \in Nat
               /\ Len(Append(q, x)) = Len(q) + 1 /\ DOMAIN Append(q, x) = 1 .. Len(q) + 1
               /\ Append(q, x)[Len(q) + 1] = x
               /\ DOMAIN q \subseteq DOMAIN Append(q, x) /\ Len(q) + 1 \notin DOMAIN q
    OBVIOUS
  <2> QED
    BY <1>1, <1>2, <2>1, <2>2
<1>4. state' = [state EXCEPT ![c] = s]
  BY <1>3 DEF Login
<1>5. s \in StateType /\ s.id = state[c].id /\ s.password = state[c].password /\ s.token = n
  BY <1>1, <1>3 DEF StateType
<1> HIDE DEF s
<1>6. Consistent(s, accounts, tokens') /\ Credentials(s)
  BY <1>1, <1>3, <1>5 DEF Consistent, Credentials
<1>7. \A r \in StateType :
        Consistent(r, accounts, tokens) => Consistent(r, accounts', tokens')
  BY <1>1, <1>2, <1>3, ServerGrows
<1>8. Types'
  BY <1>1, <1>3, <1>4, <1>5 DEF Types
<1>9. Copies'
  BY <1>3, <1>4, <1>5, <1>6, <1>7 DEF Copies, Types
<1>10. Progress'
  BY <1>1, <1>3, <1>4, <1>6 DEF Progress, Step, Credentials, Types
<1>11. n # None /\ n \notin expired
  BY <1>3, SessionAssumption DEF Types
<1>12. Undisturbed'
  BY <1>1, <1>3, <1>4, <1>5, <1>11
     DEF Undisturbed, Step, Enters, LoggedIn, Credentials, Auth, Types
<1> QED
  BY <1>8, <1>9, <1>10, <1>12

\* A caller replaces the file: whatever the others had put there is undone, and what
\* it writes itself is consistent.
LEMMA WriteKeepsIInv ==
  ASSUME IInv, NEW c \in Callers, WriteState(c) PROVE IInv'
<1> USE DEF IInv, server, memory
<1>1. /\ pc[c] = "write" /\ op[c] # None /\ op[c] \in Operations
      /\ Credentials(state[c]) /\ Step(c) \in {"register", "login"}
  BY DEF WriteState, Progress, Types
<1>2. /\ UNCHANGED <<op, accounts, tokens, expired>>
      /\ stateFile' = state[c] /\ state' = [state EXCEPT ![c] = NoState]
      /\ undone' = undone \cup (Callers \ {c}) /\ Advance(c)
  BY DEF WriteState
<1>3. /\ step' \in [Callers -> Nat] /\ step'[c] \in 1 .. Len(Steps[op[c]])
      /\ \A d \in Callers \ {c} : step'[d] = step[d] /\ pc'[d] = pc[d]
      /\ pc' \in [Callers -> {"idle", "enter", "locked", "asked", "write", "done", "error",
                             "not_logged_in"}]
      /\ pc'[c] \in {"enter", "done"}
      /\ Enters(c, "fetch")' => Step(c) = "login"
  BY <1>1, <1>2, AdvanceGoesOn
<1>4. NoState \in StateType /\ Consistent(NoState, accounts, tokens)
  BY DEF NoState, StateType, Consistent
<1>5. Types'
  BY <1>1, <1>2, <1>3, <1>4 DEF Types
<1>6. Copies'
  BY <1>2, <1>4 DEF Copies, Types
<1>7. Progress'
  BY <1>1, <1>2, <1>3 DEF Progress, Step, Credentials, Types
<1>8. Undisturbed'
  <2>1. ASSUME NEW d \in Callers, d \notin undone'
        PROVE  d = c /\ d \notin undone
    BY <1>2, <2>1
  <2>2. c \notin undone /\ Enters(c, "fetch")' => LoggedIn'
    BY <1>1, <1>2, <1>3 DEF Undisturbed, LoggedIn, Credentials, Auth
  <2> QED
    BY <1>3, <2>1, <2>2 DEF Undisturbed
<1> QED
  BY <1>5, <1>6, <1>7, <1>8

\* Every step keeps the invariant.
LEMMA NextIInv == IInv /\ [Next]_vars => IInv'
<1> SUFFICES ASSUME IInv, [Next]_vars PROVE IInv'
  OBVIOUS
<1> USE DEF server, memory
<1>1. ASSUME NEW c \in Callers, Call(c) PROVE IInv'
  <2>1. PICK o \in Operations : op' = [op EXCEPT ![c] = o]
    BY <1>1 DEF Call
  <2>2. /\ UNCHANGED <<step, state, stateFile, accounts, tokens, expired, undone>>
        /\ pc' = [pc EXCEPT ![c] = "enter"] /\ pc[c] = "idle"
    BY <1>1 DEF Call, GoTo
  <2>3. Len(Steps[o]) \in Nat /\ 1 \in 1 .. Len(Steps[o]) /\ Steps[o][1] # "fetch"
    BY StepsOf, SessionAssumption
  <2>4. o # None
    BY SessionAssumption
  <2>5. Types'
    BY <2>1, <2>2, <2>3 DEF IInv, Types
  <2>6. Copies'
    BY <2>2 DEF IInv, Copies
  <2>7. Progress'
    BY <2>1, <2>2, <2>4 DEF IInv, Progress, Step, Credentials, Types
  <2>8. Undisturbed'
    BY <2>1, <2>2, <2>3 DEF IInv, Undisturbed, Step, Enters, LoggedIn, Credentials, Auth, Types
  <2> QED
    BY <2>5, <2>6, <2>7, <2>8 DEF IInv
<1>2. CASE Expire
  <2>1. /\ UNCHANGED <<op, step, pc, state, stateFile, accounts, tokens>>
        /\ expired' \subseteq DOMAIN tokens /\ undone' = Callers
    BY <1>2 DEF IInv, Types, Expire, caller
  <2> QED
    BY <2>1 DEF IInv, Types, Copies, Progress, Undisturbed, Step
<1>3. ASSUME NEW c \in Callers, Orchestra(c) PROVE IInv'
  <2>1. CASE AlreadyRegistered(c)
    BY <2>1, QuietSteps DEF AlreadyRegistered, Enters
  <2>2. CASE AlreadyLoggedIn(c) \/ ReadForRegister(c) \/ ReadForLogin(c)
    BY <2>2, ReadKeepsIInv
  <2>3. CASE Register(c)
    BY <2>3, RegisterKeepsIInv
  <2>4. CASE Login(c)
    BY <2>4, LoginKeepsIInv
  <2>5. CASE RegisterFails(c) \/ LoginFails(c) \/ WriteFails(c)
    BY <2>5, GiveUpKeepsIInv
  <2>6. CASE NotRegistered(c)
    BY <2>6, QuietSteps DEF NotRegistered, Enters, Fails
  <2>7. CASE WriteState(c)
    BY <2>7, WriteKeepsIInv
  <2>8. CASE Fetch(c)
    BY <2>8, QuietSteps DEF Fetch, Enters, Fails
  <2>9. CASE NotLoggedIn(c)
    <3>1. c \in undone
      BY <2>9 DEF NotLoggedIn, IInv, Undisturbed
    <3> QED
      BY <2>9, <3>1, QuietSteps DEF NotLoggedIn, Enters
  <2>10. CASE Request(c)
    BY <2>10, QuietSteps DEF Request, Enters, Fails
  <2>11. CASE LockedRequest(c)
    BY <2>11, QuietSteps DEF LockedRequest, Locked, Fails
  <2> QED
    BY <1>3, <2>1, <2>2, <2>3, <2>4, <2>5, <2>6, <2>7, <2>8, <2>9, <2>10, <2>11
       DEF Orchestra
<1>4. ASSUME NEW c \in Callers, Cancelled(c) \/ Configured(c) PROVE IInv'
  BY <1>4, QuietSteps DEF Cancelled, Configured, Enters, Fails
<1>5. CASE UNCHANGED vars
  BY <1>5 DEF vars, caller, IInv, Types, Copies, Progress, Undisturbed, Step, Enters,
              LoggedIn, Credentials, Auth
<1> QED
  BY <1>1, <1>2, <1>3, <1>4, <1>5, LookupsKeepIInv DEF Next

\* The invariant holds in every reachable state.
LEMMA IInvAlways == Spec => []IInv
  BY InitIInv, NextIInv, PTL DEF Spec

\* Whatever the callers of MaybeRegister and MaybeLogin overwrite, and whichever
\* requests and writes fail, the state file is never a mixture of two accounts.
THEOREM StateIsOneAccountAlways == Spec => []StateIsOneAccount
  BY IInvAlways, ConsistentFile, PTL

\* FetchTorTargets finds no account or no token, after its login, only if a token has
\* expired or another caller wrote the file since it began to log in.
THEOREM LoggedInUnlessUndoneAlways == Spec => []LoggedInUnlessUndone
  BY IInvAlways, ConsistentFile, PTL

-----------------------------------------------------------------------------
\* The part of TypeOK about what the mutex protects.
Memory == /\ mu \in Callers \cup {None} /\ location \in BOOLEAN
          /\ selected \in 0 .. Len(Services)

\* Some answers of the services select service s.
Selects(s) == s # 0 /\ \E res \in Results : s = SelectBest(Services, res)

\* What a step may do with it: a service is selected by the answers to a lookup, and
\* only if none is.
LEMMA MemoryStep ==
  ASSUME [Next]_vars
  PROVE  /\ mu' = mu \/ mu' \in Callers \cup {None}
         /\ location' = location \/ location' = TRUE
         /\ selected' = selected \/ (selected = 0 /\ Selects(selected'))
<1> USE DEF memory
<1>1. ASSUME NEW c \in Callers, Lookups(c)
      PROVE  /\ mu' \in Callers \cup {None}
             /\ location' = location \/ location' = TRUE
             /\ selected' = selected \/ (selected = 0 /\ Selects(selected'))
  <2>1. CASE Lock(c)
    BY <2>1 DEF Lock
  <2>2. CASE AlreadySelected(c) \/ AllServicesFailed(c) \/ LookupLocation(c)
             \/ LookupLocationFails(c) \/ ReadLocation(c)
    BY <2>2 DEF AlreadySelected, AllServicesFailed, LookupLocation, LookupLocationFails,
                ReadLocation, Unlock
  <2>3. CASE LookupBackends(c)
    BY <2>3 DEF LookupBackends, Unlock, Locked, Selects
  <2> QED
    BY <1>1, <2>1, <2>2, <2>3 DEF Lookups
<1>2. ASSUME NEW c \in Callers,
             Orchestra(c) \/ Call(c) \/ Cancelled(c) \/ Configured(c)
      PROVE  mu' \in {mu, None} /\ location' = location /\ selected' = selected
  BY <1>2 DEF Orchestra, Call, Cancelled, Configured, AlreadyRegistered, ReadForRegister, Register, RegisterFails,
              AlreadyLoggedIn, ReadForLogin, NotRegistered, Login, LoginFails, WriteState,
              WriteFails, Fetch, NotLoggedIn, Request, LockedRequest, Unlock
<1>3. CASE Expire \/ UNCHANGED vars
  BY <1>3 DEF Expire, vars
<1> QED
  BY <1>1, <1>2, <1>3 DEF Next

\* Services answer in a natural number of units of time.
LEMMA ResultsAreNumbers == Results \subseteq [1..Len(Services) -> Nat]
<1>1. DOMAIN Services = 1..Len(Services) /\ Durations \cup {0} \subseteq Nat
  BY SessionAssumption
<1> QED
  BY <1>1 DEF Results

\* The selected service is one of those available.
LEMMA MemoryNext == Memory /\ [Next]_vars => Memory'
<1> SUFFICES ASSUME Memory, [Next]_vars PROVE Memory'
  OBVIOUS
<1>1. ASSUME NEW res \in Results PROVE SelectBest(Services, res) \in 0 .. Len(Services)
  <2>1. res \in [1..Len(Services) -> Nat]
    BY ResultsAreNumbers
  <2> QED
    BY <2>1, SelectBestIsBest, SessionAssumption
<1>2. selected' \in 0 .. Len(Services)
  BY <1>1, MemoryStep DEF Memory, Selects
<1>3. mu' \in Callers \cup {None} /\ location' \in BOOLEAN
  BY MemoryStep DEF Memory
<1> QED
  BY <1>2, <1>3 DEF Memory

\* The mutex, the selected service, the callers, the state file and the server always
\* have their type; in particular the index of the selected service is that of a service.
THEOREM TypeCorrect == Spec => []TypeOK
<1>1. Init => Memory
  <2>1. Len(Services) \in Nat
    BY SessionAssumption
  <2>2. Init => selected \in 0 .. Len(Services)
    BY <2>1 DEF Init
  <2>3. Init => mu \in Callers \cup {None} /\ location \in BOOLEAN
    BY DEF Init
  <2> QED
    BY <2>2, <2>3 DEF Memory
<1>2. IInv /\ Memory => TypeOK
  <2> SUFFICES ASSUME IInv, Memory PROVE TypeOK
    OBVIOUS
  <2>1. ASSUME NEW c \in Callers, op[c] # None PROVE step[c] \in 1 .. Len(Steps[op[c]]) + 1
    <3>1. step[c] \in 1 .. Len(Steps[op[c]])
      BY <2>1 DEF IInv, Types
    <3>2. op[c] \in DOMAIN Steps
      BY <2>1, SessionAssumption DEF IInv, Types
    <3>3. Len(Steps[op[c]]) \in Nat
      BY <3>2, StepsOf
    <3> QED
      BY <3>1, <3>3
  <2> QED
    BY <2>1 DEF IInv, Types, Memory, TypeOK
<1> QED
  BY <1>1, <1>2, IInvAlways, MemoryNext, PTL DEF Spec

\* MaybeLookupBackendsContext selects once, and by whatever answers it selects a service,
\* that is the fastest https service that works or, if none does, the first fallback.
THEOREM SelectsTheBestAlways == Spec => SelectsTheBest
<1>1. ASSUME [Next]_vars, selected' # selected
      PROVE  /\ selected = 0
             /\ \A res \in Results : selected' = SelectBest(Services, res) =>
                                       IsBest(Services, res, selected')
  <2>1. selected = 0 /\ Selects(selected')
    BY <1>1, MemoryStep
  <2>2. ASSUME NEW res \in Results, selected' = SelectBest(Services, res)
        PROVE  IsBest(Services, res, selected')
    <3>1. res \in [1..Len(Services) -> Nat] /\ Services \in Seq(ServiceType)
      BY ResultsAreNumbers, SessionAssumption
    <3>2. SelectBest(Services, res) # 0 => IsBest(Services, res, SelectBest(Services, res))
      BY <3>1, SelectBestIsBest
    <3> QED
      BY <2>1, <2>2, <3>2 DEF Selects
  <2> QED
    BY <2>1, <2>2
<1> QED
  BY <1>1, PTL DEF Spec, SelectsTheBest
=============================================================================
