----------------------- MODULE DialingPolicies_proofs -----------------------
(***************************************************************************)
(* Proofs about the two halves of the dialing policies: TacticsPolicy, the  *)
(* pipeline of goroutines, for any inputs (any sequences of tactics, shuffles *)
(* and interleaving factor) and any interleaving; and StatsManager, the      *)
(* statistics, for any set of tactics and any number of concurrent attempts, *)
(* restarts, crashes, prunes and edited files.                               *)
(***************************************************************************)
EXTENDS TacticsPolicy, StatsManager, SequenceTheorems, FiniteSetTheorems, WellFoundedInduction, TLAPS

-----------------------------------------------------------------------------
(* Loops, as recursive functions over 0..n.                                *)

\* What holds before a loop, and is kept by each of its n steps, holds throughout.
LEMMA LoopInduction ==
  ASSUME NEW n \in Nat, NEW P, 0 \in P, \A k \in 1..n : k - 1 \in P => k \in P
  PROVE  0..n \subseteq P
<1> SUFFICES ASSUME NEW j \in 0..n, j \notin P PROVE FALSE
  OBVIOUS
<1> DEFINE T == {i \in 0..n : i \notin P}
<1>1. T \subseteq Nat /\ T # {}
  OBVIOUS
<1>2. PICK x \in T : \A y \in T : ~(<<y, x>> \in OpToRel(<, Nat))
  BY <1>1, WFMin, NatLessThanWellFounded
<1>3. x \in 1..n /\ x \notin P
  OBVIOUS
<1>4. x - 1 \in T
  BY <1>3
<1>5. <<x - 1, x>> \in OpToRel(<, Nat)
  <2>1. <<x - 1, x>> \in Nat \X Nat /\ x - 1 < x
    BY <1>3
  <2> HIDE DEF T
  <2> QED
    BY <2>1 DEF OpToRel
<1> QED
  BY <1>2, <1>4, <1>5

\* The intermediate results f of a loop of n steps, and a function that is known to have
\* them only as far as they are of the right type.
Runs(f, first, n, Body) == f[0] = first /\ \A k \in 1..n : f[k] = Body[k][f[k - 1]]
Solves(f, S, first, n, Body) ==
  /\ f = [k \in 0..n |-> f[k]] /\ f[0] = first
  /\ \A k \in 1..n : f[k - 1] \in S => f[k] = Body[k][f[k - 1]]

\* A loop computes something: there is a function of its intermediate results.
LEMMA LoopResults ==
  ASSUME NEW S, NEW first \in S, NEW n \in Nat, NEW Body \in [1..n -> [S -> S]]
  PROVE  \E f \in [0..n -> S] : Runs(f, first, n, Body)
<1> DEFINE Upto(m, f) == f[0] = first /\ \A k \in 1..m : f[k] = Body[k][f[k - 1]]
           P == {m \in 0..n : \E f \in [0..m -> S] : Upto(m, f)}
<1>1. 0 \in P
  <2> DEFINE g == [k \in 0..0 |-> first]
  <2>1. g \in [0..0 -> S] /\ Upto(0, g)
    OBVIOUS
  <2> HIDE DEF g, Upto
  <2> QED
    BY <2>1
<1>2. ASSUME NEW m \in 1..n, m - 1 \in P PROVE m \in P
  <2>1. PICK f \in [0..m - 1 -> S] : Upto(m - 1, f)
    BY <1>2
  <2> DEFINE g == [k \in 0..m |-> IF k = m THEN Body[m][f[m - 1]] ELSE f[k]]
  <2>2. m - 1 \in 0..m - 1 /\ f[m - 1] \in S
    OBVIOUS
  <2>3. g \in [0..m -> S]
    BY <2>2
  <2>4. g[0] = first
    BY <2>1
  <2>5. ASSUME NEW k \in 1..m PROVE g[k] = Body[k][g[k - 1]]
    BY <2>1
  <2>6. Upto(m, g)
    BY <2>4, <2>5
  <2> HIDE DEF g, Upto
  <2> QED
    BY <2>3, <2>6
<1>3. n \in P
  <2> HIDE DEF P
  <2>1. 0..n \subseteq P
    BY <1>1, <1>2, LoopInduction
  <2> QED
    BY <2>1
<1> QED
  BY <1>3 DEF Runs

\* A recursive function over 0..n, which TLA+ defines as some solution f of its equation,
\* is the function of the intermediate results of its loop.
LEMMA LoopSolved ==
  ASSUME NEW S, NEW first \in S, NEW n \in Nat, NEW Body \in [1..n -> [S -> S]], NEW f,
         \A g \in [0..n -> S] : Runs(g, first, n, Body) => Solves(f, S, first, n, Body)
  PROVE  f \in [0..n -> S] /\ Runs(f, first, n, Body)
<1>1. /\ f = [k \in 0..n |-> f[k]] /\ f[0] = first
      /\ \A k \in 1..n : f[k - 1] \in S => f[k] = Body[k][f[k - 1]]
  <2>1. PICK g \in [0..n -> S] : Runs(g, first, n, Body)
    BY LoopResults
  <2> QED
    BY <2>1 DEF Solves
<1> DEFINE P == {k \in 0..n : f[k] \in S}
<1>2. 0..n \subseteq P
  <2>1. 0 \in P
    BY <1>1
  <2>2. ASSUME NEW k \in 1..n, k - 1 \in P PROVE k \in P
    <3>1. f[k - 1] \in S /\ f[k] = Body[k][f[k - 1]] /\ Body[k] \in [S -> S]
      BY <1>1, <2>2
    <3> QED
      BY <3>1
  <2> HIDE DEF P
  <2> QED
    BY <2>1, <2>2, LoopInduction
<1>3. \A k \in 1..n : k - 1 \in 0..n
  OBVIOUS
<1> QED
  BY <1>1, <1>2, <1>3 DEF Runs

\* The delays of the schedule are natural numbers.
LEMMA DelayIsNat ==
  ASSUME NEW i \in Nat PROVE HappyEyeballsDelay(i) \in Nat
  BY DEF HappyEyeballsDelay

\* What the filters do with tactic k of s when they have emitted x.
FilterStep(s, k, x) ==
  IF \E j \in 1..k - 1 : s[j] = s[k] THEN x
  ELSE Append(x, [tactic |-> s[k], delay |-> HappyEyeballsDelay(Len(x))])

\* The results of the filters over the first k tactics follow from each other.
LEMMA FirstOccurrencesLoop ==
  ASSUME NEW T, NEW s \in Seq(T), NEW f, f = FirstOccurrences(s)
  PROVE  /\ f \in [0..Len(s) -> Seq([tactic : T, delay : Nat])] /\ f[0] = <<>>
         /\ \A k \in 1..Len(s) : f[k] = FilterStep(s, k, f[k - 1])
<1> DEFINE Step(k, x) == FilterStep(s, k, x)
<1>1. PICK n \in Nat : n = Len(s)
  OBVIOUS
<1>2. PICK S : S = Seq([tactic : T, delay : Nat])
  OBVIOUS
<1>3. PICK first \in S : first = <<>>
  <2>1. \A U : <<>> \in Seq(U)
    OBVIOUS
  <2> QED
    BY <1>2, <2>1
<1> DEFINE Eq(h) == h = [k \in 0..n |-> IF k = 0 THEN first ELSE Step(k, h[k - 1])]
<1>4. f = CHOOSE h : Eq(h)
  BY <1>1, <1>3 DEF FirstOccurrences, FilterStep
<1>5. ASSUME NEW k \in 1..n, NEW x \in S PROVE Step(k, x) \in S
  <2>1. Len(x) \in Nat /\ s[k] \in T
    BY <1>1, <1>2
  <2>2. [tactic |-> s[k], delay |-> HappyEyeballsDelay(Len(x))] \in [tactic : T, delay : Nat]
    BY <2>1, DelayIsNat
  <2>3. \A y \in [tactic : T, delay : Nat] : Append(x, y) \in S
    BY <1>2
  <2> QED
    BY <2>2, <2>3 DEF FilterStep
<1> HIDE DEF Step
<1>6. PICK Body \in [1..n -> [S -> S]] : \A k \in 1..n, x \in S : Body[k][x] = Step(k, x)
  <2>1. [k \in 1..n |-> [x \in S |-> Step(k, x)]] \in [1..n -> [S -> S]]
    BY <1>5
  <2> QED
    BY <2>1
<1>7. ASSUME NEW g \in [0..n -> S], Runs(g, first, n, Body)
      PROVE  Solves(f, S, first, n, Body)
  <2>1. Eq(g)
    <3>1. \A k \in 1..n : g[k - 1] \in S
      OBVIOUS
    <3> QED
      BY <3>1, <1>6, <1>7 DEF Runs
  <2>2. Eq(f)
    <3> HIDE DEF Eq
    <3> QED
      BY <2>1, <1>4
  <2> QED
    BY <2>2, <1>6 DEF Solves
<1> HIDE DEF Eq
<1>8. f \in [0..n -> S] /\ Runs(f, first, n, Body)
  BY <1>7, LoopSolved
<1>9. \A k \in 1..n : f[k - 1] \in S /\ f[k] = Step(k, f[k - 1])
  BY <1>6, <1>8 DEF Runs
<1> QED
  BY <1>1, <1>2, <1>3, <1>8, <1>9 DEF Step, Runs

\* They start with nothing.
LEMMA FirstOccurrencesFirst ==
  ASSUME NEW T, NEW s \in Seq(T), NEW f, f = FirstOccurrences(s)
  PROVE  f[0] = <<>>
  BY FirstOccurrencesLoop

\* They go on with the next tactic.
LEMMA FirstOccurrencesNext ==
  ASSUME NEW T, NEW s \in Seq(T), NEW f, f = FirstOccurrences(s)
  PROVE  \A k \in 1..Len(s) : f[k] = FilterStep(s, k, f[k - 1])
<1>1. PICK Q : Q = [tactic : T, delay : Nat]
  OBVIOUS
<1>2. /\ f \in [0..Len(s) -> Seq(Q)] /\ f[0] = <<>>
      /\ \A k \in 1..Len(s) : f[k] = FilterStep(s, k, f[k - 1])
  BY <1>1, FirstOccurrencesLoop
<1> QED
  BY <1>2

\* The variants of tactic k.
Row(child, snis, k) == [j \in 1..Len(snis[k]) |-> [child[k] EXCEPT !.sni = snis[k][j]]]

\* The variants of the first k tactics follow from each other.
LEMMA VariantsLoop ==
  ASSUME NEW child \in Seq(Tactic), NEW snis \in Seq(Seq(SNIs)), Len(child) <= Len(snis),
         NEW f, f = Variants(child, snis)
  PROVE  /\ f \in [0..Len(child) -> Seq(Tactic)] /\ f[0] = <<>>
         /\ \A k \in 1..Len(child) : f[k] = f[k - 1] \o Row(child, snis, k)
<1> DEFINE Step(k, x) == x \o Row(child, snis, k)
<1>1. PICK n \in Nat : n = Len(child)
  OBVIOUS
<1>2. PICK S : S = Seq(Tactic)
  OBVIOUS
<1>3. PICK first \in S : first = <<>>
  <2>1. \A U : <<>> \in Seq(U)
    OBVIOUS
  <2> QED
    BY <1>2, <2>1
<1> DEFINE Eq(h) == h = [k \in 0..n |-> IF k = 0 THEN first ELSE Step(k, h[k - 1])]
<1>4. f = CHOOSE h : Eq(h)
  BY <1>1, <1>3 DEF Variants, Row
<1>5. ASSUME NEW k \in 1..n, NEW x \in S PROVE Step(k, x) \in S
  <2>1. child[k] \in Tactic /\ snis[k] \in Seq(SNIs)
    BY <1>1
  <2>2. PICK c \in Tactic, q \in Seq(SNIs) : c = child[k] /\ q = snis[k]
    BY <2>1
  <2>3. [j \in 1..Len(q) |-> [c EXCEPT !.sni = q[j]]] \in Seq(Tactic)
    <3>1. \A j \in 1..Len(q) : [c EXCEPT !.sni = q[j]] \in Tactic
      BY DEF Tactic
    <3> QED
      BY <3>1
  <2> QED
    BY <1>2, <2>2, <2>3 DEF Row
<1> HIDE DEF Step
<1>6. PICK Body \in [1..n -> [S -> S]] : \A k \in 1..n, x \in S : Body[k][x] = Step(k, x)
  <2>1. [k \in 1..n |-> [x \in S |-> Step(k, x)]] \in [1..n -> [S -> S]]
    BY <1>5
  <2> QED
    BY <2>1
<1>7. ASSUME NEW g \in [0..n -> S], Runs(g, first, n, Body)
      PROVE  Solves(f, S, first, n, Body)
  <2>1. Eq(g)
    <3>1. \A k \in 1..n : g[k - 1] \in S
      OBVIOUS
    <3> QED
      BY <3>1, <1>6, <1>7 DEF Runs
  <2>2. Eq(f)
    <3> HIDE DEF Eq
    <3> QED
      BY <2>1, <1>4
  <2> QED
    BY <2>2, <1>6 DEF Solves
<1> HIDE DEF Eq
<1>8. f \in [0..n -> S] /\ Runs(f, first, n, Body)
  BY <1>7, LoopSolved
<1>9. \A k \in 1..n : f[k - 1] \in S /\ f[k] = Step(k, f[k - 1])
  BY <1>6, <1>8 DEF Runs
<1> QED
  BY <1>1, <1>2, <1>3, <1>8, <1>9 DEF Step, Runs

\* Tactic t is among the emitted ones.
Emitted(x, t) == \E i \in DOMAIN x : x[i].tactic = t

\* A step of the filters emits its tactic, now or before.
LEMMA FilterStepEmits ==
  ASSUME NEW Q, NEW x \in Seq(Q), NEW s, NEW k \in Nat \ {0},
         \A t : Emitted(x, t) <=> \E j \in 1..k - 1 : s[j] = t
  PROVE  \A t : Emitted(FilterStep(s, k, x), t) <=> \E j \in 1..k : s[j] = t
<1>1. \A t : (\E j \in 1..k : s[j] = t) <=> (\E j \in 1..k - 1 : s[j] = t) \/ s[k] = t
  OBVIOUS
<1>2. CASE \E j \in 1..k - 1 : s[j] = s[k]
  <2>1. FilterStep(s, k, x) = x
    BY <1>2 DEF FilterStep
  <2> QED
    BY <1>1, <1>2, <2>1
<1>3. CASE ~\E j \in 1..k - 1 : s[j] = s[k]
  <2>1. PICK e : e = [tactic |-> s[k], delay |-> HappyEyeballsDelay(Len(x))]
    OBVIOUS
  <2>2. FilterStep(s, k, x) = Append(x, e) /\ e.tactic = s[k]
    BY <1>3, <2>1 DEF FilterStep
  <2>3. /\ DOMAIN Append(x, e) = 1..Len(x) + 1 /\ DOMAIN x = 1..Len(x) /\ Len(x) \in Nat
        /\ Append(x, e)[Len(x) + 1] = e /\ \A i \in 1..Len(x) : Append(x, e)[i] = x[i]
    OBVIOUS
  <2>4. \A t : Emitted(Append(x, e), t) <=> Emitted(x, t) \/ e.tactic = t
    BY <2>3 DEF Emitted
  <2> QED
    BY <1>1, <2>2, <2>4
<1> QED
  BY <1>2, <1>3

\* The filters emit each of the tactics that they have got.
LEMMA FirstOccurrencesAll ==
  ASSUME NEW T, NEW s \in Seq(T), NEW f, f = FirstOccurrences(s)
  PROVE  \A k \in 0..Len(s) : \A t : Emitted(f[k], t) <=> \E j \in 1..k : s[j] = t
<1>1. PICK Q : Q = [tactic : T, delay : Nat]
  OBVIOUS
<1>2. /\ f \in [0..Len(s) -> Seq(Q)] /\ f[0] = <<>>
      /\ \A k \in 1..Len(s) : f[k] = FilterStep(s, k, f[k - 1])
  BY <1>1, FirstOccurrencesLoop
<1>3. PICK n \in Nat : n = Len(s)
  OBVIOUS
<1> DEFINE P == {k \in 0..n : \A t : Emitted(f[k], t) <=> \E j \in 1..k : s[j] = t}
<1>4. 0 \in P
  <2>1. \A t : ~Emitted(<<>>, t)
    BY DEF Emitted
  <2> QED
    BY <1>2, <2>1
<1>5. ASSUME NEW k \in 1..n, k - 1 \in P PROVE k \in P
  <2>1. \A t : Emitted(f[k - 1], t) <=> \E j \in 1..k - 1 : s[j] = t
    BY <1>5
  <2>2. f[k - 1] \in Seq(Q) /\ f[k] = FilterStep(s, k, f[k - 1])
    BY <1>2, <1>3
  <2>3. PICK x \in Seq(Q) : x = f[k - 1]
    BY <2>2
  <2>4. \A t : Emitted(x, t) <=> \E j \in 1..k - 1 : s[j] = t
    BY <2>1, <2>3
  <2>5. \A t : Emitted(FilterStep(s, k, x), t) <=> \E j \in 1..k : s[j] = t
    BY <2>4, FilterStepEmits
  <2> QED
    BY <2>2, <2>3, <2>5
<1>6. 0..n \subseteq P
  <2> HIDE DEF P
  <2> QED
    BY <1>4, <1>5, LoopInduction
<1> QED
  BY <1>3, <1>6

\* x is a beginning of y.
Below(x, y) == Len(x) <= Len(y) /\ \A i \in 1..Len(x) : x[i] = y[i]

\* A beginning of a beginning is one.
LEMMA BelowTrans ==
  ASSUME NEW Q, NEW x \in Seq(Q), NEW y \in Seq(Q), NEW z \in Seq(Q), Below(x, y), Below(y, z)
  PROVE  Below(x, z)
<1>1. Len(x) \in Nat /\ Len(y) \in Nat /\ Len(z) \in Nat
  OBVIOUS
<1> QED
  BY <1>1 DEF Below

\* What the filters have emitted is a beginning of what they will have.
LEMMA FirstOccurrencesPrefix ==
  ASSUME NEW T, NEW s \in Seq(T), NEW f, f = FirstOccurrences(s)
  PROVE  \A k \in 0..Len(s) : IsPrefix(f[k], Filtered(s))
<1>1. PICK Q : Q = [tactic : T, delay : Nat]
  OBVIOUS
<1>2. /\ f \in [0..Len(s) -> Seq(Q)]
      /\ \A k \in 1..Len(s) : f[k] = FilterStep(s, k, f[k - 1])
  BY <1>1, FirstOccurrencesLoop
<1>3. PICK n \in Nat : n = Len(s)
  OBVIOUS
<1>4. ASSUME NEW k \in 0..n PROVE f[k] \in Seq(Q)
  BY <1>2, <1>3
<1>5. ASSUME NEW k \in 1..n PROVE Below(f[k - 1], f[k])
  <2>0. f[k - 1] \in Seq(Q)
    BY <1>2, <1>3
  <2>1. PICK x \in Seq(Q) : x = f[k - 1]
    BY <2>0
  <2>2. \A e : Below(x, Append(x, e))
    BY DEF Below
  <2>3. Below(x, x)
    BY DEF Below
  <2>4. f[k] = x \/ \E e : f[k] = Append(x, e)
    BY <1>2, <1>3, <2>1 DEF FilterStep
  <2> QED
    BY <2>1, <2>2, <2>3, <2>4
<1>6. ASSUME NEW k \in 0..n PROVE Below(f[k], f[n])
  <2> DEFINE P == {d \in 0..n : d + k <= n => Below(f[k], f[k + d])}
  <2>1. 0 \in P
    <3>1. k + 0 = k /\ Below(f[k], f[k])
      BY <1>4 DEF Below
    <3> QED
      BY <3>1
  <2>2. ASSUME NEW d \in 1..n, d - 1 \in P PROVE d \in P
    <3> SUFFICES ASSUME d + k <= n PROVE Below(f[k], f[k + d])
      OBVIOUS
    <3>1. Below(f[k], f[k + (d - 1)]) /\ k + d \in 1..n /\ k + (d - 1) = (k + d) - 1
      BY <2>2
    <3>2. Below(f[(k + d) - 1], f[k + d])
      BY <1>5, <3>1
    <3>3. PICK x \in Seq(Q), y \in Seq(Q), z \in Seq(Q) :
            x = f[k] /\ y = f[(k + d) - 1] /\ z = f[k + d]
      <4>1. (k + d) - 1 \in 0..n /\ k + d \in 0..n
        BY <3>1
      <4> QED
        BY <4>1, <1>4
    <3>4. Below(x, y) /\ Below(y, z)
      BY <3>1, <3>2, <3>3
    <3>5. Below(x, z)
      BY <3>4, BelowTrans
    <3> QED
      BY <3>3, <3>5
  <2>3. 0..n \subseteq P
    <3> HIDE DEF P
    <3> QED
      BY <2>1, <2>2, LoopInduction
  <2>4. n - k \in 0..n /\ k + (n - k) = n /\ (n - k) + k <= n
    OBVIOUS
  <2>5. \A d \in 0..n : d + k <= n => Below(f[k], f[k + d])
    BY <2>3
  <2>6. Below(f[k], f[k + (n - k)])
    BY <2>4, <2>5
  <2> QED
    BY <2>4, <2>6
<1>7. ASSUME NEW k \in 0..n PROVE IsPrefix(f[k], f[n])
  <2>1. PICK x \in Seq(Q), y \in Seq(Q) : x = f[k] /\ y = f[n]
    BY <1>4
  <2>2. Len(x) <= Len(y) /\ \A i \in 1..Len(x) : x[i] = y[i]
    BY <1>6, <2>1 DEF Below
  <2>3. SubSeq(x, 1, Len(x)) = SubSeq(y, 1, Len(x))
    BY <2>2
  <2> QED
    BY <2>1, <2>2, <2>3 DEF IsPrefix
<1> QED
  BY <1>2, <1>3, <1>7 DEF Filtered

-----------------------------------------------------------------------------
(* The positions of an interleaving.                                       *)

\* The positions that Interleaved gives to item i of the primary and j of the fallback.
PosP(n, b, i) == i + Smaller(b, ((i - 1) \div n) * n)
PosF(n, a, j) == j + Smaller(a, ((j - 1) \div n + 1) * n)

\* The round of an item.
LEMMA Rounds ==
  ASSUME NEW n \in Nat \ {0}, NEW i \in Nat \ {0}
  PROVE  \E q \in Nat : /\ q = (i - 1) \div n /\ q * n \in Nat /\ (q + 1) * n = q * n + n
                        /\ q * n < i /\ i <= q * n + n
<1>1. i - 1 \in Nat
  OBVIOUS
<1>2. PICK x \in Nat : x = i - 1
  BY <1>1
<1>3. x \div n \in Nat
  OBVIOUS
<1>4. (x \div n) * n <= x
  OBVIOUS
<1>5. x < (x \div n) * n + n
  OBVIOUS
<1>6. PICK q \in Nat : q = x \div n
  BY <1>3
<1>7. q * n \in Nat /\ (q + 1) * n = q * n + n
  OBVIOUS
<1> QED
  BY <1>2, <1>4, <1>5, <1>6, <1>7

\* Later rounds come after.
LEMMA RoundsInOrder ==
  ASSUME NEW n \in Nat \ {0}, NEW q \in Nat, NEW r \in Nat
  PROVE  (q <= r => q * n <= r * n) /\ (q < r => q * n + n <= r * n)
<1>1. q <= r => q * n <= r * n
  OBVIOUS
<1>2. q < r => q * n + n <= r * n
  OBVIOUS
<1> QED
  BY <1>1, <1>2

\* The round of a multiple and a remainder.
LEMMA RoundOf ==
  ASSUME NEW n \in Nat \ {0}, NEW q \in Nat, NEW r \in Nat, r < n
  PROVE  (q * n + r) \div n = q
  OBVIOUS

\* No two items have the same position.
LEMMA PositionsDiffer ==
  ASSUME NEW n \in Nat \ {0}, NEW a \in Nat, NEW b \in Nat
  PROVE  /\ \A i, k \in 1..a : PosP(n, b, i) = PosP(n, b, k) => i = k
         /\ \A j, k \in 1..b : PosF(n, a, j) = PosF(n, a, k) => j = k
         /\ \A i \in 1..a, j \in 1..b : PosP(n, b, i) # PosF(n, a, j)
<1>1. ASSUME NEW i \in 1..a, NEW k \in 1..a, i < k PROVE PosP(n, b, i) < PosP(n, b, k)
  <2>1. PICK q \in Nat : q = (i - 1) \div n /\ q * n \in Nat /\ q * n < i /\ i <= q * n + n
    BY Rounds
  <2>2. PICK r \in Nat : r = (k - 1) \div n /\ r * n \in Nat /\ r * n < k /\ k <= r * n + n
    BY Rounds
  <2>3. q * n <= r * n
    <3>1. ~(r < q)
      <4>1. r < q => r * n + n <= q * n
        BY RoundsInOrder
      <4> QED
        BY <1>1, <2>1, <2>2, <4>1
    <3> QED
      BY <3>1, RoundsInOrder
  <2> QED
    BY <1>1, <2>1, <2>2, <2>3 DEF PosP, Smaller
<1>2. ASSUME NEW j \in 1..b, NEW k \in 1..b, j < k PROVE PosF(n, a, j) < PosF(n, a, k)
  <2>1. PICK q \in Nat : /\ q = (j - 1) \div n /\ q * n \in Nat /\ (q + 1) * n = q * n + n
                         /\ q * n < j /\ j <= q * n + n
    BY Rounds
  <2>2. PICK r \in Nat : /\ r = (k - 1) \div n /\ r * n \in Nat /\ (r + 1) * n = r * n + n
                         /\ r * n < k /\ k <= r * n + n
    BY Rounds
  <2>3. q * n <= r * n
    <3>1. ~(r < q)
      <4>1. r < q => r * n + n <= q * n
        BY RoundsInOrder
      <4> QED
        BY <1>2, <2>1, <2>2, <4>1
    <3> QED
      BY <3>1, RoundsInOrder
  <2> QED
    BY <1>2, <2>1, <2>2, <2>3 DEF PosF, Smaller
<1>3. ASSUME NEW i \in 1..a, NEW j \in 1..b PROVE PosP(n, b, i) # PosF(n, a, j)
  <2>1. PICK q \in Nat : q = (i - 1) \div n /\ q * n \in Nat /\ q * n < i /\ i <= q * n + n
    BY Rounds
  <2>2. PICK r \in Nat : /\ r = (j - 1) \div n /\ r * n \in Nat /\ (r + 1) * n = r * n + n
                         /\ r * n < j /\ j <= r * n + n
    BY Rounds
  <2>3. CASE q <= r
    <3>1. q * n <= r * n
      BY <2>3, RoundsInOrder
    <3> QED
      BY <2>1, <2>2, <3>1 DEF PosP, PosF, Smaller
  <2>4. CASE r < q
    <3>1. r * n + n <= q * n
      BY <2>4, RoundsInOrder
    <3> QED
      BY <2>1, <2>2, <3>1 DEF PosP, PosF, Smaller
  <2> QED
    BY <2>3, <2>4
<1>4. \A i \in 1..a : PosP(n, b, i) \in Int
  <2> SUFFICES ASSUME NEW i \in 1..a PROVE PosP(n, b, i) \in Int
    OBVIOUS
  <2>1. PICK q \in Nat : q = (i - 1) \div n /\ q * n \in Nat
    BY Rounds
  <2> QED
    BY <2>1 DEF PosP, Smaller
<1>5. \A j \in 1..b : PosF(n, a, j) \in Int
  <2> SUFFICES ASSUME NEW j \in 1..b PROVE PosF(n, a, j) \in Int
    OBVIOUS
  <2>1. PICK q \in Nat : q = (j - 1) \div n /\ q * n \in Nat /\ (q + 1) * n = q * n + n
    BY Rounds
  <2> QED
    BY <2>1 DEF PosF, Smaller
<1> QED
  BY <1>1, <1>2, <1>3, <1>4, <1>5

\* s has the items of p and of f at their positions, and no others.
Merges(n, s, p, f) ==
  /\ Len(s) = Len(p) + Len(f)
  /\ \A i \in 1..Len(p) : LET k == PosP(n, Len(f), i)
                          IN  k \in 1..Len(p) + Len(f) => s[k] = p[i]
  /\ \A j \in 1..Len(f) : LET k == PosF(n, Len(p), j)
                          IN  k \in 1..Len(p) + Len(f) => s[k] = f[j]

\* Interleaved is a sequence that merges its arguments.
LEMMA InterleavedMerges ==
  ASSUME NEW T, NEW U, NEW p \in Seq(T), NEW f \in Seq(U), NEW factor \in Nat,
         NEW n, n = AtLeastOne(factor), NEW s, s = Interleaved(p, f, factor)
  PROVE  (\E V : s \in Seq(V)) /\ Merges(n, s, p, f)
<1>0. PICK a \in Nat, b \in Nat : a = Len(p) /\ DOMAIN p = 1..a /\ b = Len(f) /\ DOMAIN f = 1..b
  OBVIOUS
<1>1. n \in Nat \ {0}
  BY DEF AtLeastOne
<1> DEFINE Item(k) == IF \E i \in 1..a : PosP(n, b, i) = k
                        THEN p[CHOOSE i \in 1..a : PosP(n, b, i) = k]
                        ELSE f[CHOOSE j \in 1..b : PosF(n, a, j) = k]
<1>2. s = [k \in 1..a + b |-> Item(k)]
  BY <1>0 DEF Interleaved, PosP, PosF
<1>3. ASSUME NEW i \in 1..a PROVE Item(PosP(n, b, i)) = p[i]
  BY <1>1, PositionsDiffer
<1>4. ASSUME NEW j \in 1..b PROVE Item(PosF(n, a, j)) = f[j]
  BY <1>1, PositionsDiffer
<1> HIDE DEF Item
<1>5. \E V : s \in Seq(V)
  <2>1. PICK V : V = {Item(k) : k \in 1..a + b}
    OBVIOUS
  <2>2. s \in [1..a + b -> V] /\ a + b \in Nat
    BY <1>2, <2>1
  <2>3. s \in Seq(V)
    BY <2>2, SeqDef
  <2> QED
    BY <2>3
<1>6. Len(s) = a + b
  BY <1>2
<1> QED
  BY <1>0, <1>2, <1>3, <1>4, <1>5, <1>6 DEF Merges

\* The mixer has got i tactics of a and j of b, and takes the next one from the primary:
\* after r rounds, and t tactics of another. And the same for the fallback.
PrimaryDue(n, a, b, r, t, i, j) ==
  /\ a \in Nat /\ b \in Nat /\ r \in Nat /\ t \in Nat /\ i \in Nat /\ j \in 0..b
  /\ t < n /\ i = r * n + t /\ i < a /\ (j = r * n \/ (j = b /\ b <= r * n))
FallbackDue(n, a, b, r, t, i, j) ==
  /\ a \in Nat /\ b \in Nat /\ r \in Nat /\ t \in Nat /\ j \in Nat /\ i \in 0..a
  /\ t < n /\ j = r * n + t /\ j < b /\ (i = r * n + n \/ (i = a /\ a <= r * n + n))

\* Then the next one of the primary is the next of the stream.
LEMMA NextOfPrimary ==
  ASSUME NEW n \in Nat \ {0}, NEW s, NEW p, NEW f, Merges(n, s, p, f),
         NEW r, NEW t, NEW i, NEW j, PrimaryDue(n, Len(p), Len(f), r, t, i, j)
  PROVE  i + j + 1 <= Len(s) /\ s[i + j + 1] = p[i + 1]
<1>0. PICK a \in Nat, b \in Nat : a = Len(p) /\ b = Len(f)
  BY DEF PrimaryDue
<1>1. /\ r \in Nat /\ t \in Nat /\ i \in Nat /\ j \in 0..b
      /\ t < n /\ i = r * n + t /\ i < a /\ (j = r * n \/ (j = b /\ b <= r * n))
  BY <1>0 DEF PrimaryDue
<1>2. i \div n = r
  BY <1>1, RoundOf
<1>3. r * n \in Nat
  BY <1>1
<1>4. PosP(n, b, i + 1) = i + j + 1
  <2>1. i + 1 - 1 = i
    BY <1>1
  <2> QED
    BY <1>1, <1>2, <1>3, <2>1 DEF PosP, Smaller
<1>5. i + 1 \in 1..Len(p) /\ i + j + 1 \in 1..a + b
  BY <1>0, <1>1
<1>6. PICK k : k = PosP(n, b, i + 1) /\ k = i + j + 1
  BY <1>4
<1>7. Len(s) = a + b /\ (k \in 1..a + b => s[k] = p[i + 1])
  BY <1>0, <1>5, <1>6 DEF Merges
<1> QED
  BY <1>1, <1>5, <1>6, <1>7

\* And so is that of the fallback.
LEMMA NextOfFallback ==
  ASSUME NEW n \in Nat \ {0}, NEW s, NEW p, NEW f, Merges(n, s, p, f),
         NEW r, NEW t, NEW i, NEW j, FallbackDue(n, Len(p), Len(f), r, t, i, j)
  PROVE  i + j + 1 <= Len(s) /\ s[i + j + 1] = f[j + 1]
<1>0. PICK a \in Nat, b \in Nat : a = Len(p) /\ b = Len(f)
  BY DEF FallbackDue
<1>1. /\ r \in Nat /\ t \in Nat /\ j \in Nat /\ i \in 0..a
      /\ t < n /\ j = r * n + t /\ j < b /\ (i = r * n + n \/ (i = a /\ a <= r * n + n))
  BY <1>0 DEF FallbackDue
<1>2. j \div n = r
  BY <1>1, RoundOf
<1>3. r * n \in Nat /\ (r + 1) * n = r * n + n
  BY <1>1
<1>4. PosF(n, a, j + 1) = i + j + 1
  <2>1. j + 1 - 1 = j
    BY <1>1
  <2> QED
    BY <1>1, <1>2, <1>3, <2>1 DEF PosF, Smaller
<1>5. j + 1 \in 1..Len(f) /\ i + j + 1 \in 1..a + b
  BY <1>0, <1>1
<1>6. PICK k : k = PosF(n, a, j + 1) /\ k = i + j + 1
  BY <1>4
<1>7. Len(s) = a + b /\ (k \in 1..a + b => s[k] = f[j + 1])
  BY <1>0, <1>5, <1>6 DEF Merges
<1> QED
  BY <1>1, <1>5, <1>6, <1>7

-----------------------------------------------------------------------------
(* The invariant of the pipeline.                                          *)

\* The stages that send tactics to another stage.
Emitters == Stages \ {"filter"}

\* How many tactics the next stage has got from stage s.
Held(s) == IF slot[s] = None THEN 0 ELSE 1
Got(s) == sent[s] - Held(s)

\* Stage s sends its stream: what it has sent is a beginning of it, and all of it when
\* the channel is closed.
Carries(s) ==
  /\ sent[s] <= Len(Stream(s))
  /\ slot[s] # None => sent[s] > 0 /\ slot[s] = Stream(s)[sent[s]]
  /\ closed[s] => slot[s] = None /\ sent[s] = Len(Stream(s))

\* Which goroutines are running; the others have done nothing, nor has the DNS policy
\* before its lookup.
Idle(s) == slot[s] = None /\ ~closed[s] /\ sent[s] = 0
Started ==
  /\ spawned = {"filter"} \union
       (IF Top = "dns" THEN {"dns"}
        ELSE IF Top = "outer" THEN Composed
        ELSE {"either", "user"} \union (IF either = "outer" THEN Composed ELSE {}))
  /\ \A s \in Stages \ spawned : Idle(s)
  /\ dnsDone = "pending" => Idle("dns")
  /\ dnsDone # "pending" => "dns" \in spawned

\* testHelpersPolicy: todo holds the last of the variants of the tactics that it has
\* got, and none of the variants was sent before the end of the input.
VariantsOf(k) == IF in.isTH THEN Variants(Items("dns"), in.snis)[k] ELSE <<>>
Extending ==
  LET v == VariantsOf(Got("dns"))
      done == Len(v) - Len(todo)
  IN  /\ done >= 0
      /\ sent["th"] = Got("dns") + done
      /\ \A i \in 1..Len(todo) : todo[i] = v[done + i]
      /\ done > 0 => AtEOF("dns")
      /\ closed["th"] => AtEOF("dns") /\ todo = <<>>

\* mixPolicyInterleave after r rounds and a part of another: what it has got from each
\* side is what the rounds ask for, or all there is.
Read(drained, got, len, upto) == IF drained THEN got = len /\ len <= upto ELSE got = upto
AfterRounds(m, r) ==
  LET x == mix[m]
      P == Primary(m)
      F == Fallback(m)
  IN  /\ Read("p" \in x.drained, Got(P), Len(Stream(P)),
              r * Quota + (IF x.side = "p" THEN x.taken ELSE Quota))
      /\ Read("f" \in x.drained, Got(F), Len(Stream(F)),
              r * Quota + (IF x.side = "p" THEN 0 ELSE x.taken))
Mixing(m) ==
  /\ sent[m] = Got(Primary(m)) + Got(Fallback(m))
  /\ mix[m].side \in mix[m].drained => mix[m].taken = 0
  /\ "p" \in mix[m].drained => AtEOF(Primary(m))
  /\ "f" \in mix[m].drained => AtEOF(Fallback(m))
  /\ closed[m] => mix[m].drained = {"p", "f"}
  /\ \E r \in Nat : AfterRounds(m, r)

\* mixPolicyEitherOr reads the fallback only if the user has no tactic.
Choosing ==
  /\ sent["either"] = Got(either)
  /\ either = "user" => count = Got("user")
  /\ either = "outer" => UserTactics = <<>> /\ Top = "either"
  /\ closed["either"] => AtEOF(either) /\ (either = "outer" \/ count > 0)

\* The filters have passed on what they should of the tactics they have got.
Filtering ==
  /\ out = FirstOccurrences(Stream(Top))[Got(Top)]
  /\ closed["filter"] => AtEOF(Top)
  /\ slot["filter"] = None

IInv ==
  /\ TypeOK /\ \A s \in Emitters : Carries(s)
  /\ Started /\ (Top # "dns" => Extending)
  /\ \A m \in Mixers : Mixing(m)
  /\ Choosing /\ Filtering

\* What userPolicyRemoveNilEntries leaves are tactics.
LEMMA UserTacticsType ==
  ASSUME TypeOK PROVE UserTactics \in Seq(Tactic)
<1>1. PICK s \in Seq(Tactic \union {None}) : s = in.user
  BY PolicyAssumption DEF TypeOK
<1>2. PICK n \in Nat : n = Len(s)
  OBVIOUS
<1>3. PICK S : S = Seq(Tactic)
  OBVIOUS
<1>4. PICK first \in S : first = <<>>
  <2>1. \A U : <<>> \in Seq(U)
    OBVIOUS
  <2> QED
    BY <1>3, <2>1
<1> DEFINE Step(k, x) == IF s[k] = None THEN x ELSE Append(x, s[k])
           Eq(h) == h = [k \in 0..n |-> IF k = 0 THEN first ELSE Step(k, h[k - 1])]
<1>5. PICK f : UserTactics = f[n] /\ f = CHOOSE h : Eq(h)
  BY <1>1, <1>2, <1>4 DEF UserTactics
<1>6. ASSUME NEW k \in 1..n, NEW x \in S PROVE Step(k, x) \in S
  <2>1. s[k] \in Tactic \union {None}
    BY <1>2
  <2> QED
    BY <1>3, <2>1
<1> HIDE DEF Step
<1>7. PICK Body \in [1..n -> [S -> S]] : \A k \in 1..n, x \in S : Body[k][x] = Step(k, x)
  <2>1. [k \in 1..n |-> [x \in S |-> Step(k, x)]] \in [1..n -> [S -> S]]
    BY <1>6
  <2> QED
    BY <2>1
<1>8. ASSUME NEW g \in [0..n -> S], Runs(g, first, n, Body)
      PROVE  Solves(f, S, first, n, Body)
  <2>1. Eq(g)
    <3>1. \A k \in 1..n : g[k - 1] \in S
      OBVIOUS
    <3> QED
      BY <3>1, <1>7, <1>8 DEF Runs
  <2>2. Eq(f)
    <3> HIDE DEF Eq
    <3> QED
      BY <2>1, <1>5
  <2> QED
    BY <2>2, <1>7 DEF Solves
<1> HIDE DEF Eq
<1>9. f \in [0..n -> S]
  BY <1>8, LoopSolved
<1> QED
  BY <1>3, <1>5, <1>9

\* The inputs have their types.
LEMMA InputTypes ==
  ASSUME TypeOK
  PROVE  /\ in.proxy \in BOOLEAN /\ in.hasUser \in BOOLEAN /\ in.isTH \in BOOLEAN
         /\ in.factor \in Nat /\ in.snis \in Seq(Seq(SNIs)) /\ Len(in.dns) <= Len(in.snis)
         /\ UserTactics \in Seq(Tactic)
         /\ \A s \in Sources : Items(s) \in Seq(Tactic)
         /\ Items("dns") = in.dns \/ Items("dns") = <<>>
         /\ Quota \in Nat \ {0} /\ None \notin Tactic
<1>1. in \in [proxy : BOOLEAN, hasUser : BOOLEAN, isTH : BOOLEAN, factor : Nat,
              snis : Seq(Seq(SNIs)), user : Seq(Tactic \union {None}), dns : Seq(Tactic),
              stats : Seq(Tactic), bridges : Seq(Tactic)]
  BY PolicyAssumption DEF TypeOK
<1>2. Len(in.dns) <= Len(in.snis) /\ None \notin Tactic
  BY PolicyAssumption DEF TypeOK
<1>3. in["dns"] = in.dns /\ in["stats"] = in.stats /\ in["bridges"] = in.bridges
  BY <1>1
<1>4. \A s \in Sources \ {"user"} : in[s] \in Seq(Tactic)
  BY <1>1 DEF Sources
<1>5. <<>> \in Seq(Tactic) /\ UserTactics \in Seq(Tactic)
  BY UserTacticsType
<1>6. \A s \in Sources : \/ s = "user" /\ Items(s) = UserTactics
                         \/ s # "user" /\ (Items(s) = in[s] \/ Items(s) = <<>>)
  BY DEF Items
<1>7. Quota \in Nat \ {0}
  BY <1>1 DEF Quota, AtLeastOne
<1> QED
  BY <1>1, <1>2, <1>3, <1>4, <1>5, <1>6, <1>7 DEF Sources

\* The tactics that testHelpersPolicy adds.
LEMMA VariantsTypes ==
  ASSUME TypeOK
  PROVE  /\ \A k \in 0..Len(Items("dns")) : VariantsOf(k) \in Seq(Tactic)
         /\ VariantsOf(0) = <<>>
         /\ \A k \in 1..Len(Items("dns")) :
              VariantsOf(k) = IF in.isTH THEN VariantsOf(k - 1) \o Row(Items("dns"), in.snis, k) ELSE <<>>
         /\ Extended = Items("dns") \o VariantsOf(Len(Items("dns")))
         /\ Extended \in Seq(Tactic)
<1> DEFINE c == Items("dns")
<1>1. /\ c \in Seq(Tactic) /\ in.snis \in Seq(Seq(SNIs)) /\ Len(c) <= Len(in.snis)
      /\ Len(c) \in Nat /\ in.isTH \in BOOLEAN
  <2>1. /\ c \in Seq(Tactic) /\ in.snis \in Seq(Seq(SNIs)) /\ in.isTH \in BOOLEAN
        /\ c = in.dns \/ c = <<>>
        /\ Len(in.dns) <= Len(in.snis)
    BY InputTypes DEF Sources
  <2> QED
    BY <2>1
<1> HIDE DEF c
<1>2. CASE in.isTH
  <2>1. PICK f : f = Variants(c, in.snis)
    OBVIOUS
  <2>2. /\ f \in [0..Len(c) -> Seq(Tactic)] /\ f[0] = <<>>
        /\ \A k \in 1..Len(c) :
             f[k] = f[k - 1] \o Row(c, in.snis, k)
    <3>1. PICK child \in Seq(Tactic) : child = c
      BY <1>1
    <3>2. PICK snis \in Seq(Seq(SNIs)) : snis = in.snis
      BY <1>1
    <3>3. Len(child) <= Len(snis) /\ f = Variants(child, snis)
      BY <1>1, <2>1, <3>1, <3>2
    <3>4. /\ f \in [0..Len(child) -> Seq(Tactic)] /\ f[0] = <<>>
          /\ \A k \in 1..Len(child) :
               f[k] = f[k - 1] \o Row(child, snis, k)
      BY <3>3, VariantsLoop
    <3> QED
      BY <3>1, <3>2, <3>4
  <2>3. \A k : VariantsOf(k) = f[k]
    BY <1>2, <2>1 DEF VariantsOf, c
  <2>4. \A k \in 1..Len(c) : VariantsOf(k) = VariantsOf(k - 1) \o Row(Items("dns"), in.snis, k)
    BY <2>2, <2>3 DEF c
  <2>5. Extended = c \o VariantsOf(Len(c))
    BY <1>2, <2>1, <2>3 DEF Extended, WithOtherSNIs, c
  <2>6. \A k \in 0..Len(c) : VariantsOf(k) \in Seq(Tactic)
    BY <2>2, <2>3
  <2>7. VariantsOf(Len(c)) \in Seq(Tactic)
    BY <1>1, <2>6
  <2>8. Extended \in Seq(Tactic)
    BY <1>1, <2>5, <2>7
  <2> QED
    BY <1>1, <1>2, <2>2, <2>3, <2>4, <2>5, <2>6, <2>8 DEF c
<1>3. CASE ~in.isTH
  <2>1. \A k : VariantsOf(k) = <<>>
    BY <1>3 DEF VariantsOf
  <2>2. Extended = c
    BY <1>3 DEF Extended, c
  <2>3. c \o <<>> = c
    BY <1>1
  <2>4. <<>> \in Seq(Tactic)
    OBVIOUS
  <2>5. Extended = c \o VariantsOf(Len(c))
    BY <2>1, <2>2, <2>3
  <2> QED
    BY <1>1, <1>3, <2>1, <2>2, <2>4, <2>5 DEF c
<1> QED
  BY <1>1, <1>2, <1>3

\* The streams are sequences, and those of the mixers have the items of both sides.
LEMMA StreamTypes ==
  ASSUME TypeOK
  PROVE  /\ \A s \in Emitters : \E T : Stream(s) \in Seq(T)
         /\ \A m \in Mixers : Merges(Quota, Stream(m), Stream(Primary(m)), Stream(Fallback(m)))
<1>1. /\ in.factor \in Nat /\ \A s \in Sources : Items(s) \in Seq(Tactic)
      /\ UserTactics \in Seq(Tactic) /\ in.stats \in Seq(Tactic) /\ in.bridges \in Seq(Tactic)
  <2>1. /\ in.factor \in Nat /\ UserTactics \in Seq(Tactic)
        /\ \A s \in Sources : Items(s) \in Seq(Tactic)
    BY InputTypes
  <2>2. in \in [proxy : BOOLEAN, hasUser : BOOLEAN, isTH : BOOLEAN, factor : Nat,
              snis : Seq(Seq(SNIs)), user : Seq(Tactic \union {None}), dns : Seq(Tactic),
              stats : Seq(Tactic), bridges : Seq(Tactic)]
    BY PolicyAssumption DEF TypeOK
  <2> QED
    BY <2>1, <2>2
<1>2. Extended \in Seq(Tactic)
  BY VariantsTypes
<1>3. ASSUME NEW T, NEW U, NEW p \in Seq(T), NEW f \in Seq(U), NEW s, s = Interleaved(p, f, in.factor)
      PROVE  (\E V : s \in Seq(V)) /\ Merges(Quota, s, p, f)
  <2>1. PICK factor \in Nat : factor = in.factor
    BY <1>1
  <2>2. PICK n : n = AtLeastOne(factor)
    OBVIOUS
  <2>3. s = Interleaved(p, f, factor)
    BY <1>3, <2>1
  <2>4. (\E V : s \in Seq(V)) /\ Merges(n, s, p, f)
    BY <2>2, <2>3, InterleavedMerges
  <2>5. n = Quota
    BY <2>1, <2>2 DEF Quota
  <2> QED
    BY <2>4, <2>5
<1>4. /\ Stream("inner") = Interleaved(in.stats, in.bridges, in.factor)
      /\ Stream("stats") = in.stats /\ Stream("bridges") = in.bridges
      /\ Stream("outer") = Interleaved(Extended, Stream("inner"), in.factor)
      /\ Stream("th") = Extended
      /\ Stream("either") = IF UserTactics # <<>> THEN UserTactics ELSE Stream("outer")
      /\ \A s \in Sources : Stream(s) = Items(s)
  BY DEF Stream, Mixed, Sources, Items, EitherOr
<1>5. /\ \E V : Stream("inner") \in Seq(V)
      /\ Merges(Quota, Stream("inner"), in.stats, in.bridges)
  <2>1. PICK p \in Seq(Tactic), f \in Seq(Tactic) : p = in.stats /\ f = in.bridges
    BY <1>1
  <2>2. PICK s : s = Stream("inner")
    OBVIOUS
  <2>3. s = Interleaved(p, f, in.factor)
    BY <2>1, <2>2, <1>4
  <2> QED
    BY <2>1, <2>2, <2>3, <1>3
<1>6. /\ \E V : Stream("outer") \in Seq(V)
      /\ Merges(Quota, Stream("outer"), Extended, Stream("inner"))
  <2>1. PICK V : Stream("inner") \in Seq(V)
    BY <1>5
  <2>2. PICK p \in Seq(Tactic), f \in Seq(V) : p = Extended /\ f = Stream("inner")
    BY <2>1, <1>2
  <2>3. PICK s : s = Stream("outer")
    OBVIOUS
  <2>4. s = Interleaved(p, f, in.factor)
    BY <2>2, <2>3, <1>4
  <2> QED
    BY <2>2, <2>3, <2>4, <1>3
<1>7. \A m \in Mixers : Merges(Quota, Stream(m), Stream(Primary(m)), Stream(Fallback(m)))
  BY <1>4, <1>5, <1>6 DEF Mixers, Primary, Fallback
<1>8. ASSUME NEW s \in Emitters PROVE \E T : Stream(s) \in Seq(T)
  <2>1. CASE s \in Sources
    BY <1>1, <1>4, <2>1
  <2>2. CASE s = "either"
    BY <1>1, <1>4, <1>6, <2>2
  <2> QED
    BY <1>2, <1>4, <1>5, <1>6, <2>1, <2>2 DEF Emitters, Stages, Mixers
<1> QED
  BY <1>7, <1>8

-----------------------------------------------------------------------------
\* The types of the state, in the form that the steps below use.
LEMMA StateTypes ==
  ASSUME IInv
  PROVE  /\ \A s \in Stages : /\ sent[s] \in Nat /\ slot[s] \in Tactic \union {None}
                              /\ closed[s] \in BOOLEAN
         /\ \A s \in Emitters : /\ s \in Stages /\ Len(Stream(s)) \in Nat
                                /\ Got(s) \in 0..Len(Stream(s)) /\ Carries(s)
         /\ Top \in {"dns", "outer", "either"} /\ Top \in Emitters
         /\ Quota \in Nat \ {0} /\ None \notin Tactic
<1>1. \A s \in Stages : /\ sent[s] \in Nat /\ slot[s] \in Tactic \union {None}
                        /\ closed[s] \in BOOLEAN
  BY DEF IInv, TypeOK
<1>2. TypeOK /\ \A s \in Emitters : Carries(s)
  BY DEF IInv
<1>3. ASSUME NEW s \in Emitters
      PROVE  s \in Stages /\ Len(Stream(s)) \in Nat /\ Got(s) \in 0..Len(Stream(s))
  <2>1. s \in Stages
    BY DEF Emitters
  <2>2. PICK T : Stream(s) \in Seq(T)
    BY <1>2, StreamTypes
  <2>3. Len(Stream(s)) \in Nat
    BY <2>2
  <2> QED
    BY <1>1, <1>2, <2>1, <2>3 DEF Carries, Got, Held
<1>4. Top \in {"dns", "outer", "either"} /\ Top \in Emitters
  BY DEF Top, Emitters, Stages, Mixers, Sources
<1>5. Quota \in Nat \ {0} /\ None \notin Tactic
  BY <1>2, InputTypes
<1> QED
  BY <1>1, <1>2, <1>3, <1>4, <1>5

\* The user's tactics depend on the inputs only.
LEMMA SameUser ==
  ASSUME UNCHANGED in PROVE UserTactics' = UserTactics
  BY DEF UserTactics

\* The streams depend on the inputs, and on whether the DNS lookup was skipped.
LEMMA SameStreams ==
  ASSUME UNCHANGED <<in, dnsDone>>
  PROVE  /\ \A s : Items(s)' = Items(s) /\ Stream(s)' = Stream(s)
         /\ Top' = Top /\ Quota' = Quota /\ \A k : VariantsOf(k)' = VariantsOf(k)
         /\ Extended' = Extended
<1>1. in' = in /\ dnsDone' = dnsDone
  OBVIOUS
<1>2. \A s : Items(s)' = Items(s)
  BY <1>1, SameUser DEF Items
<1>3. Extended' = Extended
  BY <1>1, <1>2 DEF Extended
<1>4. Mixed' = Mixed
  BY <1>1 DEF Mixed
<1>5. \A s : Stream(s)' = Stream(s)
  BY <1>1, <1>2, <1>3, <1>4, SameUser DEF Stream
<1>6. Top' = Top /\ Quota' = Quota
  BY <1>1 DEF Top, Quota
<1>7. \A k : VariantsOf(k)' = VariantsOf(k)
  BY <1>1, <1>2 DEF VariantsOf
<1> QED
  BY <1>2, <1>3, <1>5, <1>6, <1>7

-----------------------------------------------------------------------------
\* What a step may do to the channel of a stage: nothing, send the next tactic of the
\* stream, give the tactic that it holds to the next stage, close after the last one.
Keeps(s) == slot'[s] = slot[s] /\ sent'[s] = sent[s] /\ closed'[s] = closed[s]
Sends(s) ==
  /\ slot[s] = None /\ ~closed[s] /\ sent[s] < Len(Stream(s))
  /\ slot'[s] = Stream(s)[sent[s] + 1] /\ slot'[s] # None
  /\ sent'[s] = sent[s] + 1 /\ closed'[s] = closed[s]
Gives(s) == slot[s] # None /\ slot'[s] = None /\ sent'[s] = sent[s] /\ closed'[s] = closed[s]
Closes(s) ==
  /\ slot[s] = None /\ slot'[s] = None /\ sent'[s] = sent[s] /\ sent[s] = Len(Stream(s))
  /\ closed'[s] = TRUE

\* The reader of stage s sees no change, or its end.
Steady(s) == Got(s)' = Got(s) /\ (AtEOF(s) => AtEOF(s)')

\* Whatever a stage does, it keeps to its stream.
LEMMA ChannelStep ==
  ASSUME IInv, NEW s \in Emitters, Stream(s)' = Stream(s),
         Keeps(s) \/ Sends(s) \/ Gives(s) \/ Closes(s)
  PROVE  /\ Carries(s)'
         /\ ~Gives(s) => Steady(s)
         /\ Gives(s) => Got(s)' = Got(s) + 1 /\ Got(s) + 1 = sent[s] /\ slot[s] = Stream(s)[sent[s]]
                        /\ ~closed[s]
<1>1. sent[s] \in Nat /\ Len(Stream(s)) \in Nat /\ closed[s] \in BOOLEAN
  BY StateTypes
<1>2. /\ sent[s] <= Len(Stream(s))
      /\ slot[s] # None => sent[s] > 0 /\ slot[s] = Stream(s)[sent[s]]
      /\ closed[s] => slot[s] = None /\ sent[s] = Len(Stream(s))
  BY StateTypes DEF Carries
<1>3. PICK q : q = Stream(s) /\ Stream(s)' = q
  OBVIOUS
<1>4. CASE Keeps(s)
  BY <1>1, <1>2, <1>3, <1>4 DEF Keeps, Gives, Carries, Steady, Got, Held, AtEOF
<1>5. CASE Sends(s)
  BY <1>1, <1>2, <1>3, <1>5 DEF Sends, Gives, Carries, Steady, Got, Held, AtEOF
<1>6. CASE Gives(s)
  BY <1>1, <1>2, <1>3, <1>6 DEF Gives, Carries, Got, Held
<1>7. CASE Closes(s)
  BY <1>1, <1>2, <1>3, <1>7 DEF Closes, Gives, Carries, Steady, Got, Held, AtEOF
<1> QED
  BY <1>4, <1>5, <1>6, <1>7

\* Only stages that run do anything.
LEMMA StartedKept ==
  ASSUME IInv, UNCHANGED <<in, dnsDone, spawned, either>>,
         \A s \in Stages : Keeps(s) \/ (s \in spawned /\ (s = "dns" => dnsDone # "pending"))
  PROVE  Started'
<1>1. Top' = Top
  BY SameStreams
<1>2. /\ spawned' = spawned /\ either' = either /\ dnsDone' = dnsDone
      /\ spawned = {"filter"} \union
           (IF Top = "dns" THEN {"dns"}
            ELSE IF Top = "outer" THEN Composed
            ELSE {"either", "user"} \union (IF either = "outer" THEN Composed ELSE {}))
      /\ \A s \in Stages \ spawned : Idle(s)
      /\ dnsDone = "pending" => Idle("dns")
      /\ dnsDone # "pending" => "dns" \in spawned
  BY DEF IInv, Started
<1>3. \A s : Keeps(s) /\ Idle(s) => Idle(s)'
  BY DEF Keeps, Idle
<1>4. \A s \in Stages \ spawned : Idle(s)'
  BY <1>2, <1>3
<1>5. dnsDone = "pending" => Idle("dns")'
  <2>1. "dns" \in Stages
    BY DEF Stages, Sources
  <2> QED
    BY <1>2, <1>3, <2>1
<1> QED
  BY <1>1, <1>2, <1>4, <1>5 DEF Started

\* A mixer that takes nothing stays where it is, or closes after both sides.
LEMMA MixingKept ==
  ASSUME IInv, NEW m \in Mixers, Steady(Primary(m)), Steady(Fallback(m)), Quota' = Quota,
         Stream(Primary(m))' = Stream(Primary(m)), Stream(Fallback(m))' = Stream(Fallback(m)),
         mix'[m] = mix[m], sent'[m] = sent[m],
         closed'[m] = closed[m] \/ mix[m].drained = {"p", "f"}
  PROVE  Mixing(m)'
<1>1. PICK P, F : P = Primary(m) /\ F = Fallback(m)
  OBVIOUS
<1>2. /\ Got(P)' = Got(P) /\ Got(F)' = Got(F)
      /\ AtEOF(P) => AtEOF(P)'
      /\ AtEOF(F) => AtEOF(F)'
      /\ Stream(P)' = Stream(P) /\ Stream(F)' = Stream(F)
  BY <1>1 DEF Steady
<1>3. /\ sent[m] = Got(P) + Got(F)
      /\ mix[m].side \in mix[m].drained => mix[m].taken = 0
      /\ "p" \in mix[m].drained => AtEOF(P)
      /\ "f" \in mix[m].drained => AtEOF(F)
      /\ closed[m] => mix[m].drained = {"p", "f"}
      /\ \E r \in Nat : AfterRounds(m, r)
  BY <1>1 DEF IInv, Mixing
<1>4. \A r \in Nat : AfterRounds(m, r) => AfterRounds(m, r)'
  BY <1>1, <1>2 DEF AfterRounds
<1> QED
  BY <1>1, <1>2, <1>3, <1>4 DEF Mixing

\* So does testHelpersPolicy.
LEMMA ExtendingKept ==
  ASSUME IInv, Top' = Top, \A k : VariantsOf(k)' = VariantsOf(k), Steady("dns"),
         todo' = todo, sent'["th"] = sent["th"],
         closed'["th"] = closed["th"] \/ (AtEOF("dns") /\ todo = <<>>)
  PROVE  (Top # "dns" => Extending)'
<1> SUFFICES ASSUME Top # "dns" PROVE Extending'
  OBVIOUS
<1>1. Extending
  BY DEF IInv
<1>2. PICK k : k = Got("dns") /\ Got("dns")' = k
  BY DEF Steady
<1>3. PICK v : v = VariantsOf(k) /\ VariantsOf(k)' = v
  OBVIOUS
<1>4. VariantsOf(Got("dns")) = v /\ VariantsOf(Got("dns"))' = v
  BY <1>2, <1>3
<1>5. AtEOF("dns") => AtEOF("dns")'
  BY DEF Steady
<1> QED
  BY <1>1, <1>2, <1>4, <1>5 DEF Extending

\* So does mixPolicyEitherOr.
LEMMA ChoosingKept ==
  ASSUME IInv, UNCHANGED <<in, dnsDone, either, count>>, Steady(either), Steady("user"),
         sent'["either"] = sent["either"],
         closed'["either"] = closed["either"] \/ (AtEOF(either) /\ (either = "outer" \/ count > 0))
  PROVE  Choosing'
<1>1. Choosing
  BY DEF IInv
<1>2. PICK e : e = either /\ either' = e
  OBVIOUS
<1>3. Got(e)' = Got(e) /\ (AtEOF(e) => AtEOF(e)') /\ Got("user")' = Got("user")
  BY <1>2 DEF Steady
<1>4. Top' = Top
  BY SameStreams
<1>5. Got(either)' = Got(either) /\ (AtEOF(either) => AtEOF(either)')
  BY <1>2, <1>3
<1> QED
  BY <1>1, <1>3, <1>4, <1>5, SameUser DEF Choosing

\* So do the filters.
LEMMA FilteringKept ==
  ASSUME IInv, Steady(Top), Top' = Top, Stream(Top)' = Stream(Top), out' = out,
         slot'["filter"] = slot["filter"], closed'["filter"] = closed["filter"] \/ AtEOF(Top)
  PROVE  Filtering'
<1>1. Filtering
  BY DEF IInv
<1>2. PICK t : t = Top /\ Top' = t
  OBVIOUS
<1>3. /\ Got(t)' = Got(t)
      /\ AtEOF(t) => AtEOF(t)'
      /\ Stream(t)' = Stream(t)
  BY <1>2 DEF Steady
<1>4. /\ Got(Top)' = Got(Top)
      /\ AtEOF(Top) => AtEOF(Top)'
      /\ Stream(Top)' = Stream(Top)
  BY <1>2, <1>3
<1> QED
  BY <1>1, <1>4 DEF Filtering

-----------------------------------------------------------------------------
\* The stages, and who reads them.
LEMMA Readers ==
  ASSUME NEW m \in Mixers
  PROVE  /\ Primary(m) \in Emitters /\ Fallback(m) \in Emitters /\ m \in Emitters
         /\ Primary(m) # Fallback(m) /\ Primary(m) # m /\ Fallback(m) # m
         /\ Primary(m) \in {"th", "stats"} /\ Fallback(m) \in {"inner", "bridges"}
         /\ Upstream(m) \in {Primary(m), Fallback(m)}
  BY DEF Primary, Fallback, Upstream, Mixers, Emitters, Stages, Sources

\* A source sends or closes, or another stage closes: nobody has got more than before.
LEMMA QuietStep ==
  ASSUME IInv, TypeOK', NEW s \in Emitters, s \in spawned, s = "dns" => dnsDone # "pending",
         UNCHANGED <<in, spawned, dnsDone, mix, todo, count, either, out>>,
         \A u \in Stages \ {s} : Keeps(u),
         (s \in Sources /\ Sends(s)) \/ Closes(s),
         s \in Mixers => mix[s].drained = {"p", "f"},
         s = "th" => AtEOF("dns") /\ todo = <<>>,
         s = "either" => AtEOF(either) /\ (either = "outer" \/ count > 0)
  PROVE  IInv'
<1>1. /\ Top' = Top /\ Quota' = Quota /\ \A k : VariantsOf(k)' = VariantsOf(k)
      /\ \A u : Stream(u)' = Stream(u)
  BY SameStreams
<1>2. ~Gives(s) /\ \A u \in Emitters \ {s} : ~Gives(u)
  BY DEF Sends, Closes, Keeps, Gives, Emitters
<1>3. \A u \in Emitters : Keeps(u) \/ Sends(u) \/ Gives(u) \/ Closes(u)
  BY DEF Emitters
<1>4. \A u \in Emitters : Carries(u)' /\ Steady(u)
  BY <1>1, <1>2, <1>3, ChannelStep
<1>5. Started'
  BY StartedKept
<1>6. s \notin {"th", "either"} \cup Mixers \/ sent'[s] = sent[s]
  BY DEF Closes, Sources, Mixers
<1>7. \A u \in Emitters : u = s \/ (sent'[u] = sent[u] /\ closed'[u] = closed[u])
  BY DEF Keeps, Emitters
<1>8. (Top # "dns" => Extending)'
  <2>1. {"dns", "th"} \subseteq Emitters
    BY DEF Emitters, Stages, Sources
  <2> QED
    BY <1>1, <1>4, <1>6, <1>7, <2>1, ExtendingKept
<1>9. ASSUME NEW m \in Mixers PROVE Mixing(m)'
  <2>1. Primary(m) \in Emitters /\ Fallback(m) \in Emitters /\ m \in Emitters
    BY Readers
  <2>2. mix'[m] = mix[m] /\ sent'[m] = sent[m] /\ (closed'[m] = closed[m] \/ mix[m].drained = {"p", "f"})
    BY <1>6, <1>7, <2>1
  <2> QED
    BY <1>1, <1>4, <2>1, <2>2, MixingKept
<1>10. Choosing'
  <2>1. {"user", "outer", "either"} \subseteq Emitters /\ either \in {"user", "outer"}
    BY DEF Emitters, Stages, Sources, Mixers, IInv, TypeOK
  <2> QED
    BY <1>4, <1>6, <1>7, <2>1, ChoosingKept
<1>11. Filtering'
  <2>1. Top \in Emitters
    BY StateTypes
  <2>2. Keeps("filter")
    BY DEF Emitters, Stages
  <2> QED
    BY <1>1, <1>4, <2>1, <2>2, FilteringKept DEF Keeps
<1> QED
  BY <1>4, <1>5, <1>8, <1>9, <1>10, <1>11 DEF IInv

-----------------------------------------------------------------------------
\* A source sends its next tactic.
LEMMA SourceSendStep ==
  ASSUME IInv, NEW s \in Sources, SourceSend(s) PROVE IInv'
<1>1. TypeOK /\ Items(s) \in Seq(Tactic) /\ Stream(s) = Items(s) /\ None \notin Tactic
  BY InputTypes DEF IInv, Stream
<1>2. /\ s \in spawned /\ ~closed[s] /\ slot[s] = None
      /\ s = "dns" => dnsDone # "pending"
      /\ sent[s] < Len(Items(s))
      /\ sent' = [sent EXCEPT ![s] = sent[s] + 1]
      /\ slot' = [slot EXCEPT ![s] = Items(s)[sent[s] + 1]]
      /\ UNCHANGED <<in, spawned, closed, dnsDone, mix, todo, count, either, ctxDone, out>>
  BY DEF SourceSend, Ready, Free
<1>3. sent \in [Stages -> Nat] /\ slot \in [Stages -> Tactic \union {None}] /\ s \in Stages /\ s \in Emitters
  BY <1>1 DEF TypeOK, Stages, Emitters, Sources
<1>4. Items(s)[sent[s] + 1] \in Tactic
  BY <1>1, <1>2, <1>3
<1>5. TypeOK'
  <2>1. sent' \in [Stages -> Nat] /\ slot' \in [Stages -> Tactic \union {None}]
    BY <1>2, <1>3, <1>4
  <2>2. Quota' = Quota
    BY <1>2, SameStreams
  <2> QED
    BY <1>1, <1>2, <2>1, <2>2 DEF TypeOK
<1>6. Sends(s)
  BY <1>1, <1>2, <1>3, <1>4 DEF Sends
<1>7. \A u \in Stages \ {s} : Keeps(u)
  BY <1>2, <1>3 DEF Keeps
<1>8. s \notin Mixers /\ s # "th" /\ s # "either"
  BY DEF Sources, Mixers
<1> QED
  BY <1>2, <1>3, <1>5, <1>6, <1>7, <1>8, QuietStep

\* A stage that closes its channel when it has sent all of its stream.
LEMMA CloseStep ==
  ASSUME IInv, NEW s \in Emitters, Free(s), s = "dns" => dnsDone # "pending", CloseOutput(s),
         UNCHANGED <<in, spawned, sent, dnsDone, mix, todo, count, either, ctxDone, out>>,
         sent[s] = Len(Stream(s)),
         s \in Mixers => mix[s].drained = {"p", "f"},
         s = "th" => AtEOF("dns") /\ todo = <<>>,
         s = "either" => AtEOF(either) /\ (either = "outer" \/ count > 0)
  PROVE  IInv'
<1>1. /\ s \in spawned /\ ~closed[s] /\ slot[s] = None /\ slot' = slot
      /\ closed' = [closed EXCEPT ![s] = TRUE]
  BY DEF Free, CloseOutput
<1>2. TypeOK /\ closed \in [Stages -> BOOLEAN] /\ s \in Stages
  BY DEF IInv, TypeOK, Emitters
<1>3. TypeOK'
  <2>1. closed' \in [Stages -> BOOLEAN]
    BY <1>1, <1>2
  <2>2. Quota' = Quota
    BY SameStreams
  <2> QED
    BY <1>1, <1>2, <2>1, <2>2 DEF TypeOK
<1>4. Closes(s)
  BY <1>1, <1>2 DEF Closes
<1>5. \A u \in Stages \ {s} : Keeps(u)
  BY <1>1, <1>2 DEF Keeps
<1> QED
  BY <1>1, <1>3, <1>4, <1>5, QuietStep

\* A source closes after its last tactic.
LEMMA SourceCloseStep ==
  ASSUME IInv, NEW s \in Sources, SourceClose(s) PROVE IInv'
<1>1. /\ Free(s)
      /\ s = "dns" => dnsDone # "pending"
      /\ sent[s] = Len(Items(s)) /\ CloseOutput(s)
      /\ UNCHANGED <<in, spawned, sent, dnsDone, mix, todo, count, either, ctxDone, out>>
  BY DEF SourceClose, Ready
<1>2. s \in Emitters /\ s \notin Mixers /\ s # "th" /\ s # "either" /\ Stream(s) = Items(s)
  BY DEF Sources, Mixers, Emitters, Stages, Stream
<1> QED
  BY <1>1, <1>2, CloseStep

\* A mixer closes when it has got all of both sides.
LEMMA MixCloseStep ==
  ASSUME IInv, NEW m \in Mixers, MixClose(m) PROVE IInv'
<1>1. /\ Free(m) /\ mix[m].drained = {"p", "f"} /\ CloseOutput(m)
      /\ UNCHANGED <<in, spawned, sent, dnsDone, mix, todo, count, either, ctxDone, out>>
  BY DEF MixClose
<1>2. PICK P, F : P = Primary(m) /\ F = Fallback(m)
  OBVIOUS
<1>3. sent[m] = Got(P) + Got(F) /\ \E r \in Nat : AfterRounds(m, r)
  BY <1>2 DEF IInv, Mixing
<1>4. Got(P) = Len(Stream(P)) /\ Got(F) = Len(Stream(F))
  BY <1>1, <1>2, <1>3 DEF AfterRounds, Read
<1>5. Len(Stream(m)) = Len(Stream(P)) + Len(Stream(F))
  <2>1. Merges(Quota, Stream(m), Stream(P), Stream(F))
    BY <1>2, StreamTypes DEF IInv
  <2> QED
    BY <2>1 DEF Merges
<1>6. m \in Emitters /\ m # "dns" /\ m # "th" /\ m # "either"
  BY DEF Mixers, Emitters, Stages, Sources
<1> QED
  BY <1>1, <1>3, <1>4, <1>5, <1>6, CloseStep

\* At the end of the input, the reader has got all of it.
LEMMA EndOfStream ==
  ASSUME IInv, NEW s \in Emitters, AtEOF(s)
  PROVE  Got(s) = Len(Stream(s)) /\ sent[s] = Got(s) /\ closed[s]
<1>1. Carries(s) /\ sent[s] \in Nat
  BY StateTypes
<1> QED
  BY <1>1 DEF Carries, AtEOF, Got, Held

\* Which goroutines run under which policy; one that has done something runs.
LEMMA WhoRuns ==
  ASSUME IInv
  PROVE  /\ "th" \in spawned => Top # "dns"
         /\ "either" \in spawned => Top = "either"
         /\ "outer" \in spawned /\ Top = "either" => either = "outer"
         /\ either = "outer" => Top = "either" /\ UserTactics = <<>>
         /\ \A s \in Stages : slot[s] # None \/ closed[s] \/ sent[s] # 0 => s \in spawned
<1>1. Started /\ Choosing
  BY DEF IInv
<1>2. Top \in {"dns", "outer", "either"}
  BY StateTypes
<1>3. \A s \in Stages \ spawned : Idle(s)
  BY <1>1 DEF Started
<1>4. \A s \in Stages : slot[s] # None \/ closed[s] \/ sent[s] # 0 => s \in spawned
  BY <1>3 DEF Idle
<1>5. spawned = {"filter"} \union
       (IF Top = "dns" THEN {"dns"}
        ELSE IF Top = "outer" THEN Composed
        ELSE {"either", "user"} \union (IF either = "outer" THEN Composed ELSE {}))
  BY <1>1 DEF Started
<1>6. either = "outer" => Top = "either" /\ UserTactics = <<>>
  BY <1>1 DEF Choosing
<1> QED
  BY <1>2, <1>4, <1>5, <1>6 DEF Composed

\* testHelpersPolicy closes after the last variant.
LEMMA THCloseStep ==
  ASSUME IInv, THClose PROVE IInv'
<1>1. /\ Free("th") /\ AtEOF("dns") /\ todo = <<>> /\ CloseOutput("th")
      /\ UNCHANGED <<in, spawned, sent, dnsDone, mix, todo, count, either, ctxDone, out>>
  BY DEF THClose
<1>2. {"dns", "th"} \subseteq Emitters /\ "th" \notin Mixers
  BY DEF Emitters, Stages, Sources, Mixers
<1>3. Extending /\ TypeOK
  BY <1>1, WhoRuns DEF IInv, Free
<1>4. Got("dns") = Len(Items("dns"))
  <2>1. Stream("dns") = Items("dns")
    BY DEF Stream, Sources
  <2> QED
    BY <1>1, <1>2, <2>1, EndOfStream
<1>5. PICK v : v = VariantsOf(Len(Items("dns")))
  OBVIOUS
<1>6. v \in Seq(Tactic) /\ Items("dns") \in Seq(Tactic) /\ Stream("th") = Items("dns") \o v
  <2>1. Extended = Items("dns") \o v /\ v \in Seq(Tactic) /\ Items("dns") \in Seq(Tactic)
    <3>1. Items("dns") \in Seq(Tactic)
      BY <1>3, InputTypes DEF Sources
    <3>2. Len(Items("dns")) \in 0..Len(Items("dns"))
      BY <3>1
    <3> QED
      BY <1>3, <1>5, <3>1, <3>2, VariantsTypes
  <2>2. Stream("th") = Extended
    BY DEF Stream, Sources
  <2> QED
    BY <2>1, <2>2
<1>7. sent["th"] = Len(Items("dns")) + Len(v)
  <2>1. sent["th"] = Got("dns") + (Len(v) - Len(todo))
    BY <1>3, <1>4, <1>5 DEF Extending
  <2>2. Len(todo) = 0 /\ Len(v) \in Nat
    BY <1>1, <1>6
  <2> QED
    BY <1>4, <2>1, <2>2
<1>8. sent["th"] = Len(Stream("th"))
  BY <1>6, <1>7
<1> QED
  BY <1>1, <1>2, <1>8, CloseStep

\* mixPolicyEitherOr closes after the side that it chose.
LEMMA EitherCloseStep ==
  ASSUME IInv, EitherClose PROVE IInv'
<1>1. /\ Free("either") /\ AtEOF(either) /\ (either = "outer" \/ count > 0) /\ CloseOutput("either")
      /\ UNCHANGED <<in, spawned, sent, dnsDone, mix, todo, count, either, ctxDone, out>>
  BY DEF EitherClose, PrimaryWorked
<1>2. {"user", "outer", "either"} \subseteq Emitters /\ "either" \notin Mixers
  BY DEF Emitters, Stages, Sources, Mixers
<1>3. Choosing /\ TypeOK /\ either \in {"user", "outer"}
  BY DEF IInv, TypeOK
<1>4. Got(either) = Len(Stream(either)) /\ sent["either"] = Got(either)
  BY <1>1, <1>2, <1>3, EndOfStream DEF Choosing
<1>5. Stream("either") = Stream(either)
  <2>1. Stream("either") = EitherOr(UserTactics, Stream("outer")) /\ Stream("user") = UserTactics
    BY DEF Stream, Sources, Items, Mixed
  <2>2. CASE either = "outer"
    BY <2>1, <2>2, <1>3 DEF Choosing, EitherOr
  <2>3. CASE either = "user"
    <3>1. Len(UserTactics) > 0
      BY <1>1, <1>3, <1>4, <2>1, <2>3 DEF Choosing
    <3>2. UserTactics # <<>>
      BY <3>1
    <3> QED
      BY <2>1, <2>3, <3>2 DEF EitherOr
  <2> QED
    BY <1>3, <2>2, <2>3
<1> QED
  BY <1>1, <1>2, <1>4, <1>5, CloseStep

-----------------------------------------------------------------------------
\* Stage `to` receives the next tactic of its stream from stage u.
LEMMA PassStep ==
  ASSUME IInv, NEW u \in Emitters, NEW to \in Emitters, u # to, to # "dns",
         HasItem(u), Free(to), Forward(u, to), UNCHANGED <<in, dnsDone, spawned, closed>>,
         sent[to] < Len(Stream(to)), Stream(to)[sent[to] + 1] = slot[u]
  PROVE  /\ Gives(u) /\ Sends(to) /\ \A s \in Stages \ {u, to} : Keeps(s)
         /\ slot' \in [Stages -> Tactic \union {None}] /\ sent' \in [Stages -> Nat]
         /\ \A s \in Emitters : Carries(s)'
         /\ \A s \in Emitters \ {u} : Steady(s)
         /\ Got(u)' = Got(u) + 1
         /\ either' = either => Started'
<1>1. /\ slot[u] # None /\ slot[to] = None /\ ~closed[to] /\ to \in spawned /\ closed' = closed
      /\ slot' = [slot EXCEPT ![u] = None, ![to] = slot[u]]
      /\ sent' = [sent EXCEPT ![to] = sent[to] + 1]
  BY DEF HasItem, Free, Forward
<1>2. /\ slot \in [Stages -> Tactic \union {None}] /\ sent \in [Stages -> Nat]
      /\ u \in Stages /\ to \in Stages
  BY DEF IInv, TypeOK, Emitters
<1>3. slot' \in [Stages -> Tactic \union {None}] /\ sent' \in [Stages -> Nat]
  BY <1>1, <1>2
<1>4. Gives(u)
  BY <1>1, <1>2 DEF Gives
<1>5. Sends(to)
  BY <1>1, <1>2 DEF Sends
<1>6. \A s \in Stages \ {u, to} : Keeps(s)
  BY <1>1, <1>2 DEF Keeps
<1>7. \A s \in Emitters : Stream(s)' = Stream(s)
  BY SameStreams
<1>8. \A s \in Emitters : Keeps(s) \/ Sends(s) \/ Gives(s) \/ Closes(s)
  BY <1>4, <1>5, <1>6 DEF Emitters
<1>9. \A s \in Emitters \ {u} : ~Gives(s)
  BY <1>5, <1>6 DEF Emitters, Sends, Keeps, Gives
<1>10. \A s \in Emitters : Carries(s)'
  BY <1>7, <1>8, ChannelStep
<1>11. \A s \in Emitters \ {u} : Steady(s)
  BY <1>7, <1>8, <1>9, ChannelStep
<1>12. Got(u)' = Got(u) + 1
  BY <1>4, <1>7, ChannelStep
<1>13. ASSUME either' = either PROVE Started'
  <2>1. u \in spawned
    BY <1>1, <1>2, WhoRuns
  <2>2. \A s \in {u, to} : s = "dns" => dnsDone # "pending"
    <3>1. dnsDone = "pending" => Idle("dns")
      BY DEF IInv, Started
    <3>2. u = "dns" => dnsDone # "pending"
      BY <1>1, <3>1 DEF Idle

    <3> QED
      BY <3>2
  <2> QED
    BY <1>1, <1>6, <1>13, <2>1, <2>2, StartedKept
<1> QED
  BY <1>3, <1>4, <1>5, <1>6, <1>10, <1>11, <1>12, <1>13

\* Where mixPolicyInterleave stands, and what its next tactic is.
LEMMA MixTakesNext ==
  ASSUME IInv, NEW m \in Mixers, mix[m].side \notin mix[m].drained, mix[m].taken < Quota,
         HasItem(Upstream(m))
  PROVE  sent[m] < Len(Stream(m)) /\ Stream(m)[sent[m] + 1] = slot[Upstream(m)]
<1>1. PICK P \in Emitters, F \in Emitters, u \in Emitters :
        P = Primary(m) /\ F = Fallback(m) /\ u = Upstream(m)
  BY Readers
<1>2. PICK x \in [side : {"p", "f"}, taken : 0..Quota, drained : SUBSET {"p", "f"}] : x = mix[m]
  BY DEF IInv, TypeOK
<1>3. PICK n \in Nat \ {0} : n = Quota
  BY StateTypes
<1>4. PICK p, f, s : p = Stream(P) /\ f = Stream(F) /\ s = Stream(m)
  OBVIOUS
<1>5. Merges(n, s, p, f)
  BY <1>1, <1>3, <1>4, StreamTypes DEF IInv
<1>6. PICK a \in Nat, b \in Nat : a = Len(p) /\ b = Len(f)
  BY <1>1, <1>4, StateTypes
<1>7. PICK i \in 0..a, j \in 0..b : i = Got(P) /\ j = Got(F)
  BY <1>1, <1>4, <1>6, StateTypes
<1>8. PICK r \in Nat : AfterRounds(m, r)
  BY DEF IInv, Mixing
<1>9. /\ Read("p" \in x.drained, i, a, r * n + (IF x.side = "p" THEN x.taken ELSE n))
      /\ Read("f" \in x.drained, j, b, r * n + (IF x.side = "p" THEN 0 ELSE x.taken))
  BY <1>1, <1>2, <1>3, <1>4, <1>6, <1>7, <1>8 DEF AfterRounds
<1>10. PICK c \in Nat : c = r * n
  BY <1>3
<1>11. sent[m] = i + j
  BY <1>1, <1>7 DEF IInv, Mixing
<1>12. PICK t \in Nat : t = x.taken /\ t < n /\ x.side \notin x.drained
  BY <1>2, <1>3
<1>13. slot[u] # None /\ sent[u] \in Nat /\ Carries(u) /\ Got(u) = sent[u] - 1
  <2>1. slot[u] # None /\ sent[u] \in Nat /\ Carries(u)
    BY <1>1, StateTypes DEF HasItem
  <2> QED
    BY <2>1 DEF Got, Held
<1>14. CASE x.side = "p"
  <2>1. u = P
    BY <1>1, <1>2, <1>14 DEF Upstream
  <2>2. i = r * n + t
    BY <1>9, <1>12, <1>14 DEF Read
  <2>3. i < a /\ slot[u] = p[i + 1]
    BY <2>1, <1>4, <1>6, <1>7, <1>13 DEF Carries
  <2>4. j = r * n \/ (j = b /\ b <= r * n)
    BY <1>9, <1>10, <1>14 DEF Read
  <2>5. i + j + 1 <= Len(s) /\ s[i + j + 1] = p[i + 1]
    <3>1. PrimaryDue(n, Len(p), Len(f), r, t, i, j)
      BY <1>6, <1>12, <2>2, <2>3, <2>4 DEF PrimaryDue
    <3> QED
      BY <3>1, <1>5, NextOfPrimary
  <2>6. Len(s) = a + b
    BY <1>5, <1>6 DEF Merges
  <2> QED
    BY <1>1, <1>4, <1>11, <2>3, <2>5, <2>6
<1>15. CASE x.side = "f"
  <2>1. u = F
    BY <1>1, <1>2, <1>15 DEF Upstream
  <2>2. j = r * n + t
    BY <1>9, <1>12, <1>15 DEF Read
  <2>3. j < b /\ slot[u] = f[j + 1]
    BY <2>1, <1>4, <1>6, <1>7, <1>13 DEF Carries
  <2>4. i = r * n + n \/ (i = a /\ a <= r * n + n)
    BY <1>9, <1>10, <1>15 DEF Read
  <2>5. i + j + 1 <= Len(s) /\ s[i + j + 1] = f[j + 1]
    <3>1. FallbackDue(n, Len(p), Len(f), r, t, i, j)
      BY <1>6, <1>12, <2>2, <2>3, <2>4 DEF FallbackDue
    <3> QED
      BY <3>1, <1>5, NextOfFallback
  <2>6. Len(s) = a + b
    BY <1>5, <1>6 DEF Merges
  <2> QED
    BY <1>1, <1>4, <1>11, <2>3, <2>5, <2>6
<1> QED
  BY <1>2, <1>14, <1>15

\* A mixer takes the next tactic of its stream.
LEMMA MixTakeStep ==
  ASSUME IInv, NEW m \in Mixers, MixTake(m) PROVE IInv'
<1>1. /\ Free(m) /\ mix[m].side \notin mix[m].drained /\ mix[m].taken < Quota
      /\ HasItem(Upstream(m)) /\ Forward(Upstream(m), m)
      /\ mix' = [mix EXCEPT ![m].taken = mix[m].taken + 1]
      /\ UNCHANGED <<in, spawned, closed, dnsDone, todo, count, either, ctxDone, out>>
  BY DEF MixTake
<1>2. PICK u \in Emitters : u = Upstream(m) /\ u # m /\ u \in {Primary(m), Fallback(m)}
  BY Readers
<1>3. m \in Emitters /\ m # "dns" /\ m # "th" /\ m # "either" /\ u \notin {"dns", "user", "outer", "either"}
  BY <1>2, Readers DEF Mixers, Emitters, Stages, Sources
<1>4. /\ Gives(u) /\ Sends(m) /\ \A s \in Stages \ {u, m} : Keeps(s)
      /\ slot' \in [Stages -> Tactic \union {None}] /\ sent' \in [Stages -> Nat]
      /\ \A s \in Emitters : Carries(s)'
      /\ \A s \in Emitters \ {u} : Steady(s)
      /\ Got(u)' = Got(u) + 1
      /\ Started'
  <2>1. sent[m] < Len(Stream(m)) /\ Stream(m)[sent[m] + 1] = slot[u]
    BY <1>1, <1>2, MixTakesNext
  <2>2. HasItem(u) /\ Forward(u, m) /\ Free(m) /\ UNCHANGED <<in, dnsDone, spawned, closed>> /\ either' = either
    BY <1>1, <1>2
  <2> QED
    BY <1>2, <1>3, <2>1, <2>2, PassStep
<1>5. /\ Top' = Top /\ Quota' = Quota /\ \A k : VariantsOf(k)' = VariantsOf(k)
      /\ \A s : Stream(s)' = Stream(s)
  BY <1>1, SameStreams
<1>6. PICK x \in [side : {"p", "f"}, taken : 0..Quota, drained : SUBSET {"p", "f"}] : x = mix[m]
  BY DEF IInv, TypeOK
<1>7. Quota \in Nat \ {0} /\ mix \in [Mixers -> [side : {"p", "f"}, taken : 0..Quota, drained : SUBSET {"p", "f"}]]
  BY StateTypes DEF IInv, TypeOK
<1>8. /\ mix'[m] = [side |-> x.side, taken |-> x.taken + 1, drained |-> x.drained]
      /\ \A n \in Mixers \ {m} : mix'[n] = mix[n]
      /\ mix' \in [Mixers -> [side : {"p", "f"}, taken : 0..Quota, drained : SUBSET {"p", "f"}]]
  <2>1. mix' = [mix EXCEPT ![m] = [x EXCEPT !.taken = x.taken + 1]]
    BY <1>1, <1>6
  <2>2. [x EXCEPT !.taken = x.taken + 1] = [side |-> x.side, taken |-> x.taken + 1, drained |-> x.drained]
    OBVIOUS
  <2>3. x.taken + 1 \in 0..Quota
    BY <1>1, <1>6, <1>7
  <2>4. PICK y \in [side : {"p", "f"}, taken : 0..Quota, drained : SUBSET {"p", "f"}] :
          y = [side |-> x.side, taken |-> x.taken + 1, drained |-> x.drained]
    BY <2>3
  <2>5. mix' = [mix EXCEPT ![m] = y]
    BY <2>1, <2>2, <2>4
  <2> QED
    BY <1>7, <2>4, <2>5
<1>9. TypeOK'
  <2>1. TypeOK
    BY DEF IInv
  <2> QED
    BY <1>1, <1>4, <1>5, <1>8, <2>1 DEF TypeOK
<1>10. (Top # "dns" => Extending)'
  <2>1. {"dns", "th"} \subseteq Emitters /\ sent'["th"] = sent["th"] /\ closed'["th"] = closed["th"]
    <3>1. "th" = u \/ Keeps("th")
      BY <1>3, <1>4 DEF Stages
    <3> QED
      BY <1>1, <1>4, <3>1 DEF Gives, Keeps, Emitters, Stages, Sources
  <2> QED
    BY <1>1, <1>3, <1>4, <1>5, <2>1, ExtendingKept
<1>11. Choosing'
  <2>1. {"user", "outer", "either"} \subseteq Emitters /\ either \in {"user", "outer"}
    BY DEF Emitters, Stages, Sources, Mixers, IInv, TypeOK
  <2>2. Keeps("either")
    BY <1>3, <1>4 DEF Stages
  <2>3. Steady("user") /\ Steady("outer")
    BY <1>3, <1>4, <2>1
  <2> QED
    BY <1>1, <2>1, <2>2, <2>3, ChoosingKept DEF Keeps
<1>12. Filtering'
  <2>1. Top \in Emitters /\ Top \in {"dns", "outer", "either"}
    BY StateTypes
  <2>2. Keeps("filter")
    BY <1>2, <1>3, <1>4 DEF Emitters, Stages
  <2>3. Steady(Top)
    BY <1>3, <1>4, <2>1
  <2> QED
    BY <1>1, <1>5, <2>2, <2>3, FilteringKept DEF Keeps
<1>13. ASSUME NEW n \in Mixers, n # m PROVE Mixing(n)'
  <2>1. Primary(n) \in Emitters \ {u} /\ Fallback(n) \in Emitters \ {u} /\ n \in Emitters
    <3>1. Primary(n) \in Emitters /\ Fallback(n) \in Emitters /\ n \in Emitters
      BY Readers
    <3>2. u \notin {Primary(n), Fallback(n)}
      BY <1>2, <1>13 DEF Mixers, Primary, Fallback
    <3> QED
      BY <3>1, <3>2
  <2>2. sent'[n] = sent[n] /\ closed'[n] = closed[n]
    <3>1. n \in Stages
      BY <2>1 DEF Emitters
    <3> QED
      BY <1>4, <1>13, <3>1 DEF Gives, Keeps
  <2> QED
    BY <1>4, <1>5, <1>8, <1>13, <2>1, <2>2, MixingKept
<1>14. Mixing(m)'
  <2>1. PICK P \in Emitters, F \in Emitters : P = Primary(m) /\ F = Fallback(m) /\ P # F
    BY Readers
  <2>2. /\ sent[m] = Got(P) + Got(F)
        /\ "p" \in x.drained => AtEOF(P)
        /\ "f" \in x.drained => AtEOF(F)
        /\ closed[m] => x.drained = {"p", "f"}
    BY <1>6, <2>1 DEF IInv, Mixing
  <2>3. PICK r \in Nat : AfterRounds(m, r)
    BY DEF IInv, Mixing
  <2>4. PICK i \in Nat, j \in Nat, a \in Nat, b \in Nat :
          i = Got(P) /\ j = Got(F) /\ a = Len(Stream(P)) /\ b = Len(Stream(F))
    <3>1. Got(P) \in Nat /\ Got(F) \in Nat /\ Len(Stream(P)) \in Nat /\ Len(Stream(F)) \in Nat
      BY <2>1, StateTypes
    <3> QED
      BY <3>1
  <2>5. PICK n \in Nat \ {0}, c \in Nat : n = Quota /\ c = r * Quota
    BY <1>7
  <2>6. /\ Read("p" \in x.drained, i, a, c + (IF x.side = "p" THEN x.taken ELSE n))
        /\ Read("f" \in x.drained, j, b, c + (IF x.side = "p" THEN 0 ELSE x.taken))
    BY <1>6, <2>1, <2>3, <2>4, <2>5 DEF AfterRounds
  <2>7. ~closed[m] /\ closed' = closed /\ sent'[m] = sent[m] + 1 /\ x.side \notin x.drained
        /\ x.taken \in Nat
    BY <1>1, <1>4, <1>6, <1>7 DEF Free, Sends
  <2>8. CASE x.side = "p"
    <3>1. u = P
      BY <1>2, <1>6, <2>1, <2>8 DEF Upstream
    <3>2. Got(P)' = i + 1 /\ Got(F)' = j /\ (AtEOF(F) => AtEOF(F)')
      BY <1>4, <2>1, <2>4, <3>1 DEF Steady
    <3>3. AfterRounds(m, r)'
      <4>1. Read("p" \in x.drained, i + 1, a, c + (x.taken + 1)) /\ Read("f" \in x.drained, j, b, c + 0)
        BY <2>6, <2>7, <2>8 DEF Read
      <4> QED
        BY <1>5, <1>8, <2>1, <2>4, <2>5, <2>8, <3>2, <4>1 DEF AfterRounds
    <3>4. sent'[m] = Got(P)' + Got(F)'
      BY <2>2, <2>4, <2>7, <3>2
    <3> QED
      BY <1>8, <2>1, <2>2, <2>7, <2>8, <3>2, <3>3, <3>4 DEF Mixing
  <2>9. CASE x.side = "f"
    <3>1. u = F
      BY <1>2, <1>6, <2>1, <2>9 DEF Upstream
    <3>2. Got(F)' = j + 1 /\ Got(P)' = i /\ (AtEOF(P) => AtEOF(P)')
      BY <1>4, <2>1, <2>4, <3>1 DEF Steady
    <3>3. AfterRounds(m, r)'
      <4>1. Read("p" \in x.drained, i, a, c + n) /\ Read("f" \in x.drained, j + 1, b, c + (x.taken + 1))
        BY <2>6, <2>7, <2>9 DEF Read
      <4> QED
        BY <1>5, <1>8, <2>1, <2>4, <2>5, <2>9, <3>2, <4>1 DEF AfterRounds
    <3>4. sent'[m] = Got(P)' + Got(F)'
      BY <2>2, <2>4, <2>7, <3>2
    <3> QED
      BY <1>8, <2>1, <2>2, <2>7, <2>9, <3>2, <3>3, <3>4 DEF Mixing
  <2> QED
    BY <2>8, <2>9
<1> QED
  BY <1>4, <1>9, <1>10, <1>11, <1>12, <1>13, <1>14 DEF IInv

\* A step that leaves all channels alone.
LEMMA AllSteady ==
  ASSUME IInv, UNCHANGED <<slot, sent, closed>>
  PROVE  \A s : Got(s)' = Got(s) /\ Steady(s) /\ (AtEOF(s)' <=> AtEOF(s)) /\ Keeps(s)
  BY DEF Got, Held, Steady, AtEOF, Keeps

\* The turn goes to the other side: a round is over when it was the fallback's.
LEMMA MixTurnStep ==
  ASSUME IInv, NEW m \in Mixers, MixTurn(m) PROVE IInv'
<1>1. PICK x \in [side : {"p", "f"}, taken : 0..Quota, drained : SUBSET {"p", "f"}] : x = mix[m]
  BY DEF IInv, TypeOK
<1>2. PICK eof \in BOOLEAN : eof = (x.side \notin x.drained /\ x.taken < Quota /\ AtEOF(Upstream(m)))
  OBVIOUS
<1>3. PICK d : d = IF eof THEN x.drained \union {x.side} ELSE x.drained
  OBVIOUS
<1>4. /\ eof \/ x.side \in x.drained \/ x.taken = Quota
      /\ mix' = [mix EXCEPT ![m] = [side |-> Other(x.side), taken |-> 0, drained |-> d]]
      /\ UNCHANGED <<in, spawned, slot, closed, sent, dnsDone, todo, count, either, ctxDone, out>>
      /\ ~closed[m]
  BY <1>1, <1>2, <1>3 DEF MixTurn, Free
<1>5. /\ Top' = Top /\ Quota' = Quota /\ \A k : VariantsOf(k)' = VariantsOf(k)
      /\ \A s : Stream(s)' = Stream(s)
  BY <1>4, SameStreams
<1>6. \A s : Got(s)' = Got(s) /\ Steady(s) /\ (AtEOF(s)' <=> AtEOF(s)) /\ Keeps(s)
  BY <1>4, AllSteady
<1>7. Quota \in Nat \ {0} /\ mix \in [Mixers -> [side : {"p", "f"}, taken : 0..Quota, drained : SUBSET {"p", "f"}]]
  BY StateTypes DEF IInv, TypeOK
<1>8. d \in SUBSET {"p", "f"}
  BY <1>3
<1>9. PICK y \in [side : {"p", "f"}, taken : 0..Quota, drained : SUBSET {"p", "f"}] :
          y = [side |-> Other(x.side), taken |-> 0, drained |-> d]
  <2>1. 0 \in 0..Quota /\ Other(x.side) \in {"p", "f"}
    BY <1>7 DEF Other
  <2> QED
    BY <1>8, <2>1
<1>10. /\ mix'[m] = y /\ \A n \in Mixers \ {m} : mix'[n] = mix[n]
       /\ mix' \in [Mixers -> [side : {"p", "f"}, taken : 0..Quota, drained : SUBSET {"p", "f"}]]
  BY <1>4, <1>7, <1>9
<1>11. TypeOK'
  <2>1. TypeOK
    BY DEF IInv
  <2> QED
    BY <1>4, <1>5, <1>10, <2>1 DEF TypeOK
<1>12. \A s \in Emitters : Carries(s)'
  BY <1>5, <1>6, ChannelStep
<1>13. Started'
  BY <1>4, <1>6, StartedKept
<1>14. (Top # "dns" => Extending)'
  BY <1>4, <1>5, <1>6, ExtendingKept
<1>15. Choosing'
  BY <1>4, <1>6, ChoosingKept
<1>16. Filtering'
  BY <1>4, <1>5, <1>6, FilteringKept
<1>17. ASSUME NEW n \in Mixers, n # m PROVE Mixing(n)'
  BY <1>4, <1>5, <1>6, <1>10, <1>17, MixingKept
<1>18. Mixing(m)'
  <2>1. PICK P \in Emitters, F \in Emitters : P = Primary(m) /\ F = Fallback(m)
    BY Readers
  <2>2. /\ sent[m] = Got(P) + Got(F)
        /\ x.side \in x.drained => x.taken = 0
        /\ "p" \in x.drained => AtEOF(P)
        /\ "f" \in x.drained => AtEOF(F)
    BY <1>1, <2>1 DEF IInv, Mixing
  <2>3. PICK r \in Nat : AfterRounds(m, r)
    BY DEF IInv, Mixing
  <2>4. PICK i \in Nat, j \in Nat, a \in Nat, b \in Nat :
          i = Got(P) /\ j = Got(F) /\ a = Len(Stream(P)) /\ b = Len(Stream(F))
    <3>1. Got(P) \in Nat /\ Got(F) \in Nat /\ Len(Stream(P)) \in Nat /\ Len(Stream(F)) \in Nat
      BY <2>1, StateTypes
    <3> QED
      BY <3>1
  <2>5. PICK n \in Nat \ {0}, c \in Nat : n = Quota /\ c = r * Quota /\ (r + 1) * Quota = c + n
    BY <1>7
  <2>6. /\ Read("p" \in x.drained, i, a, c + (IF x.side = "p" THEN x.taken ELSE n))
        /\ Read("f" \in x.drained, j, b, c + (IF x.side = "p" THEN 0 ELSE x.taken))
    BY <1>1, <2>1, <2>3, <2>4, <2>5 DEF AfterRounds
  <2>7. x.taken \in 0..n /\ (AtEOF(P) => i = a) /\ (AtEOF(F) => j = b)
    BY <2>1, <2>4, <2>5, EndOfStream
  <2>8. CASE x.side = "p"
    <3>1. y.side = "f" /\ y.taken = 0 /\ y.drained = d /\ (eof => AtEOF(P))
      BY <1>1, <1>2, <1>9, <2>1, <2>8 DEF Other, Upstream
    <3>2. Read("p" \in d, i, a, c + n)
      <4>1. CASE eof
        BY <1>2, <1>3, <2>6, <2>7, <2>8, <3>1, <4>1 DEF Read
      <4>2. CASE ~eof /\ "p" \in x.drained
        BY <1>3, <2>2, <2>6, <2>8, <4>2 DEF Read
      <4>3. CASE ~eof /\ "p" \notin x.drained
        BY <1>3, <1>4, <2>5, <2>6, <2>8, <4>3 DEF Read
      <4> QED
        BY <4>1, <4>2, <4>3
    <3>3. Read("f" \in d, j, b, c + 0)
      BY <1>3, <2>6, <2>8 DEF Read
    <3>4. AfterRounds(m, r)'
      BY <1>5, <1>6, <1>10, <2>1, <2>4, <2>5, <3>1, <3>2, <3>3 DEF AfterRounds
    <3>5. /\ "p" \in d => AtEOF(P)
          /\ "f" \in d => AtEOF(F)
      BY <1>3, <2>2, <2>8, <3>1
    <3> QED
      BY <1>4, <1>6, <1>10, <2>1, <2>2, <3>1, <3>4, <3>5 DEF Mixing
  <2>9. CASE x.side = "f"
    <3>1. y.side = "p" /\ y.taken = 0 /\ y.drained = d /\ (eof => AtEOF(F))
      BY <1>1, <1>2, <1>9, <2>1, <2>9 DEF Other, Upstream
    <3>2. Read("f" \in d, j, b, (c + n) + 0)
      <4>1. CASE eof
        BY <1>2, <1>3, <2>6, <2>7, <2>9, <3>1, <4>1 DEF Read
      <4>2. CASE ~eof /\ "f" \in x.drained
        BY <1>3, <2>2, <2>6, <2>9, <4>2 DEF Read
      <4>3. CASE ~eof /\ "f" \notin x.drained
        BY <1>3, <1>4, <2>5, <2>6, <2>9, <4>3 DEF Read
      <4> QED
        BY <4>1, <4>2, <4>3
    <3>3. Read("p" \in d, i, a, (c + n) + 0)
      BY <1>3, <2>6, <2>9 DEF Read
    <3>4. AfterRounds(m, r + 1)'
      BY <1>5, <1>6, <1>10, <2>1, <2>4, <2>5, <3>1, <3>2, <3>3 DEF AfterRounds
    <3>5. /\ "p" \in d => AtEOF(P)
          /\ "f" \in d => AtEOF(F)
      BY <1>3, <2>2, <2>9, <3>1
    <3>6. r + 1 \in Nat
      OBVIOUS
    <3> QED
      BY <1>4, <1>6, <1>10, <2>1, <2>2, <3>1, <3>4, <3>5, <3>6 DEF Mixing
  <2> QED
    BY <2>8, <2>9
<1> QED
  BY <1>11, <1>12, <1>13, <1>14, <1>15, <1>16, <1>17, <1>18 DEF IInv

\* testHelpersPolicy forwards an original, before it has sent any variant.
LEMMA THForwardStep ==
  ASSUME IInv, THForward PROVE IInv'
<1>1. /\ Free("th") /\ HasItem("dns") /\ Forward("dns", "th")
      /\ UNCHANGED <<in, spawned, closed, dnsDone, mix, count, either, ctxDone, out>>
  BY DEF THForward
<1>2. /\ {"dns", "th", "user", "outer", "either"} \subseteq Emitters
      /\ {"dns", "th", "user", "outer", "either"} \subseteq Stages
  BY DEF Emitters, Stages, Sources, Mixers
<1>3. TypeOK /\ Extending /\ Top # "dns"
  BY <1>1, WhoRuns DEF IInv, Free
<1>4. PICK c \in Seq(Tactic) : c = Items("dns") /\ c = Stream("dns")
  BY <1>3, InputTypes DEF Stream, Sources
<1>5. PICK k \in 1..Len(c) : k = sent["dns"] /\ Got("dns") = k - 1 /\ slot["dns"] = c[k]
  <2>1. sent["dns"] \in Nat /\ Carries("dns") /\ slot["dns"] # None
    BY <1>1, <1>2, StateTypes DEF HasItem
  <2>2. Got("dns") = sent["dns"] - 1
    BY <2>1 DEF Got, Held
  <2> QED
    BY <1>4, <2>1, <2>2 DEF Carries
<1>6. PICK v \in Seq(Tactic) : v = VariantsOf(k - 1) /\ v = VariantsOf(Got("dns"))
  <2>1. k - 1 \in 0..Len(c)
    OBVIOUS
  <2>2. VariantsOf(k - 1) \in Seq(Tactic)
    BY <1>3, <1>4, <2>1, VariantsTypes
  <2> QED
    BY <1>5, <2>2
<1>7. PICK w \in Seq(Tactic) : w = VariantsOf(k)
  <2>1. k \in 0..Len(c)
    OBVIOUS
  <2>2. VariantsOf(k) \in Seq(Tactic)
    BY <1>3, <1>4, <2>1, VariantsTypes
  <2> QED
    BY <2>2
<1>8. sent["th"] = k - 1 /\ Len(todo) = Len(v) /\ todo = v /\ ~closed["th"]
  <2>1. ~AtEOF("dns") /\ ~closed["th"]
    BY <1>1 DEF HasItem, AtEOF, Free
  <2>2. PICK done : done = Len(v) - Len(todo)
    OBVIOUS
  <2>3. /\ done >= 0 /\ sent["th"] = Got("dns") + done
        /\ \A i \in 1..Len(todo) : todo[i] = v[done + i]
        /\ done > 0 => AtEOF("dns")
    BY <1>3, <1>6, <2>2 DEF Extending
  <2>4. todo \in Seq(Tactic) /\ Len(todo) \in Nat /\ Len(v) \in Nat
    BY <1>3 DEF TypeOK
  <2>5. done = 0 /\ Len(todo) = Len(v)
    BY <2>1, <2>2, <2>3, <2>4
  <2>6. \A i \in 1..Len(todo) : todo[i] = v[i]
    BY <2>3, <2>5
  <2>7. todo = v
    BY <2>4, <2>5, <2>6
  <2> QED
    BY <1>5, <2>1, <2>3, <2>5, <2>7
<1>9. todo' = w
  <2>1. CASE in.isTH
    <3>1. todo' = todo \o [j \in 1..Len(in.snis[k]) |-> [c[k] EXCEPT !.sni = in.snis[k][j]]]
      BY <1>5, <2>1 DEF THForward
    <3>2. todo' = v \o Row(c, in.snis, k)
      BY <1>8, <3>1 DEF Row
    <3>3. VariantsOf(k) = VariantsOf(k - 1) \o Row(c, in.snis, k)
      BY <1>3, <1>4, <2>1, VariantsTypes
    <3> QED
      BY <1>6, <1>7, <3>2, <3>3
  <2>2. CASE ~in.isTH
    <3>1. todo' = todo
      BY <2>2 DEF THForward
    <3> QED
      BY <1>6, <1>7, <1>8, <2>2, <3>1 DEF VariantsOf
  <2> QED
    BY <2>1, <2>2
<1>10. sent["th"] < Len(Stream("th")) /\ Stream("th")[sent["th"] + 1] = slot["dns"]
  <2>1. PICK z \in Seq(Tactic) : z = VariantsOf(Len(c))
    <3>1. Len(c) \in 0..Len(c)
      OBVIOUS
    <3>2. VariantsOf(Len(c)) \in Seq(Tactic)
      BY <1>3, <1>4, <3>1, VariantsTypes
    <3> QED
      BY <3>2
  <2>2. Stream("th") = c \o z
    <3>1. Stream("th") = Extended
      BY DEF Stream, Sources
    <3>2. Extended = c \o z
      BY <1>3, <1>4, <2>1, VariantsTypes
    <3> QED
      BY <3>1, <3>2
  <2>3. k <= Len(c \o z) /\ (c \o z)[k] = c[k]
    OBVIOUS
  <2> QED
    BY <1>5, <1>8, <2>2, <2>3
<1>11. /\ Gives("dns") /\ Sends("th") /\ \A s \in Stages \ {"dns", "th"} : Keeps(s)
       /\ slot' \in [Stages -> Tactic \union {None}] /\ sent' \in [Stages -> Nat]
       /\ \A s \in Emitters : Carries(s)'
       /\ \A s \in Emitters \ {"dns"} : Steady(s)
       /\ Got("dns")' = Got("dns") + 1
       /\ Started'
  BY <1>1, <1>2, <1>10, PassStep
<1>12. /\ Top' = Top /\ Quota' = Quota /\ \A i : VariantsOf(i)' = VariantsOf(i)
       /\ \A s : Stream(s)' = Stream(s)
  BY <1>1, SameStreams
<1>13. TypeOK'
  BY <1>1, <1>3, <1>9, <1>11, <1>12 DEF TypeOK
<1>14. Extending'
  <2>1. Got("dns")' = k
    BY <1>5, <1>11
  <2>2. VariantsOf(Got("dns"))' = w
    BY <1>7, <1>12, <2>1
  <2>3. sent'["th"] = k /\ ~closed'["th"] /\ Len(w) \in Nat
    BY <1>1, <1>8, <1>11 DEF Sends
  <2>4. Len(w) - Len(w) = 0 /\ \A i \in 1..Len(w) : w[i] = w[0 + i]
    BY <2>3
  <2> QED
    BY <1>9, <2>1, <2>2, <2>3, <2>4 DEF Extending
<1>15. Choosing'
  <2>1. either \in {"user", "outer"} /\ Keeps("either")
    BY <1>2, <1>3, <1>11 DEF TypeOK
  <2> QED
    BY <1>1, <1>2, <1>11, <2>1, ChoosingKept DEF Keeps
<1>16. Filtering'
  <2>1. Top \in Emitters /\ Top \in {"dns", "outer", "either"}
    BY StateTypes
  <2>2. Keeps("filter")
    BY <1>11 DEF Stages
  <2> QED
    BY <1>1, <1>3, <1>11, <1>12, <2>1, <2>2, FilteringKept DEF Keeps
<1>17. ASSUME NEW m \in Mixers PROVE Mixing(m)'
  <2>1. /\ Primary(m) \in Emitters /\ Fallback(m) \in Emitters /\ m \in Emitters
        /\ Primary(m) \in {"th", "stats"} /\ Fallback(m) \in {"inner", "bridges"}
    BY Readers
  <2>2. m \in Stages \ {"dns", "th"}
    BY DEF Mixers, Stages
  <2> QED
    BY <1>1, <1>11, <1>12, <2>1, <2>2, MixingKept DEF Keeps
<1> QED
  BY <1>11, <1>13, <1>14, <1>15, <1>16, <1>17 DEF IInv

\* After the originals it sends the variants.
LEMMA THVariantStep ==
  ASSUME IInv, THVariant PROVE IInv'
<1>1. /\ Free("th") /\ AtEOF("dns") /\ todo # <<>>
      /\ slot' = [slot EXCEPT !["th"] = Head(todo)] /\ sent' = [sent EXCEPT !["th"] = sent["th"] + 1]
      /\ todo' = Tail(todo)
      /\ UNCHANGED <<in, spawned, closed, dnsDone, mix, count, either, ctxDone, out>>
  BY DEF THVariant, VariantsDue
<1>2. /\ {"dns", "th", "user", "outer", "either"} \subseteq Emitters
      /\ {"dns", "th", "user", "outer", "either"} \subseteq Stages
  BY DEF Emitters, Stages, Sources, Mixers
<1>3. TypeOK /\ Extending /\ todo \in Seq(Tactic)
  BY <1>1, WhoRuns DEF IInv, Free, TypeOK
<1>4. PICK c \in Seq(Tactic) : c = Items("dns") /\ c = Stream("dns")
  BY <1>3, InputTypes DEF Stream, Sources
<1>5. Got("dns") = Len(c)
  BY <1>1, <1>2, <1>4, EndOfStream
<1>6. PICK v \in Seq(Tactic) : v = VariantsOf(Len(c)) /\ v = VariantsOf(Got("dns"))
  <2>1. Len(c) \in 0..Len(c)
    OBVIOUS
  <2>2. VariantsOf(Len(c)) \in Seq(Tactic)
    BY <1>3, <1>4, <2>1, VariantsTypes
  <2> QED
    BY <1>5, <2>2
<1>7. PICK done : done = Len(v) - Len(todo)
  OBVIOUS
<1>8. /\ done >= 0 /\ sent["th"] = Len(c) + done
      /\ \A i \in 1..Len(todo) : todo[i] = v[done + i]
  BY <1>3, <1>5, <1>6, <1>7 DEF Extending
<1>9. Len(todo) \in Nat \ {0} /\ Len(v) \in Nat /\ Len(c) \in Nat /\ done \in Nat /\ done < Len(v)
  <2>1. Len(todo) \in Nat /\ Len(v) \in Nat /\ Len(c) \in Nat
    BY <1>3
  <2>2. Len(todo) # 0
    BY <1>1, <1>3
  <2> QED
    BY <1>7, <1>8, <2>1, <2>2
<1>10. Head(todo) = todo[1] /\ Head(todo) \in Tactic /\ Head(todo) = v[done + 1]
  <2>1. Head(todo) = todo[1] /\ todo[1] \in Tactic
    BY <1>1, <1>3, <1>9
  <2>2. 1 \in 1..Len(todo)
    BY <1>9
  <2> QED
    BY <1>8, <2>1, <2>2
<1>11. sent["th"] < Len(Stream("th")) /\ Stream("th")[sent["th"] + 1] = Head(todo)
  <2>1. Stream("th") = c \o v
    <3>1. Stream("th") = Extended
      BY DEF Stream, Sources
    <3>2. Extended = c \o v
      BY <1>3, <1>4, <1>6, VariantsTypes
    <3> QED
      BY <3>1, <3>2
  <2>2. Len(c \o v) = Len(c) + Len(v) /\ (c \o v)[Len(c) + (done + 1)] = v[done + 1]
    BY <1>9
  <2>3. Len(c) + (done + 1) = sent["th"] + 1 /\ sent["th"] < Len(c) + Len(v)
    BY <1>8, <1>9
  <2> QED
    BY <1>10, <2>1, <2>2, <2>3
<1>12. /\ Sends("th") /\ \A s \in Stages \ {"th"} : Keeps(s)
       /\ slot' \in [Stages -> Tactic \union {None}] /\ sent' \in [Stages -> Nat]
  <2>1. slot \in [Stages -> Tactic \union {None}] /\ sent \in [Stages -> Nat] /\ None \notin Tactic
    BY <1>3, StateTypes DEF TypeOK
  <2>2. slot' \in [Stages -> Tactic \union {None}] /\ sent' \in [Stages -> Nat]
    BY <1>1, <1>2, <1>10, <2>1
  <2>3. Sends("th")
    BY <1>1, <1>2, <1>10, <1>11, <2>1 DEF Sends, Free
  <2>4. \A s \in Stages \ {"th"} : Keeps(s)
    BY <1>1, <2>1 DEF Keeps
  <2> QED
    BY <2>2, <2>3, <2>4
<1>13. /\ Top' = Top /\ Quota' = Quota /\ \A i : VariantsOf(i)' = VariantsOf(i)
       /\ \A s : Stream(s)' = Stream(s)
  BY <1>1, SameStreams
<1>14. \A s \in Emitters : Carries(s)' /\ Steady(s)
  <2>1. \A s \in Emitters : (Keeps(s) \/ Sends(s)) /\ ~Gives(s)
    BY <1>12 DEF Emitters, Sends, Keeps, Gives
  <2> QED
    BY <1>13, <2>1, ChannelStep
<1>15. TypeOK'
  <2>1. Tail(todo) \in Seq(Tactic)
    BY <1>1, <1>3
  <2> QED
    BY <1>1, <1>3, <1>12, <1>13, <2>1 DEF TypeOK
<1>16. Started'
  BY <1>1, <1>12, StartedKept DEF Free
<1>17. Extending'
  <2>1. Got("dns")' = Len(c) /\ AtEOF("dns")'
    BY <1>1, <1>2, <1>5, <1>14 DEF Steady
  <2>2. VariantsOf(Got("dns"))' = v
    BY <1>6, <1>13, <2>1
  <2>3. PICK q : q = Tail(todo)
    OBVIOUS
  <2>4. Len(q) = Len(todo) - 1 /\ \A i \in 1..Len(q) : q[i] = todo[i + 1]
    BY <1>1, <1>3, <2>3
  <2>5. Len(v) - Len(q) = done + 1
    BY <1>7, <1>9, <2>4
  <2>6. \A i \in 1..Len(q) : q[i] = v[(done + 1) + i]
    <3>1. ASSUME NEW i \in 1..Len(q) PROVE q[i] = v[(done + 1) + i]
      <4>1. i + 1 \in 1..Len(todo) /\ done + (i + 1) = (done + 1) + i
        BY <1>9, <2>4
      <4> QED
        BY <1>8, <2>4, <4>1
    <3> QED
      BY <3>1
  <2>7. sent'["th"] = Len(c) + (done + 1) /\ done + 1 >= 0 /\ closed'["th"] = closed["th"] /\ ~closed["th"]
    BY <1>1, <1>8, <1>9, <1>12 DEF Sends
  <2> QED
    BY <1>1, <2>1, <2>2, <2>3, <2>5, <2>6, <2>7 DEF Extending
<1>18. Choosing'
  <2>1. either \in {"user", "outer"} /\ Keeps("either")
    BY <1>2, <1>3, <1>12 DEF TypeOK
  <2> QED
    BY <1>1, <1>2, <1>14, <2>1, ChoosingKept DEF Keeps
<1>19. Filtering'
  <2>1. Top \in Emitters
    BY StateTypes
  <2>2. Keeps("filter")
    BY <1>12 DEF Stages
  <2> QED
    BY <1>1, <1>13, <1>14, <2>1, <2>2, FilteringKept DEF Keeps
<1>20. ASSUME NEW m \in Mixers PROVE Mixing(m)'
  <2>1. Primary(m) \in Emitters /\ Fallback(m) \in Emitters
    BY Readers
  <2>2. m \in Stages \ {"th"}
    BY DEF Mixers, Stages
  <2> QED
    BY <1>1, <1>12, <1>13, <1>14, <2>1, <2>2, MixingKept DEF Keeps
<1> QED
  BY <1>14, <1>15, <1>16, <1>17, <1>18, <1>19, <1>20 DEF IInv

\* What mixPolicyEitherOr sends is the stream of the side that it reads.
LEMMA ChosenStream ==
  ASSUME IInv, either = "user" => Len(Stream("user")) > 0
  PROVE  Stream("either") = Stream(either)
<1>1. Stream("either") = EitherOr(UserTactics, Stream("outer")) /\ Stream("user") = UserTactics
  BY DEF Stream, Sources, Items, Mixed
<1>2. either \in {"user", "outer"} /\ (either = "outer" => UserTactics = <<>>)
  BY DEF IInv, TypeOK, Choosing
<1>3. Len(UserTactics) > 0 => UserTactics # <<>>
  OBVIOUS
<1> QED
  BY <1>1, <1>2, <1>3 DEF EitherOr

\* It forwards a tactic of that side.
LEMMA EitherForwardStep ==
  ASSUME IInv, EitherForward PROVE IInv'
<1>1. /\ Free("either") /\ HasItem(either) /\ Forward(either, "either")
      /\ count' = IF either = "user" THEN count + 1 ELSE count
      /\ UNCHANGED <<in, spawned, closed, dnsDone, mix, todo, either, ctxDone, out>>
  BY DEF EitherForward
<1>2. {"dns", "th", "user", "outer", "either"} \subseteq Emitters /\ "th" \in Stages
      /\ "either" \in Stages /\ "filter" \in Stages
  BY DEF Emitters, Stages, Sources, Mixers
<1>3. TypeOK /\ Choosing
  BY DEF IInv
<1>4. PICK u \in {"user", "outer"} : u = either
  BY <1>3 DEF TypeOK
<1>5. u \in Emitters /\ Top = "either"
  BY <1>1, <1>2, <1>4, WhoRuns DEF Free
<1>6. /\ slot[u] # None /\ sent[u] \in Nat /\ sent[u] > 0 /\ sent[u] <= Len(Stream(u))
      /\ slot[u] = Stream(u)[sent[u]] /\ Got(u) = sent[u] - 1 /\ Len(Stream(u)) \in Nat
  <2>1. slot[u] # None /\ sent[u] \in Nat /\ Carries(u) /\ Len(Stream(u)) \in Nat
    BY <1>1, <1>4, <1>5, StateTypes DEF HasItem
  <2> QED
    BY <2>1 DEF Carries, Got, Held
<1>7. Stream("either") = Stream(u)
  BY <1>4, <1>6, ChosenStream
<1>8. sent["either"] = Got(u)
  BY <1>3, <1>4 DEF Choosing
<1>9. sent["either"] < Len(Stream("either")) /\ Stream("either")[sent["either"] + 1] = slot[u]
  <2>1. sent["either"] + 1 = sent[u] /\ sent["either"] < Len(Stream(u))
    BY <1>6, <1>8
  <2> QED
    BY <1>6, <1>7, <2>1
<1>10. /\ Gives(u) /\ Sends("either") /\ \A s \in Stages \ {u, "either"} : Keeps(s)
       /\ slot' \in [Stages -> Tactic \union {None}] /\ sent' \in [Stages -> Nat]
       /\ \A s \in Emitters : Carries(s)'
       /\ \A s \in Emitters \ {u} : Steady(s)
       /\ Got(u)' = Got(u) + 1
       /\ Started'
  BY <1>1, <1>2, <1>4, <1>5, <1>9, PassStep
<1>11. /\ Top' = Top /\ Quota' = Quota /\ \A i : VariantsOf(i)' = VariantsOf(i)
       /\ \A s : Stream(s)' = Stream(s)
  BY <1>1, SameStreams
<1>12. TypeOK'
  <2>1. count' \in Nat
    BY <1>1, <1>3 DEF TypeOK
  <2> QED
    BY <1>1, <1>3, <1>10, <1>11, <2>1 DEF TypeOK
<1>13. (Top # "dns" => Extending)'
  <2>1. Keeps("th")
    BY <1>2, <1>4, <1>10
  <2> QED
    BY <1>1, <1>2, <1>4, <1>10, <1>11, <2>1, ExtendingKept DEF Keeps
<1>14. Choosing'
  <2>1. Got(either)' = Got(u) + 1 /\ either' = u
    BY <1>1, <1>4, <1>10
  <2>2. sent'["either"] = sent["either"] + 1 /\ ~closed'["either"]
    BY <1>10 DEF Sends
  <2>3. u = "user" => count' = Got("user")'
    <3>1. u = "user" => count = Got("user")
      BY <1>3, <1>4 DEF Choosing
    <3> QED
      BY <1>1, <1>4, <1>10, <3>1
  <2>4. u = "outer" => in' = in /\ UserTactics = <<>> /\ Top' = "either"
    BY <1>1, <1>3, <1>4, <1>5, <1>11 DEF Choosing
  <2> QED
    BY <1>8, <2>1, <2>2, <2>3, <2>4, SameUser DEF Choosing
<1>15. Filtering'
  <2>1. Steady("either") /\ Keeps("filter")
    BY <1>2, <1>4, <1>10
  <2> QED
    BY <1>1, <1>5, <1>11, <2>1, FilteringKept DEF Keeps
<1>16. ASSUME NEW m \in Mixers PROVE Mixing(m)'
  <2>1. /\ Primary(m) \in Emitters \ {u} /\ Fallback(m) \in Emitters \ {u}
    BY <1>4, Readers
  <2>2. sent'[m] = sent[m] /\ closed'[m] = closed[m] /\ mix'[m] = mix[m]
    <3>1. m \in Stages /\ m # "either"
      BY DEF Mixers, Stages
    <3>2. m = u \/ Keeps(m)
      BY <1>10, <3>1
    <3> QED
      BY <1>1, <1>10, <3>2 DEF Gives, Keeps
  <2> QED
    BY <1>10, <1>11, <2>1, <2>2, MixingKept
<1> QED
  BY <1>10, <1>12, <1>13, <1>14, <1>15, <1>16 DEF IInv

\* The user has no tactic: the fallback starts, and has sent nothing so far.
LEMMA EitherFallbackStep ==
  ASSUME IInv, EitherFallback PROVE IInv'
<1>1. /\ Free("either") /\ either = "user" /\ AtEOF("user") /\ ~(count > 0)
      /\ either' = "outer" /\ spawned' = spawned \union Composed
      /\ UNCHANGED <<in, slot, closed, sent, dnsDone, mix, todo, count, ctxDone, out>>
  BY DEF EitherFallback, PrimaryWorked
<1>2. {"dns", "th", "user", "outer", "either"} \subseteq Emitters /\ "outer" \in Stages
  BY DEF Emitters, Stages, Sources, Mixers
<1>3. TypeOK /\ Choosing /\ Started
  BY DEF IInv
<1>4. Top = "either" /\ "outer" \notin spawned
  BY <1>1, WhoRuns DEF Free
<1>5. Got("user") = Len(Stream("user")) /\ count = Got("user") /\ Len(Stream("user")) \in Nat
  BY <1>1, <1>2, <1>3, EndOfStream, StateTypes DEF Choosing
<1>6. UserTactics = <<>> /\ Got("user") = 0
  <2>1. Stream("user") = UserTactics /\ UserTactics \in Seq(Tactic)
    BY <1>3, InputTypes DEF Stream, Sources, Items
  <2>2. Len(UserTactics) = 0
    BY <1>1, <1>5, <2>1
  <2> QED
    BY <1>5, <2>1, <2>2
<1>7. Got("outer") = 0
  BY <1>2, <1>3, <1>4 DEF Started, Idle, Got, Held
<1>8. /\ Top' = Top /\ Quota' = Quota /\ \A i : VariantsOf(i)' = VariantsOf(i)
      /\ \A s : Stream(s)' = Stream(s)
  BY <1>1, SameStreams
<1>9. \A s : Got(s)' = Got(s) /\ Steady(s) /\ (AtEOF(s)' <=> AtEOF(s)) /\ Keeps(s)
  BY <1>1, AllSteady
<1>10. TypeOK'
  <2>1. spawned' \subseteq Stages
    BY <1>1, <1>3 DEF TypeOK, Composed, Stages, Sources, Mixers
  <2> QED
    BY <1>1, <1>3, <1>8, <2>1 DEF TypeOK
<1>11. \A s \in Emitters : Carries(s)'
  BY <1>8, <1>9, ChannelStep
<1>12. Started'
  <2>1. spawned = {"filter", "either", "user"}
    BY <1>1, <1>3, <1>4 DEF Started
  <2>2. \A s \in Stages \ spawned : Idle(s)'
    BY <1>1, <1>3 DEF Started, Idle
  <2>3. \A s \in Stages \ spawned' : Idle(s)'
    BY <1>1, <2>2
  <2>4. dnsDone' = "pending" /\ Idle("dns")'
    <3>1. "dns" \notin spawned /\ "dns" \in Stages
      BY <2>1 DEF Stages, Sources
    <3> QED
      BY <1>1, <1>3, <2>2, <3>1 DEF Started
  <2> QED
    BY <1>1, <1>4, <1>8, <2>1, <2>3, <2>4 DEF Started
<1>13. (Top # "dns" => Extending)'
  BY <1>1, <1>8, <1>9, ExtendingKept
<1>14. Choosing'
  <2>1. Got(either)' = 0 /\ sent'["either"] = 0
    BY <1>1, <1>3, <1>6, <1>7, <1>9 DEF Choosing
  <2>2. ~closed'["either"] /\ Top' = "either" /\ UserTactics' = <<>>
    BY <1>1, <1>4, <1>6, <1>8, SameUser DEF Free
  <2> QED
    BY <1>1, <2>1, <2>2 DEF Choosing
<1>15. Filtering'
  BY <1>1, <1>8, <1>9, FilteringKept
<1>16. ASSUME NEW m \in Mixers PROVE Mixing(m)'
  BY <1>1, <1>8, <1>9, MixingKept
<1> QED
  BY <1>10, <1>11, <1>12, <1>13, <1>14, <1>15, <1>16 DEF IInv

\* The filters take the next tactic, and drop it if they have had it before.
LEMMA FilterForwardStep ==
  ASSUME IInv, FilterForward PROVE IInv'
<1>1. PICK u \in Emitters : u = Top /\ u \in {"dns", "outer", "either"}
  BY StateTypes
<1>2. /\ Free("filter") /\ slot[u] # None /\ slot' = [slot EXCEPT ![u] = None]
      /\ UNCHANGED <<in, spawned, closed, sent, dnsDone, mix, todo, count, either, ctxDone>>
      /\ out' = IF Seen(slot[u]) THEN out
                ELSE Append(out, [tactic |-> slot[u], delay |-> HappyEyeballsDelay(Len(out))])
  BY <1>1 DEF FilterForward, HasItem
<1>3. /\ {"dns", "th", "user", "outer", "either"} \subseteq Emitters
      /\ {"th", "either", "filter"} \subseteq Stages
  BY DEF Emitters, Stages, Sources, Mixers
<1>4. TypeOK /\ Filtering /\ slot \in [Stages -> Tactic \union {None}] /\ u \in Stages /\ sent[u] \in Nat
  BY <1>1, StateTypes DEF IInv, TypeOK
<1>5. /\ Gives(u) /\ \A s \in Stages \ {u} : Keeps(s)
      /\ slot' \in [Stages -> Tactic \union {None}]
  BY <1>2, <1>4 DEF Gives, Keeps
<1>6. /\ Top' = Top /\ Quota' = Quota /\ \A i : VariantsOf(i)' = VariantsOf(i)
      /\ \A s : Stream(s)' = Stream(s)
  BY <1>2, SameStreams
<1>7. /\ \A s \in Emitters : Carries(s)'
      /\ \A s \in Emitters \ {u} : Steady(s)
      /\ Got(u)' = Got(u) + 1 /\ Got(u) + 1 = sent[u] /\ slot[u] = Stream(u)[sent[u]] /\ ~closed[u]
  <2>1. \A s \in Emitters : (Keeps(s) \/ Gives(s)) /\ (s # u => ~Gives(s))
    BY <1>5 DEF Emitters, Keeps, Gives
  <2> QED
    BY <1>5, <1>6, <2>1, ChannelStep
<1>8. PICK T : Stream(u) \in Seq(T)
  BY <1>4, StreamTypes
<1>9. PICK q \in Seq(T) : q = Stream(u)
  BY <1>8
<1>10. PICK f : f = FirstOccurrences(q)
  OBVIOUS
<1>11. PICK k \in 1..Len(q) : k = sent[u] /\ slot[u] = q[k] /\ Got(u) = k - 1 /\ Got(u)' = k
  <2>1. sent[u] <= Len(q) /\ sent[u] > 0 /\ Len(q) \in Nat
    BY <1>2, <1>9, StateTypes DEF Carries
  <2>2. Got(u) \in Nat /\ Got(u) = sent[u] - 1
    BY <1>4, <1>7, StateTypes
  <2>3. sent[u] \in 1..Len(q)
    BY <1>4, <2>1
  <2> QED
    BY <1>7, <1>9, <2>2, <2>3
<1>12. out = f[k - 1]
  BY <1>1, <1>4, <1>9, <1>10, <1>11 DEF Filtering
<1>13. out' = f[k]
  <2>1. f[k] = FilterStep(q, k, f[k - 1])
    <3>1. \A j \in 1..Len(q) : f[j] = FilterStep(q, j, f[j - 1])
      BY <1>10, FirstOccurrencesNext
    <3> QED
      BY <3>1
  <2>2. Emitted(out, q[k]) <=> \E j \in 1..k - 1 : q[j] = q[k]
    <3>1. k - 1 \in 0..Len(q)
      OBVIOUS
    <3>2. \A i \in 0..Len(q) : \A t : Emitted(f[i], t) <=> \E j \in 1..i : q[j] = t
      BY <1>10, FirstOccurrencesAll
    <3> QED
      BY <1>12, <3>1, <3>2
  <2>3. Seen(slot[u]) <=> \E j \in 1..k - 1 : q[j] = q[k]
    BY <1>11, <2>2 DEF Seen, Emitted
  <2> QED
    BY <1>2, <1>11, <1>12, <2>1, <2>3 DEF FilterStep
<1>14. TypeOK'
  <2>1. out' \in Seq([tactic : Tactic, delay : Nat])
    <3>1. out \in Seq([tactic : Tactic, delay : Nat]) /\ Len(out) \in Nat /\ slot[u] \in Tactic
      BY <1>2, <1>4 DEF TypeOK
    <3>2. [tactic |-> slot[u], delay |-> HappyEyeballsDelay(Len(out))] \in [tactic : Tactic, delay : Nat]
      BY <3>1, DelayIsNat
    <3>3. \A e \in [tactic : Tactic, delay : Nat] : Append(out, e) \in Seq([tactic : Tactic, delay : Nat])
      BY <3>1
    <3> QED
      BY <1>2, <3>1, <3>2, <3>3
  <2> QED
    BY <1>2, <1>4, <1>5, <1>6, <2>1 DEF TypeOK
<1>15. Started'
  <2>1. u \in spawned
    BY <1>2, <1>4, WhoRuns
  <2>2. u = "dns" => dnsDone # "pending"
    BY <1>2 DEF IInv, Started, Idle
  <2> QED
    BY <1>2, <1>5, <2>1, <2>2, StartedKept
<1>16. (Top # "dns" => Extending)'
  <2>1. CASE u = "dns"
    BY <1>1, <1>6, <2>1
  <2>2. CASE u # "dns"
    <3>1. Keeps("th")
      BY <1>1, <1>3, <1>5
    <3> QED
      BY <1>2, <1>3, <1>6, <1>7, <2>2, <3>1, ExtendingKept DEF Keeps
  <2> QED
    BY <2>1, <2>2
<1>17. Choosing'
  <2>1. either \in {"user", "outer"} /\ either # u
    BY <1>1, <1>4, WhoRuns DEF TypeOK
  <2>2. sent'["either"] = sent["either"] /\ closed'["either"] = closed["either"]
    BY <1>2
  <2> QED
    BY <1>1, <1>2, <1>3, <1>7, <2>1, <2>2, ChoosingKept
<1>18. Filtering'
  <2>1. /\ Got(Top)' = k /\ Stream(Top)' = q
    BY <1>1, <1>6, <1>9, <1>11
  <2>2. ~closed["filter"] /\ slot'["filter"] = None /\ closed' = closed
    BY <1>1, <1>2, <1>3, <1>5 DEF Free, Emitters, Keeps
  <2> QED
    BY <1>10, <1>13, <2>1, <2>2 DEF Filtering
<1>19. ASSUME NEW m \in Mixers PROVE Mixing(m)'
  <2>1. Primary(m) \in Emitters \ {u} /\ Fallback(m) \in Emitters \ {u}
    BY <1>1, Readers
  <2>2. sent'[m] = sent[m] /\ closed'[m] = closed[m] /\ mix'[m] = mix[m]
    BY <1>2
  <2> QED
    BY <1>6, <1>7, <2>1, <2>2, MixingKept
<1> QED
  BY <1>7, <1>14, <1>15, <1>16, <1>17, <1>18, <1>19 DEF IInv

\* Steps that touch no tactic: the end of the filters, and the end of the context.
LEMMA OtherSteps ==
  ASSUME IInv, FilterClose \/ Cancel \/ UNCHANGED vars PROVE IInv'
<1>1. UNCHANGED <<in, spawned, slot, sent, dnsDone, mix, todo, count, either, out>>
  BY DEF FilterClose, CloseOutput, Cancel, vars
<1>2. /\ closed' \in [Stages -> BOOLEAN] /\ ctxDone' \in BOOLEAN
      /\ \A s \in Stages \ {"filter"} : closed'[s] = closed[s]
      /\ closed'["filter"] = closed["filter"] \/ AtEOF(Top)
  <2>1. closed \in [Stages -> BOOLEAN] /\ ctxDone \in BOOLEAN
    BY DEF IInv, TypeOK
  <2>2. CASE FilterClose
    BY <2>1, <2>2 DEF FilterClose, CloseOutput
  <2>3. CASE Cancel \/ UNCHANGED vars
    BY <2>1, <2>3 DEF Cancel, vars
  <2> QED
    BY <2>2, <2>3
<1>3. Top \in Emitters /\ "filter" \in Stages /\ "filter" \in spawned
  BY StateTypes DEF IInv, Started, Stages
<1>4. /\ Top' = Top /\ Quota' = Quota /\ \A i : VariantsOf(i)' = VariantsOf(i)
      /\ \A s : Stream(s)' = Stream(s)
  BY <1>1, SameStreams
<1>5. \A s \in Emitters : Keeps(s) /\ ~Gives(s)
  BY <1>1, <1>2 DEF Emitters, Keeps, Gives
<1>6. \A s \in Emitters : Carries(s)' /\ Steady(s)
  BY <1>4, <1>5, ChannelStep
<1>7. {"dns", "th", "user", "outer", "either"} \subseteq Emitters
  BY DEF Emitters, Stages, Sources, Mixers
<1>8. TypeOK'
  <2>1. TypeOK
    BY DEF IInv
  <2> QED
    BY <1>1, <1>2, <1>4, <2>1 DEF TypeOK
<1>9. Started'
  BY <1>1, <1>3, <1>5, StartedKept DEF Emitters
<1>10. (Top # "dns" => Extending)'
  BY <1>1, <1>4, <1>5, <1>6, <1>7, ExtendingKept DEF Keeps
<1>11. Choosing'
  <2>1. either \in {"user", "outer"}
    BY DEF IInv, TypeOK
  <2> QED
    BY <1>1, <1>5, <1>6, <1>7, <2>1, ChoosingKept DEF Keeps
<1>12. Filtering'
  BY <1>1, <1>2, <1>3, <1>4, <1>6, FilteringKept
<1>13. ASSUME NEW m \in Mixers PROVE Mixing(m)'
  <2>1. Primary(m) \in Emitters /\ Fallback(m) \in Emitters /\ m \in Emitters
    BY Readers
  <2> QED
    BY <1>1, <1>4, <1>5, <1>6, <2>1, MixingKept DEF Keeps
<1> QED
  BY <1>6, <1>8, <1>9, <1>10, <1>11, <1>12, <1>13 DEF IInv

\* Before the DNS lookup, no stage after it has sent anything.
LEMMA BeforeLookup ==
  ASSUME IInv, "dns" \in spawned, dnsDone = "pending"
  PROVE  /\ Idle("dns") /\ Idle("th") /\ Idle("outer") /\ Idle("either") /\ Idle(Top)
         /\ Top # "dns" => todo = <<>>
         /\ "p" \notin mix["outer"].drained
<1>1. /\ {"dns", "th", "user", "inner", "outer", "either"} \subseteq Emitters
      /\ {"dns", "th", "user", "inner", "outer", "either"} \subseteq Stages
  BY DEF Emitters, Stages, Sources, Mixers
<1>2. /\ TypeOK /\ Started /\ Choosing /\ Mixing("outer")
      /\ Primary("outer") = "th" /\ Fallback("outer") = "inner"
  BY DEF IInv, Mixers, Primary, Fallback
<1>3. /\ sent["th"] \in Nat /\ sent["outer"] \in Nat /\ Carries("th") /\ Carries("outer") /\ Carries("either")
      /\ Got("inner") \in Nat /\ Quota \in Nat \ {0} /\ Got("th") \in Nat /\ sent["either"] \in Nat
      /\ Top \in {"dns", "outer", "either"} /\ Len(Stream("inner")) \in Nat
  BY <1>1, StateTypes
<1>4. Idle("dns") /\ ~AtEOF("dns") /\ Got("dns") = 0
  BY <1>2 DEF Started, Idle, AtEOF, Got, Held
<1>5. \A s \in Stages \ spawned : Idle(s)
  BY <1>2 DEF Started
<1>6. Idle("th") /\ (Top # "dns" => todo = <<>>)
  <2>1. CASE Top = "dns"
    <3>1. "th" \notin spawned
      BY <2>1, WhoRuns
    <3> QED
      BY <1>1, <1>5, <2>1, <3>1
  <2>2. CASE Top # "dns"
    <3>1. Extending /\ VariantsOf(0) = <<>> /\ todo \in Seq(Tactic)
      BY <1>2, <2>2, VariantsTypes DEF IInv, TypeOK
    <3>2. /\ 0 - Len(todo) >= 0 /\ sent["th"] = 0 + (0 - Len(todo))
          /\ ~closed["th"]
      BY <1>4, <3>1 DEF Extending
    <3>3. Len(todo) = 0 /\ sent["th"] = 0
      BY <3>1, <3>2
    <3>4. todo = <<>>
      BY <3>1, <3>3
    <3> QED
      BY <1>3, <3>2, <3>3, <3>4 DEF Idle, Carries
  <2> QED
    BY <2>1, <2>2
<1>7. Idle("outer") /\ "p" \notin mix["outer"].drained
  <2>1. Got("th") = 0 /\ ~AtEOF("th")
    BY <1>6 DEF Idle, Got, Held, AtEOF
  <2>2. PICK x \in [side : {"p", "f"}, taken : 0..Quota, drained : SUBSET {"p", "f"}] : x = mix["outer"]
    BY <1>2 DEF TypeOK, Mixers
  <2>3. "p" \notin x.drained /\ ~closed["outer"] /\ sent["outer"] = Got("inner")
    BY <1>2, <1>3, <2>1, <2>2 DEF Mixing
  <2>4. PICK r \in Nat : AfterRounds("outer", r)
    BY <1>2 DEF Mixing
  <2>5. PICK n \in Nat \ {0}, c \in Nat : n = Quota /\ c = r * Quota
    BY <1>3
  <2>6. 0 = c + (IF x.side = "p" THEN x.taken ELSE n)
    BY <1>2, <2>1, <2>2, <2>3, <2>4, <2>5 DEF AfterRounds, Read
  <2>7. x.side = "p" /\ c = 0
    BY <2>2, <2>5, <2>6
  <2>8. Read("f" \in x.drained, Got("inner"), Len(Stream("inner")), 0 + 0)
    BY <1>2, <2>2, <2>4, <2>5, <2>7 DEF AfterRounds
  <2>9. Got("inner") = 0
    BY <1>3, <2>8 DEF Read
  <2> QED
    BY <1>3, <2>2, <2>3, <2>9 DEF Idle, Carries
<1>8. Idle("either")
  <2>1. CASE "either" \in spawned
    <3>1. Top = "either" /\ either = "outer"
      BY <2>1, <1>2, WhoRuns DEF Started, TypeOK, Composed
    <3>2. Got("outer") = 0 /\ ~AtEOF("outer")
      BY <1>7 DEF Idle, Got, Held, AtEOF
    <3>3. sent["either"] = 0 /\ ~closed["either"]
      BY <1>2, <3>1, <3>2 DEF Choosing
    <3> QED
      BY <1>3, <3>3 DEF Idle, Carries
  <2>2. CASE "either" \notin spawned
    BY <1>1, <1>5, <2>2
  <2> QED
    BY <2>1, <2>2
<1> QED
  BY <1>3, <1>4, <1>6, <1>7, <1>8

\* Where the stages start.
LEMMA AtFirst ==
  TypeOK => /\ \A s \in Emitters : Len(Stream(s)) \in Nat
            /\ VariantsOf(0) = <<>> /\ FirstOccurrences(Stream(Top))[0] = <<>>
<1> SUFFICES ASSUME TypeOK
    PROVE  /\ \A s \in Emitters : Len(Stream(s)) \in Nat
           /\ VariantsOf(0) = <<>> /\ FirstOccurrences(Stream(Top))[0] = <<>>
  OBVIOUS
<1>1. \A s \in Emitters : Len(Stream(s)) \in Nat
  <2> SUFFICES ASSUME NEW s \in Emitters PROVE Len(Stream(s)) \in Nat
    OBVIOUS
  <2>1. PICK T : Stream(s) \in Seq(T)
    BY StreamTypes
  <2> QED
    BY <2>1
<1>2. VariantsOf(0) = <<>>
  BY VariantsTypes
<1>3. FirstOccurrences(Stream(Top))[0] = <<>>
  <2>1. Top \in Emitters
    BY DEF Top, Emitters, Stages, Sources, Mixers
  <2>2. PICK T : Stream(Top) \in Seq(T)
    BY <2>1, StreamTypes
  <2>3. PICK q \in Seq(T) : q = Stream(Top)
    BY <2>2
  <2>4. PICK f : f = FirstOccurrences(q)
    OBVIOUS
  <2>5. f[0] = <<>>
    BY <2>4, FirstOccurrencesFirst
  <2> QED
    BY <2>3, <2>4, <2>5
<1> QED
  BY <1>1, <1>2, <1>3

\* The DNS lookup decides what the DNS policy has to offer, before anyone has got any of it.
LEMMA DNSLookupStep ==
  ASSUME IInv, DNSLookup PROVE IInv'
<1>1. /\ Free("dns") /\ dnsDone = "pending" /\ dnsDone' \in {"skipped", "done"}
      /\ UNCHANGED <<in, spawned, slot, closed, sent, mix, todo, count, either, ctxDone, out>>
  BY DEF DNSLookup
<1>2. TypeOK /\ Started /\ Choosing /\ Filtering /\ "dns" \in spawned
  BY <1>1 DEF IInv, Free
<1>3. Quota' = Quota /\ Top' = Top
  BY <1>1 DEF Quota, Top
<1>4. TypeOK'
  BY <1>1, <1>2, <1>3 DEF TypeOK
<1>5. /\ Idle("dns") /\ Idle("th") /\ Idle("outer") /\ Idle("either") /\ Idle(Top)
      /\ Top # "dns" => todo = <<>>
      /\ "p" \notin mix["outer"].drained
  BY <1>1, <1>2, BeforeLookup
<1>6. \A s : Got(s)' = Got(s) /\ Steady(s) /\ (AtEOF(s)' <=> AtEOF(s)) /\ Keeps(s)
  BY <1>1, AllSteady
<1>7. \A s \in {"user", "stats", "bridges", "inner"} : Stream(s)' = Stream(s)
  BY <1>1, SameUser DEF Stream, Sources, Items, Mixed
<1>8. /\ \A s \in Emitters : Len(Stream(s))' \in Nat
      /\ VariantsOf(0)' = <<>> /\ FirstOccurrences(Stream(Top))[0]' = <<>>
  <2>1. (TypeOK => /\ \A s \in Emitters : Len(Stream(s)) \in Nat
                   /\ VariantsOf(0) = <<>> /\ FirstOccurrences(Stream(Top))[0] = <<>>)'
    BY AtFirst, PTL
  <2> QED
    BY <1>4, <2>1
<1>9. ASSUME NEW s \in Emitters PROVE Carries(s)'
  <2>1. CASE s \in {"user", "stats", "bridges", "inner"}
    BY <1>6, <1>7, <2>1, ChannelStep
  <2>2. CASE Idle(s)
    BY <1>1, <1>8, <2>2 DEF Idle, Carries
  <2> QED
    BY <1>5, <2>1, <2>2 DEF Emitters, Stages, Sources, Mixers
<1>10. Started'
  BY <1>1, <1>2, <1>3 DEF Started, Idle
<1>11. (Top # "dns" => Extending)'
  <2> SUFFICES ASSUME Top # "dns" PROVE Extending'
    BY <1>3
  <2>1. Got("dns")' = 0 /\ todo' = <<>> /\ sent'["th"] = 0 /\ ~closed'["th"]
    BY <1>1, <1>5, <1>6 DEF Idle, Got, Held
  <2>2. VariantsOf(Got("dns"))' = <<>>
    BY <1>8, <2>1
  <2>3. Len(<<>>) = 0
    OBVIOUS
  <2> QED
    BY <2>1, <2>2, <2>3 DEF Extending
<1>12. Choosing'
  BY <1>1, <1>2, <1>3, <1>6, SameUser DEF Choosing
<1>13. Filtering'
  <2>1. Got(Top) = 0 /\ ~AtEOF(Top)
    BY <1>5 DEF Idle, Got, Held, AtEOF
  <2>2. Got(Top)' = 0
    BY <1>3, <1>6, <2>1
  <2>3. out = <<>>
    BY <1>2, <2>1, AtFirst DEF Filtering
  <2>4. ~closed["filter"] /\ slot["filter"] = None
    BY <1>2, <2>1 DEF Filtering
  <2>5. FirstOccurrences(Stream(Top))[Got(Top)]' = <<>>
    BY <1>8, <2>2
  <2> QED
    BY <1>1, <2>3, <2>4, <2>5 DEF Filtering
<1>14. Mixing("inner")'
  <2>1. Primary("inner") = "stats" /\ Fallback("inner") = "bridges" /\ "inner" \in Mixers
    BY DEF Primary, Fallback, Mixers
  <2> QED
    BY <1>1, <1>3, <1>6, <1>7, <2>1, MixingKept
<1>15. Mixing("outer")'
  <2>1. Primary("outer") = "th" /\ Fallback("outer") = "inner" /\ Mixing("outer")
    BY DEF Primary, Fallback, Mixers, IInv
  <2>2. PICK r \in Nat : AfterRounds("outer", r)
    BY <2>1 DEF Mixing
  <2>3. AfterRounds("outer", r)'
    <3>1. mix' = mix /\ Got("th")' = Got("th") /\ Got("inner")' = Got("inner") /\ Stream("inner")' = Stream("inner")
      BY <1>1, <1>6, <1>7
    <3> QED
      BY <1>3, <1>5, <2>1, <2>2, <3>1 DEF AfterRounds, Read
  <2> QED
    BY <1>1, <1>6, <2>1, <2>3 DEF Mixing
<1> QED
  BY <1>4, <1>9, <1>10, <1>11, <1>12, <1>13, <1>14, <1>15 DEF IInv, Mixers

-----------------------------------------------------------------------------
\* Initially nothing has happened.
LEMMA InitHolds ==
  ASSUME Init PROVE IInv
<1>1. /\ in \in Inputs /\ slot = [s \in Stages |-> None] /\ closed = [s \in Stages |-> FALSE]
      /\ sent = [s \in Stages |-> 0] /\ dnsDone = "pending" /\ todo = <<>> /\ count = 0
      /\ mix = [m \in Mixers |-> [side |-> "p", taken |-> 0, drained |-> {}]]
      /\ either = "user" /\ ctxDone = FALSE /\ out = <<>>
      /\ spawned = {"filter"} \union (IF Top = "dns" THEN {"dns"}
                                      ELSE IF Top = "either" THEN {"either", "user"}
                                      ELSE Composed)
  BY DEF Init
<1>2. Quota \in Nat \ {0}
  <2>1. in.factor \in Nat
    BY <1>1, PolicyAssumption
  <2> QED
    BY <2>1 DEF Quota, AtLeastOne
<1>3. TypeOK
  <2>1. spawned \subseteq Stages
    BY <1>1 DEF Composed, Stages, Sources, Mixers
  <2>2. slot \in [Stages -> Tactic \union {None}] /\ closed \in [Stages -> BOOLEAN] /\ sent \in [Stages -> Nat]
    BY <1>1
  <2>3. mix \in [Mixers -> [side : {"p", "f"}, taken : 0..Quota, drained : SUBSET {"p", "f"}]]
    BY <1>1, <1>2
  <2>4. todo \in Seq(Tactic)
    BY <1>1
  <2>5. out \in Seq([tactic : Tactic, delay : Nat])
    <3>1. \A U : <<>> \in Seq(U)
      OBVIOUS
    <3> QED
      BY <1>1, <3>1
  <2> QED
    BY <1>1, <2>1, <2>2, <2>3, <2>4, <2>5 DEF TypeOK
<1>4. /\ \A s \in Emitters : Len(Stream(s)) \in Nat
      /\ VariantsOf(0) = <<>> /\ FirstOccurrences(Stream(Top))[0] = <<>>
  BY <1>3, AtFirst
<1>5. \A s \in Stages : Idle(s) /\ Got(s) = 0 /\ ~AtEOF(s)
  BY <1>1 DEF Idle, Got, Held, AtEOF
<1>6. \A s \in Emitters : Carries(s)
  BY <1>4, <1>5 DEF Idle, Carries, Emitters
<1>7. Top \in {"dns", "outer", "either"} /\ {"dns", "th", "user", "either", "filter"} \subseteq Stages /\ Top \in Stages
  BY DEF Top, Stages, Sources, Mixers
<1>8. Started
  BY <1>1, <1>5, <1>7 DEF Started
<1>9. Extending
  <2>1. Got("dns") = 0 /\ sent["th"] = 0 /\ ~closed["th"] /\ Len(<<>>) = 0
    BY <1>5, <1>7 DEF Idle
  <2>2. VariantsOf(Got("dns")) = <<>>
    BY <1>4, <2>1
  <2> QED
    BY <1>1, <2>1, <2>2 DEF Extending
<1>10. Choosing
  BY <1>1, <1>5, <1>7 DEF Choosing, Idle
<1>11. Filtering
  BY <1>1, <1>4, <1>5, <1>7 DEF Filtering, Idle
<1>12. ASSUME NEW m \in Mixers PROVE Mixing(m)
  <2>1. Primary(m) \in Stages /\ Fallback(m) \in Stages /\ m \in Stages
    BY DEF Primary, Fallback, Mixers, Stages, Sources
  <2>2. mix[m] = [side |-> "p", taken |-> 0, drained |-> {}]
    BY <1>1
  <2>3. AfterRounds(m, 0)
    <3>1. 0 * Quota = 0
      BY <1>2
    <3> QED
      BY <1>5, <2>1, <2>2, <3>1 DEF AfterRounds, Read
  <2> QED
    BY <1>5, <2>1, <2>2, <2>3 DEF Mixing, Idle
<1> QED
  BY <1>3, <1>6, <1>8, <1>9, <1>10, <1>11, <1>12 DEF IInv

\* Every step keeps the invariant.
LEMMA NextHolds ==
  ASSUME IInv, [Next]_vars PROVE IInv'
<1>1. CASE \E s \in Sources : SourceSend(s) \/ SourceClose(s)
  BY <1>1, SourceSendStep, SourceCloseStep
<1>2. CASE DNSLookup
  BY <1>2, DNSLookupStep
<1>3. CASE \E m \in Mixers : MixTake(m) \/ MixTurn(m) \/ MixClose(m)
  BY <1>3, MixTakeStep, MixTurnStep, MixCloseStep
<1>4. CASE THForward \/ THVariant \/ THClose
  BY <1>4, THForwardStep, THVariantStep, THCloseStep
<1>5. CASE EitherForward \/ EitherFallback \/ EitherClose
  BY <1>5, EitherForwardStep, EitherFallbackStep, EitherCloseStep
<1>6. CASE FilterForward
  BY <1>6, FilterForwardStep
<1>7. CASE FilterClose \/ Cancel \/ UNCHANGED vars
  BY <1>7, OtherSteps
<1> QED
  BY <1>1, <1>2, <1>3, <1>4, <1>5, <1>6, <1>7 DEF Next, GoRoutines

\* The invariant gives the three properties.
LEMMA InvariantSays ==
  ASSUME IInv PROVE TypeOK /\ StreamIsReference /\ UserPolicyExcludes
<1>1. TypeOK
  BY DEF IInv
<1>2. StreamIsReference
  <2>1. Top \in Emitters
    BY StateTypes
  <2>2. PICK T : Stream(Top) \in Seq(T)
    BY <1>1, <2>1, StreamTypes
  <2>3. PICK q \in Seq(T) : q = Stream(Top)
    BY <2>2
  <2>4. PICK f : f = FirstOccurrences(q)
    OBVIOUS
  <2>5. PICK k \in 0..Len(q) : k = Got(Top)
    BY <2>1, <2>3, StateTypes
  <2>6. out = f[k] /\ Reference = f[Len(q)]
    BY <2>3, <2>4, <2>5 DEF IInv, Filtering, Reference, Filtered
  <2>7. IsPrefix(f[k], Filtered(q))
    BY <2>4, FirstOccurrencesPrefix
  <2>8. closed["filter"] => k = Len(q)
    BY <2>1, <2>3, <2>5, EndOfStream DEF IInv, Filtering
  <2> QED
    BY <2>3, <2>6, <2>7, <2>8 DEF StreamIsReference, Reference
<1>3. UserPolicyExcludes
  <2> SUFFICES ASSUME ~in.proxy, in.hasUser, UserTactics # <<>>
               PROVE  spawned \intersect Composed = {} /\ dnsDone = "pending"
    BY DEF UserPolicyExcludes
  <2>1. Top = "either" /\ either = "user"
    BY DEF Top, IInv, Choosing, TypeOK
  <2>2. spawned = {"filter", "either", "user"} /\ (dnsDone # "pending" => "dns" \in spawned)
    BY <2>1 DEF IInv, Started
  <2> QED
    BY <2>2 DEF Composed
<1> QED
  BY <1>1, <1>2, <1>3

\* The invariant is inductive.
LEMMA IInvAlways == Spec => []IInv
<1>1. Init => IInv
  BY InitHolds
<1>2. IInv /\ [Next]_vars => IInv'
  BY NextHolds
<1> QED
  BY <1>1, <1>2, PTL DEF Spec

\* The state of the pipeline has its types: among others, every tactic that is remembered,
\* in transit or delivered is a tactic, and no mixer takes more than its quota.
THEOREM PolicyTypeCorrect == Spec => []TypeOK
<1>1. IInv => TypeOK
  BY InvariantSays
<1> QED
  BY <1>1, IInvAlways, PTL

\* However the goroutines of the policies interleave, and whenever the context is
\* cancelled, the workers receive a beginning of the documented stream of tactics, with
\* its delays and without duplicates, and all of it when the channel is closed.
THEOREM StreamIsReferenceAlways == Spec => []StreamIsReference
<1>1. IInv => StreamIsReference
  BY InvariantSays
<1> QED
  BY <1>1, IInvAlways, PTL

\* For an endpoint with user tactics, no goroutine of the composed policy is ever started
\* and no DNS lookup is made.
THEOREM UserPolicyExcludesAlways == Spec => []UserPolicyExcludes
<1>1. IInv => UserPolicyExcludes
  BY InvariantSays
<1> QED
  BY <1>1, IInvAlways, PTL

-----------------------------------------------------------------------------
(* The statistics.                                                         *)

\* A record, without the bounds of a run.
AnyRecord == [count : [Counters -> Nat], updated : Nat, tactic : Tactics]

\* A container with records of tactics, or with entries that may be malformed.
IsContainer(c, values) ==
  DOMAIN c \subseteq Tactics /\ \A t \in DOMAIN c : c[t] \in values

\* The types that the argument needs.
StatsTypes ==
  /\ IsContainer(container, AnyRecord)
  /\ disk = Unreadable \/ IsContainer(disk, AnyRecord \union {Nil})
  /\ attempt \in [Attempts -> Tactics \union {Nil}]
  /\ now \in Nat /\ base \in [Tactics -> Int]

\* The attempts end with their process.
NoneWhenDown == run = "down" => \A a \in Attempts : attempt[a] = Nil

\* A tactic without a record starts from nothing: if it is not one whose record was
\* dropped under an attempt, there is no attempt that could still report to it.
Absent ==
  \A t \in Tactics \ DOMAIN container :
    base[t] = 0 /\ (t \notin orphaned => InFlight(t) = {})

StatsIInv == StatsTypes /\ NoneWhenDown /\ Absent /\ CountersBalance

\* One more event is counted in a record: a start is one more attempt without an
\* outcome, and an outcome one less.
LEMMA UpdateCounts ==
  ASSUME NEW t, NEW r \in AnyRecord, NEW k \in Counters, now \in Nat
  PROVE  /\ Update(t, r, k) \in AnyRecord /\ Unended(r) \in Int
         /\ k = "started" => Unended(Update(t, r, k)) = Unended(r) + 1
         /\ k \in Outcomes => Unended(Update(t, r, k)) = Unended(r) - 1
<1> DEFINE c == r.count
           d == [c EXCEPT ![k] = c[k] + 1]
<1>1. c \in [Counters -> Nat] /\ r.updated \in Nat /\ r.tactic \in Tactics
  BY DEF AnyRecord
<1>2. Update(t, r, k) = [count |-> d, updated |-> now, tactic |-> r.tactic]
  <2>1. r = [count |-> c, updated |-> r.updated, tactic |-> r.tactic]
    BY DEF AnyRecord
  <2>2. [r EXCEPT !.count[k] = r.count[k] + 1] = [count |-> d, updated |-> r.updated, tactic |-> r.tactic]
    BY <2>1
  <2>3. Update(t, r, k) = [[r EXCEPT !.count[k] = r.count[k] + 1] EXCEPT !.updated = now]
    BY DEF Update
  <2> QED
    BY <2>2, <2>3
<1>3. d \in [Counters -> Nat] /\ \A j \in Counters : d[j] = IF j = k THEN c[j] + 1 ELSE c[j]
  BY <1>1
<1>4. Update(t, r, k) \in AnyRecord /\ Update(t, r, k).count = d
  BY <1>1, <1>2, <1>3 DEF AnyRecord
<1> HIDE DEF c, d
<1>5. Unended(r) \in Int
  BY <1>1 DEF Unended, Counters, Outcomes, c
<1>6. k = "started" => Unended(Update(t, r, k)) = Unended(r) + 1
  BY <1>1, <1>3, <1>4 DEF Unended, Counters, Outcomes, c
<1>7. k \in Outcomes => Unended(Update(t, r, k)) = Unended(r) - 1
  BY <1>1, <1>3, <1>4 DEF Unended, Counters, Outcomes, c
<1> QED
  BY <1>4, <1>5, <1>6, <1>7

\* A new record has nothing in it.
LEMMA NewRecordCounts ==
  ASSUME NEW t \in Tactics PROVE NewRecord(t) \in AnyRecord /\ Unended(NewRecord(t)) = 0
  BY DEF NewRecord, AnyRecord, Unended, Counters, Outcomes

\* A prune keeps some of the records as they are.
LEMMA PruneKeeps ==
  ASSUME NEW c, NEW order, IsContainer(c, AnyRecord \union {Nil})
  PROVE  /\ IsContainer(Prune(c, order), AnyRecord)
         /\ DOMAIN Prune(c, order) \subseteq DOMAIN c
         /\ \A t \in DOMAIN Prune(c, order) : Prune(c, order)[t] = c[t]
  BY DEF Prune, WellFormed, IsContainer

\* The attempts of a tactic are finitely many.
LEMMA InFlightFinite ==
  ASSUME NEW t PROVE IsFiniteSet(InFlight(t)) /\ Cardinality(InFlight(t)) \in Nat
<1>1. InFlight(t) \in SUBSET Attempts
  BY DEF InFlight
<1> QED
  BY <1>1, StatsAssumption, FS_Subset, FS_CardinalityType

\* Nothing has been started.
LEMMA StatsInitIInv == StatsInit => StatsIInv
<1> SUFFICES ASSUME StatsInit PROVE StatsIInv
  OBVIOUS
<1>1. DOMAIN container = {}
  BY DEF StatsInit, Empty
<1>2. \A t \in Tactics : InFlight(t) = {}
  BY StatsAssumption DEF StatsInit, InFlight
<1>3. StatsTypes /\ NoneWhenDown
  BY <1>1 DEF StatsInit, StatsTypes, NoneWhenDown, IsContainer
<1>4. Absent /\ CountersBalance
  BY <1>1, <1>2 DEF StatsInit, Absent, CountersBalance
<1> QED
  BY <1>3, <1>4 DEF StatsIInv

\* A step that leaves the records and the attempts alone.
LEMMA StatsFrame ==
  ASSUME StatsIInv, UNCHANGED <<container, attempt, base, orphaned>>,
         disk' = Unreadable \/ IsContainer(disk, AnyRecord \union {Nil})',
         now' \in Nat, run' = "down" => run = "down"
  PROVE  StatsIInv'
  BY DEF StatsIInv, StatsTypes, NoneWhenDown, Absent, CountersBalance, InFlight, IsContainer

\* The start of an attempt.
LEMMA OnStartingStep ==
  ASSUME StatsIInv, NEW a \in Attempts, NEW t \in Tactics, OnStarting(a, t) PROVE StatsIInv'
<1> USE DEF processVars, history
<1> DEFINE r == IF Found(t) THEN container[t] ELSE NewRecord(t)
<1>1. /\ attempt[a] = Nil /\ attempt' = [attempt EXCEPT ![a] = t]
      /\ container' = [u \in DOMAIN container \union {t} |->
                         IF u = t THEN Update(t, r, "started") ELSE container[u]]
      /\ run # "down" /\ UNCHANGED <<disk, run, now, base, orphaned>>
  BY DEF OnStarting
<1>2. /\ IsContainer(container, AnyRecord) /\ attempt \in [Attempts -> Tactics \union {Nil}]
      /\ now \in Nat /\ base \in [Tactics -> Int] /\ Nil \notin Tactics
  BY StatsAssumption DEF StatsIInv, StatsTypes
<1>3. r \in AnyRecord
  BY <1>2, NewRecordCounts DEF Found, IsContainer
<1> HIDE DEF r
<1>4. /\ Update(t, r, "started") \in AnyRecord /\ Unended(r) \in Int
      /\ Unended(Update(t, r, "started")) = Unended(r) + 1
  BY <1>2, <1>3, UpdateCounts DEF Counters
<1>5. /\ InFlight(t)' = InFlight(t) \union {a} /\ a \notin InFlight(t)
      /\ \A u \in Tactics \ {t} : InFlight(u)' = InFlight(u)
  BY <1>1, <1>2 DEF InFlight
<1>6. Cardinality(InFlight(t)') = Cardinality(InFlight(t)) + 1
  BY <1>5, InFlightFinite, FS_AddElement
<1>7. /\ DOMAIN container' = DOMAIN container \union {t}
      /\ container'[t] = Update(t, r, "started")
      /\ \A u \in DOMAIN container \ {t} : container'[u] = container[u]
  BY <1>1
<1>8. StatsTypes'
  BY <1>1, <1>2, <1>4, <1>7 DEF StatsIInv, StatsTypes, IsContainer
<1>9. NoneWhenDown'
  BY <1>1 DEF NoneWhenDown
<1>10. Absent'
  BY <1>1, <1>2, <1>5, <1>7 DEF StatsIInv, Absent
<1>11. CountersBalance'
  <2> SUFFICES ASSUME NEW u \in DOMAIN container', u \notin orphaned
               PROVE  Unended(container'[u]) = base[u] + Cardinality(InFlight(u)')
    BY <1>1 DEF CountersBalance
  <2>1. CASE u # t
    BY <1>2, <1>5, <1>7, <2>1 DEF StatsIInv, CountersBalance, IsContainer
  <2>2. CASE u = t /\ Found(t)
    BY <1>2, <1>4, <1>6, <1>7, <2>2, InFlightFinite DEF StatsIInv, CountersBalance, Found, r
  <2>3. CASE u = t /\ ~Found(t)
    <3>1. base[t] = 0 /\ InFlight(t) = {}
      BY <2>3 DEF StatsIInv, Absent, Found
    <3>2. Unended(r) = 0 /\ Cardinality(InFlight(t)) = 0
      BY <2>3, <3>1, NewRecordCounts, FS_EmptySet DEF r
    <3> QED
      BY <1>4, <1>6, <1>7, <2>3, <3>1, <3>2
  <2> QED
    BY <2>1, <2>2, <2>3
<1> QED
  BY <1>8, <1>9, <1>10, <1>11 DEF StatsIInv

\* The outcome of an attempt, which is lost with the record it belongs to.
LEMMA OnOutcomeStep ==
  ASSUME StatsIInv, NEW a \in Attempts, NEW k \in Reported, OnOutcome(a, k) PROVE StatsIInv'
<1> USE DEF processVars, bounds, history
<1>0. PICK t : t = attempt[a]
  OBVIOUS
<1>1. /\ t # Nil /\ attempt' = [attempt EXCEPT ![a] = Nil]
      /\ IF t \in DOMAIN container
           THEN container' = [container EXCEPT ![t] = Update(t, container[t], k)]
           ELSE container' = container
      /\ run # "down" /\ UNCHANGED <<disk, run, now, base, orphaned>>
  BY <1>0 DEF OnOutcome, Found
<1>2. /\ IsContainer(container, AnyRecord) /\ attempt \in [Attempts -> Tactics \union {Nil}]
      /\ now \in Nat /\ base \in [Tactics -> Int] /\ Nil \notin Tactics
  BY StatsAssumption DEF StatsIInv, StatsTypes
<1>3. t \in Tactics /\ k \in Outcomes /\ k \in Counters
  BY <1>0, <1>1, <1>2, StatsAssumption DEF Counters
<1>4. /\ InFlight(t)' = InFlight(t) \ {a} /\ a \in InFlight(t)
      /\ \A u \in Tactics \ {t} : InFlight(u)' = InFlight(u)
  BY <1>0, <1>1, <1>2, <1>3 DEF InFlight
<1>5. Cardinality(InFlight(t)') = Cardinality(InFlight(t)) - 1
  BY <1>4, InFlightFinite, FS_RemoveElement
<1>6. /\ DOMAIN container' = DOMAIN container
      /\ t \in DOMAIN container => container'[t] = Update(t, container[t], k)
      /\ \A u \in DOMAIN container \ {t} : container'[u] = container[u]
  BY <1>1
<1>7. t \in DOMAIN container =>
        /\ Update(t, container[t], k) \in AnyRecord /\ Unended(container[t]) \in Int
        /\ Unended(Update(t, container[t], k)) = Unended(container[t]) - 1
  BY <1>2, <1>3, UpdateCounts DEF IsContainer
<1>8. StatsTypes'
  BY <1>1, <1>2, <1>6, <1>7 DEF StatsIInv, StatsTypes, IsContainer
<1>9. NoneWhenDown'
  BY <1>1 DEF NoneWhenDown
<1>10. Absent'
  BY <1>1, <1>2, <1>4, <1>6 DEF StatsIInv, Absent
<1>11. CountersBalance'
  <2> SUFFICES ASSUME NEW u \in DOMAIN container, u \notin orphaned
               PROVE  Unended(container'[u]) = base[u] + Cardinality(InFlight(u)')
    BY <1>1, <1>6 DEF CountersBalance
  <2>1. u \in Tactics /\ Unended(container[u]) = base[u] + Cardinality(InFlight(u))
    BY <1>2 DEF StatsIInv, CountersBalance, IsContainer
  <2>2. CASE u # t
    BY <1>4, <1>6, <2>1, <2>2
  <2>3. CASE u = t
    BY <1>2, <1>5, <1>6, <1>7, <2>1, <2>3, InFlightFinite
  <2> QED
    BY <2>2, <2>3
<1> QED
  BY <1>8, <1>9, <1>10, <1>11 DEF StatsIInv

\* A trim remembers the tactics whose record it drops under an attempt.
LEMMA TrimStep == ASSUME StatsIInv, Trim PROVE StatsIInv'
<1> USE DEF processVars, bounds, history
<1>1. PICK order : container' = Prune(container, order)
  BY DEF Trim
<1>2. /\ orphaned' = orphaned \union {t \in DOMAIN container \ DOMAIN container' : InFlight(t) # {}}
      /\ base' = [t \in Tactics |-> IF t \in DOMAIN container' THEN base[t] ELSE 0]
      /\ UNCHANGED <<disk, run, attempt, now>>
  BY DEF Trim
<1>3. IsContainer(container, AnyRecord \union {Nil}) /\ base \in [Tactics -> Int]
  BY DEF StatsIInv, StatsTypes, IsContainer
<1>4. /\ IsContainer(container', AnyRecord) /\ DOMAIN container' \subseteq DOMAIN container
      /\ \A t \in DOMAIN container' : container'[t] = container[t]
  BY <1>1, <1>3, PruneKeeps
<1>5. \A t : InFlight(t)' = InFlight(t)
  BY <1>2 DEF InFlight
<1>6. StatsTypes'
  BY <1>2, <1>3, <1>4 DEF StatsIInv, StatsTypes, IsContainer
<1>7. NoneWhenDown'
  BY <1>2 DEF StatsIInv, NoneWhenDown
<1>8. Absent'
  BY <1>2, <1>5 DEF StatsIInv, Absent
<1>9. CountersBalance'
  BY <1>2, <1>4, <1>5 DEF StatsIInv, CountersBalance, IsContainer
<1> QED
  BY <1>6, <1>7, <1>8, <1>9 DEF StatsIInv

\* A new process starts from what it loads, and has no attempts.
LEMMA NewStatsManagerStep == ASSUME StatsIInv, NewStatsManager PROVE StatsIInv'
<1>1. /\ run = "down" /\ run' = "up" /\ orphaned' = {}
      /\ base' = [t \in Tactics |-> IF t \in DOMAIN container' THEN Unended(container'[t]) ELSE 0]
      /\ UNCHANGED <<disk, attempt, now>>
  BY DEF NewStatsManager
<1>2. IsContainer(container', AnyRecord)
  <2>1. CASE disk = Unreadable
    BY <2>1 DEF NewStatsManager, Empty, IsContainer
  <2>2. CASE disk # Unreadable
    <3>1. PICK order : container' = Prune(disk, order)
      BY <2>2 DEF NewStatsManager
    <3> QED
      BY <2>2, <3>1, PruneKeeps DEF StatsIInv, StatsTypes
  <2> QED
    BY <2>1, <2>2
<1>3. \A t \in Tactics : InFlight(t)' = {}
  BY <1>1, StatsAssumption DEF StatsIInv, NoneWhenDown, InFlight
<1>4. \A t \in DOMAIN container' : t \in Tactics /\ Unended(container'[t]) \in Int
  <2> SUFFICES ASSUME NEW t \in DOMAIN container' PROVE t \in Tactics /\ Unended(container'[t]) \in Int
    OBVIOUS
  <2>1. t \in Tactics /\ container'[t] \in AnyRecord
    BY <1>2 DEF IsContainer
  <2>2. now \in Nat /\ "started" \in Counters
    BY DEF StatsIInv, StatsTypes, Counters
  <2> QED
    BY <2>1, <2>2, UpdateCounts
<1>5. StatsTypes'
  BY <1>1, <1>2, <1>4 DEF StatsIInv, StatsTypes, IsContainer
<1>6. NoneWhenDown'
  BY <1>1 DEF NoneWhenDown
<1>7. Absent'
  BY <1>1, <1>3 DEF Absent
<1>8. CountersBalance'
  BY <1>1, <1>3, <1>4, FS_EmptySet DEF CountersBalance
<1> QED
  BY <1>5, <1>6, <1>7, <1>8 DEF StatsIInv

\* The end of a process.
LEMMA ExitStep == ASSUME StatsIInv, Exit PROVE StatsIInv'
<1> USE DEF bounds
<1>1. DOMAIN container' = {}
  BY DEF Exit, Empty
<1>2. \A t \in Tactics : InFlight(t)' = {}
  BY StatsAssumption DEF Exit, InFlight
<1>3. disk' = Unreadable \/ IsContainer(disk, AnyRecord \union {Nil})'
  BY DEF Exit, StatsIInv, StatsTypes, IsContainer
<1>4. StatsTypes' /\ NoneWhenDown'
  BY <1>1, <1>3 DEF Exit, StatsIInv, StatsTypes, NoneWhenDown, IsContainer
<1>5. Absent' /\ CountersBalance'
  BY <1>1, <1>2 DEF Exit, Absent, CountersBalance
<1> QED
  BY <1>4, <1>5 DEF StatsIInv

\* Close saves a pruned copy; a user may edit it afterwards.
LEMMA FileStep == ASSUME StatsIInv, CloseSave \/ EditFile PROVE StatsIInv'
<1> USE DEF processVars, bounds
<1>1. /\ UNCHANGED <<container, attempt, base, orphaned, now>>
      /\ run' = "down" => run = "down"
  BY DEF CloseSave, EditFile
<1>2. /\ IsContainer(container, AnyRecord \union {Nil})
      /\ disk = Unreadable \/ IsContainer(disk, AnyRecord \union {Nil})
      /\ now \in Nat
  BY DEF StatsIInv, StatsTypes, IsContainer
<1>3. disk' = Unreadable \/ IsContainer(disk', AnyRecord \union {Nil})
  <2>1. CASE CloseSave
    <3>1. CASE disk' = disk
      BY <1>2, <3>1
    <3>2. CASE \E order : disk' = Prune(container, order)
      BY <1>2, <3>2, PruneKeeps DEF IsContainer
    <3> QED
      BY <2>1, <3>1, <3>2 DEF CloseSave
  <2>2. CASE EditFile
    BY <1>2, <2>2 DEF EditFile, IsContainer
  <2> QED
    BY <2>1, <2>2
<1>4. disk' = Unreadable \/ IsContainer(disk, AnyRecord \union {Nil})'
  BY <1>3 DEF IsContainer
<1> QED
  BY <1>1, <1>2, <1>4, StatsFrame

\* The invariant is inductive.
LEMMA StatsIInvAlways == StatsSpec => []StatsIInv
<1>1. StatsIInv /\ [StatsNext]_statsVars => StatsIInv'
  <2> SUFFICES ASSUME StatsIInv, [StatsNext]_statsVars PROVE StatsIInv'
    OBVIOUS
  <2> USE DEF processVars, bounds, history
  <2>1. /\ disk = Unreadable \/ IsContainer(disk, AnyRecord \union {Nil})
        /\ now \in Nat
    BY DEF StatsIInv, StatsTypes
  <2>2. CASE Tick \/ TrimExit \/ CloseCancel \/ CloseWait \/ UNCHANGED statsVars
    <3>1. /\ UNCHANGED <<container, attempt, base, orphaned, disk>>
          /\ now' \in Nat /\ (run' = "down" => run = "down")
      BY <2>1, <2>2 DEF Tick, TrimExit, CloseCancel, CloseWait, statsVars
    <3>2. disk' = Unreadable \/ IsContainer(disk, AnyRecord \union {Nil})'
      BY <2>1, <3>1 DEF IsContainer
    <3> QED
      BY <3>1, <3>2, StatsFrame
  <2>3. CASE NewStatsManager \/ Exit \/ Trim
    BY <2>3, NewStatsManagerStep, ExitStep, TrimStep
  <2>4. CASE EditFile \/ CloseSave
    BY <2>4, FileStep
  <2>5. CASE \E a \in Attempts : \/ \E t \in Tactics : OnStarting(a, t)
                                 \/ \E k \in Reported : OnOutcome(a, k)
    BY <2>5, OnStartingStep, OnOutcomeStep
  <2> QED
    BY <2>2, <2>3, <2>4, <2>5 DEF StatsNext
<1> QED
  BY <1>1, StatsInitIInv, PTL DEF StatsSpec

\* As long as no prune has dropped a record under a running attempt, the counters of a
\* record add up, for any number of dials, prunes, crashes and restarts: callbacks are
\* neither lost nor counted twice by the trim goroutine and Close.
THEOREM CountersBalanceAlways == StatsSpec => []CountersBalance
<1>1. StatsIInv => CountersBalance
  BY DEF StatsIInv
<1> QED
  BY <1>1, StatsIInvAlways, PTL

\* Numbers that are not none have a least one.
LEMMA LeastNumber ==
  ASSUME NEW T, T \subseteq Nat, T # {} PROVE \E x \in T : \A y \in T : x <= y
<1>1. PICK x \in T : \A y \in T : ~(<<y, x>> \in OpToRel(<, Nat))
  BY WFMin, NatLessThanWellFounded
<1>2. ASSUME NEW y \in T PROVE x <= y
  <2>1. SUFFICES ASSUME y < x PROVE FALSE
    OBVIOUS
  <2>2. <<y, x>> \in OpToRel(<, Nat)
    BY <2>1 DEF OpToRel
  <2> QED
    BY <1>1, <2>2
<1> QED
  BY <1>2

-----------------------------------------------------------------------------
(* Lists without repetitions.                                             *)

\* Sequence s has each element of T once, and no other.
Enumerates(s, T) ==
  /\ s \in Seq(T)
  /\ \A x \in T : \E i \in 1..Len(s) : s[i] = x
  /\ \A i, j \in 1..Len(s) : s[i] = s[j] => i = j

\* The orders in which Go may iterate over a map.
LEMMA SetToSeqsEnumerates ==
  ASSUME NEW T, IsFiniteSet(T), NEW s \in SetToSeqs(T) PROVE Enumerates(s, T)
<1>1. PICK n \in Nat : n = Cardinality(T)
  BY FS_CardinalityType
<1>2. s \in [1..n -> T] /\ \A i, j \in 1..n : s[i] = s[j] => i = j
  BY <1>1 DEF SetToSeqs
<1>3. s \in Injection(1..n, T)
  BY <1>2 DEF Injection, IsInjective
<1>4. IsFiniteSet(1..n) /\ Cardinality(1..n) = n
  BY FS_Interval
<1>5. s \in Surjection(1..n, T)
  BY <1>1, <1>3, <1>4, FS_Injection
<1>6. s \in Seq(T) /\ Len(s) = n
  BY <1>2
<1> QED
  BY <1>2, <1>5, <1>6 DEF Enumerates, Surjection

\* How long a list without repetitions is.
LEMMA EnumeratesCounts ==
  ASSUME NEW T, NEW s, Enumerates(s, T)
  PROVE  IsFiniteSet(T) /\ Cardinality(T) = Len(s)
<1>1. PICK n \in Nat : n = Len(s)
  BY DEF Enumerates
<1>2. s \in [1..n -> T]
  BY <1>1 DEF Enumerates
<1>3. s \in Injection(1..n, T) /\ s \in Surjection(1..n, T)
  BY <1>1, <1>2 DEF Enumerates, Injection, IsInjective, Surjection
<1>4. ExistsBijection(1..n, T)
  BY <1>3 DEF Bijection, ExistsBijection
<1>5. IsFiniteSet(1..n) /\ Cardinality(1..n) = n
  BY FS_Interval
<1> QED
  BY <1>1, <1>4, <1>5, FS_Bijection

\* One more element at the end.
LEMMA EnumeratesAppend ==
  ASSUME NEW T, NEW s, NEW x, Enumerates(s, T), x \notin T
  PROVE  Enumerates(Append(s, x), T \cup {x})
<1>1. PICK U : U = T \cup {x}
  OBVIOUS
<1>2. PICK n \in Nat : n = Len(s)
  BY DEF Enumerates
<1>3. s \in Seq(U) /\ x \in U
  BY <1>1 DEF Enumerates
<1>4. PICK y \in Seq(U) : /\ y = Append(s, x) /\ Len(y) = n + 1 /\ y[n + 1] = x
                          /\ \A i \in 1..n : y[i] = s[i]
  <2>1. Append(s, x) \in Seq(U)
    BY <1>3
  <2>2. /\ Len(Append(s, x)) = Len(s) + 1 /\ Append(s, x)[Len(s) + 1] = x
        /\ \A i \in 1..Len(s) : Append(s, x)[i] = s[i]
    BY <1>3
  <2> QED
    BY <1>2, <2>1, <2>2
<1>5. \A i \in 1..n : s[i] \in T
  BY <1>2 DEF Enumerates
<1>6. ASSUME NEW z \in U PROVE \E i \in 1..n + 1 : y[i] = z
  <2>1. CASE z = x
    BY <1>4, <2>1
  <2>2. CASE z # x
    <3>1. PICK i \in 1..n : s[i] = z
      BY <1>1, <1>2, <2>2 DEF Enumerates
    <3> QED
      BY <1>4, <3>1
  <2> QED
    BY <2>1, <2>2
<1>7. ASSUME NEW i \in 1..n + 1, NEW j \in 1..n + 1, y[i] = y[j] PROVE i = j
  <2>1. CASE i \in 1..n /\ j \in 1..n
    BY <1>2, <1>4, <1>7, <2>1 DEF Enumerates
  <2>2. CASE i = n + 1 /\ j \in 1..n
    BY <1>4, <1>5, <1>7, <2>2
  <2>3. CASE i \in 1..n /\ j = n + 1
    BY <1>4, <1>5, <1>7, <2>3
  <2> QED
    BY <2>1, <2>2, <2>3
<1> QED
  BY <1>1, <1>4, <1>6, <1>7 DEF Enumerates

\* One more element in the middle.
LEMMA EnumeratesInsert ==
  ASSUME NEW T, NEW s, NEW x, NEW p \in Nat, Enumerates(s, T), x \notin T,
         p \in 1..Len(s) + 1
  PROVE  Enumerates(InsertAt(s, p, x), T \cup {x})
<1>1. PICK U : U = T \cup {x}
  OBVIOUS
<1>2. PICK n \in Nat : n = Len(s)
  BY DEF Enumerates
<1>3. s \in Seq(U) /\ x \in U
  BY <1>1 DEF Enumerates
<1>4. PICK a \in Seq(U) : /\ a = SubSeq(s, 1, p - 1) /\ Len(a) = p - 1
                          /\ \A i \in 1..p - 1 : a[i] = s[i]
  <2>1. /\ SubSeq(s, 1, p - 1) \in Seq(U) /\ Len(SubSeq(s, 1, p - 1)) = p - 1
        /\ \A i \in 1..p - 1 : SubSeq(s, 1, p - 1)[i] = s[i]
    BY <1>2, <1>3
  <2> QED
    BY <2>1
<1>5. PICK b \in Seq(U) : /\ b = SubSeq(s, p, n) /\ Len(b) = n - p + 1
                          /\ \A i \in 1..n - p + 1 : b[i] = s[p + i - 1]
  <2>1. /\ SubSeq(s, p, n) \in Seq(U) /\ Len(SubSeq(s, p, n)) = n - p + 1
        /\ \A i \in 1..n - p + 1 : SubSeq(s, p, n)[i] = s[p + i - 1]
    BY <1>2, <1>3
  <2> QED
    BY <2>1
<1>6. PICK c \in Seq(U) : /\ c = a \o <<x>> /\ Len(c) = p /\ c[p] = x
                          /\ \A i \in 1..p - 1 : c[i] = s[i]
  <2>1. <<x>> \in Seq(U) /\ Len(<<x>>) = 1 /\ <<x>>[1] = x
    BY <1>3
  <2>2. /\ a \o <<x>> \in Seq(U) /\ Len(a \o <<x>>) = Len(a) + 1
        /\ \A i \in 1..Len(a) : (a \o <<x>>)[i] = a[i]
        /\ (a \o <<x>>)[Len(a) + 1] = x
    BY <2>1
  <2>3. Len(a) + 1 = p
    BY <1>4
  <2>4. \A i \in 1..p - 1 : (a \o <<x>>)[i] = s[i]
    BY <1>4, <2>2
  <2> QED
    BY <2>2, <2>3, <2>4
<1>7. PICK y \in Seq(U) : /\ y = c \o b /\ Len(y) = n + 1
                          /\ \A i \in 1..p : y[i] = c[i]
                          /\ \A i \in 1..n - p + 1 : y[p + i] = b[i]
  <2>1. /\ c \o b \in Seq(U) /\ Len(c \o b) = Len(c) + Len(b)
        /\ \A i \in 1..Len(c) : (c \o b)[i] = c[i]
        /\ \A i \in 1..Len(b) : (c \o b)[Len(c) + i] = b[i]
    OBVIOUS
  <2>2. Len(c) + Len(b) = n + 1
    <3>1. Len(c) = p /\ Len(b) = n - p + 1
      BY <1>5, <1>6
    <3> QED
      BY <3>1
  <2>3. /\ \A i \in 1..p : (c \o b)[i] = c[i]
        /\ \A i \in 1..n - p + 1 : (c \o b)[p + i] = b[i]
    BY <1>5, <1>6, <2>1
  <2> QED
    BY <2>1, <2>2, <2>3
<1>8. InsertAt(s, p, x) = y
  BY <1>2, <1>4, <1>5, <1>6, <1>7 DEF InsertAt
<1>9. /\ y[p] = x /\ \A i \in 1..p - 1 : y[i] = s[i]
      /\ \A i \in p..n : y[i + 1] = s[i]
  <2>1. \A i \in 1..p - 1 : i \in 1..p
    OBVIOUS
  <2>2. p \in 1..p
    OBVIOUS
  <2>3. ASSUME NEW i \in p..n PROVE y[i + 1] = s[i]
    <3>1. PICK k \in 1..n - p + 1 : k = i - p + 1
      OBVIOUS
    <3>2. y[p + k] = s[p + k - 1]
      BY <1>5, <1>7
    <3>3. p + k = i + 1 /\ p + k - 1 = i
      BY <3>1
    <3> QED
      BY <3>2, <3>3
  <2> QED
    BY <1>6, <1>7, <2>1, <2>2, <2>3
<1>10. PICK back \in [1..n + 1 -> 0..n] :
         \A i \in 1..n + 1 : back[i] = IF i < p THEN i ELSE IF i = p THEN 0 ELSE i - 1
  <2> DEFINE g == [i \in 1..n + 1 |-> IF i < p THEN i ELSE IF i = p THEN 0 ELSE i - 1]
  <2>1. \A i \in 1..n + 1 : (IF i < p THEN i ELSE IF i = p THEN 0 ELSE i - 1) \in 0..n
    BY <1>2
  <2>2. g \in [1..n + 1 -> 0..n]
    BY <2>1
  <2> QED
    BY <2>2
<1>11. ASSUME NEW i \in 1..n + 1
       PROVE  IF i = p THEN y[i] = x ELSE back[i] \in 1..n /\ y[i] = s[back[i]]
  <2>1. CASE i = p
    BY <1>9, <2>1
  <2>2. CASE i < p
    BY <1>2, <1>9, <1>10, <2>2
  <2>3. CASE i > p
    <3>1. back[i] = i - 1 /\ i - 1 \in p..n
      BY <1>10, <2>3
    <3>2. y[(i - 1) + 1] = s[i - 1]
      BY <1>9, <3>1
    <3> QED
      BY <2>3, <3>1, <3>2
  <2> QED
    BY <2>1, <2>2, <2>3
<1>12. \A i \in 1..n : s[i] \in T
  BY <1>2 DEF Enumerates
<1>13. ASSUME NEW i \in 1..n + 1, NEW j \in 1..n + 1, y[i] = y[j] PROVE i = j
  <2>1. CASE i = p \/ j = p
    BY <1>11, <1>12, <1>13, <2>1
  <2>2. CASE i # p /\ j # p
    <3>1. back[i] \in 1..n /\ back[j] \in 1..n /\ s[back[i]] = s[back[j]]
      BY <1>11, <1>13, <2>2
    <3>2. \A k, l \in 1..n : s[k] = s[l] => k = l
      BY <1>2 DEF Enumerates
    <3>3. back[i] = back[j]
      BY <3>1, <3>2
    <3>4. /\ back[i] = IF i < p THEN i ELSE i - 1
          /\ back[j] = IF j < p THEN j ELSE j - 1
      BY <1>10, <2>2
    <3>5. (IF i < p THEN i ELSE i - 1) = (IF j < p THEN j ELSE j - 1)
      BY <3>3, <3>4
    <3>6. i \in Nat /\ j \in Nat
      OBVIOUS
    <3>7. CASE i < p
      <4>1. i = IF j < p THEN j ELSE j - 1
        BY <3>5, <3>7
      <4> QED
        BY <2>2, <3>6, <3>7, <4>1
    <3>8. CASE ~(i < p)
      <4>1. i - 1 = IF j < p THEN j ELSE j - 1
        BY <3>5, <3>8
      <4> QED
        BY <2>2, <3>6, <3>8, <4>1
    <3> QED
      BY <3>7, <3>8
  <2> QED
    BY <2>1, <2>2
<1>14. ASSUME NEW z \in U PROVE \E i \in 1..n + 1 : y[i] = z
  <2>1. CASE z = x
    BY <1>2, <1>9, <2>1
  <2>2. CASE z # x
    <3>1. PICK i \in 1..n : s[i] = z
      BY <1>1, <1>2, <2>2 DEF Enumerates
    <3>2. CASE i < p
      <4>1. i \in 1..p - 1 /\ i \in 1..n + 1
        BY <3>2
      <4> QED
        BY <1>9, <3>1, <4>1
    <3>3. CASE i >= p
      <4>1. i \in p..n /\ i + 1 \in 1..n + 1
        BY <3>3
      <4> QED
        BY <1>9, <3>1, <4>1
    <3> QED
      BY <3>2, <3>3
  <2> QED
    BY <2>1, <2>2
<1>15. y \in Seq(U) /\ Len(y) = n + 1
  BY <1>7
<1>16. Enumerates(y, U)
  BY <1>13, <1>14, <1>15 DEF Enumerates
<1> QED
  BY <1>1, <1>8, <1>16

-----------------------------------------------------------------------------
(* What the loops of a prune do with such lists.                           *)

\* The elements at the positions `at`.
Chosen(list, at) == {list[i] : i \in at}

\* The loop that appends the accepted elements, for the kth.
AcceptStep(list, at, k, x) == IF k \in at THEN Append(x, list[k]) ELSE x

\* The lists after the first k elements follow from each other.
LEMMA AcceptingLoop ==
  ASSUME NEW T, NEW list \in Seq(T), NEW at, NEW f, f = Accepting(list, at)
  PROVE  /\ f \in [0..Len(list) -> Seq(T)] /\ f[0] = <<>>
         /\ \A k \in 1..Len(list) : f[k] = AcceptStep(list, at, k, f[k - 1])
<1> DEFINE Step(k, x) == AcceptStep(list, at, k, x)
<1>1. PICK n \in Nat : n = Len(list)
  OBVIOUS
<1>2. PICK S : S = Seq(T)
  OBVIOUS
<1>3. PICK first \in S : first = <<>>
  <2>1. \A U : <<>> \in Seq(U)
    OBVIOUS
  <2> QED
    BY <1>2, <2>1
<1> DEFINE Eq(h) == h = [k \in 0..n |-> IF k = 0 THEN first ELSE Step(k, h[k - 1])]
<1>4. f = CHOOSE h : Eq(h)
  BY <1>1, <1>3 DEF Accepting, AcceptStep
<1>5. ASSUME NEW k \in 1..n, NEW x \in S PROVE Step(k, x) \in S
  <2>1. list[k] \in T /\ x \in Seq(T)
    BY <1>1, <1>2
  <2>2. Append(x, list[k]) \in Seq(T)
    BY <2>1
  <2> QED
    BY <1>2, <2>2 DEF AcceptStep
<1> HIDE DEF Step
<1>6. PICK Body \in [1..n -> [S -> S]] : \A k \in 1..n, x \in S : Body[k][x] = Step(k, x)
  <2>1. [k \in 1..n |-> [x \in S |-> Step(k, x)]] \in [1..n -> [S -> S]]
    BY <1>5
  <2> QED
    BY <2>1
<1>7. ASSUME NEW g \in [0..n -> S], Runs(g, first, n, Body)
      PROVE  Solves(f, S, first, n, Body)
  <2>1. Eq(g)
    <3>1. \A k \in 1..n : g[k - 1] \in S
      OBVIOUS
    <3> QED
      BY <3>1, <1>6, <1>7 DEF Runs
  <2>2. Eq(f)
    <3> HIDE DEF Eq
    <3> QED
      BY <2>1, <1>4
  <2> QED
    BY <2>2, <1>6 DEF Solves
<1> HIDE DEF Eq
<1>8. f \in [0..n -> S] /\ Runs(f, first, n, Body)
  BY <1>7, LoopSolved
<1>9. \A k \in 1..n : f[k - 1] \in S /\ f[k] = Step(k, f[k - 1])
  BY <1>6, <1>8 DEF Runs
<1> QED
  BY <1>1, <1>2, <1>3, <1>8, <1>9 DEF Step, Runs

\* What was accepted is in the new list, once.
LEMMA AcceptedEnumerates ==
  ASSUME NEW T, NEW list, Enumerates(list, T), NEW at, at \subseteq 1..Len(list)
  PROVE  Enumerates(Accepted(list, at), Chosen(list, at))
<1>1. PICK f : f = Accepting(list, at)
  OBVIOUS
<1>2. PICK n \in Nat : n = Len(list)
  BY DEF Enumerates
<1>3. list \in Seq(T)
  BY DEF Enumerates
<1>4. /\ f \in [0..n -> Seq(T)] /\ f[0] = <<>>
      /\ \A k \in 1..n : f[k] = AcceptStep(list, at, k, f[k - 1])
  BY <1>1, <1>2, <1>3, AcceptingLoop
<1> DEFINE Upto(k) == at \cap (1..k)
           P == {k \in 0..n : Enumerates(f[k], Chosen(list, Upto(k)))}
<1>5. 0 \in P
  <2>1. Chosen(list, Upto(0)) = {}
    BY DEF Chosen
  <2>2. Enumerates(<<>>, {})
    BY DEF Enumerates
  <2>3. Enumerates(f[0], Chosen(list, Upto(0)))
    BY <1>4, <2>1, <2>2
  <2> HIDE DEF Upto
  <2> QED
    BY <2>3
<1>6. ASSUME NEW k \in 1..n, k - 1 \in P PROVE k \in P
  <2>1. PICK x : x = f[k - 1]
    OBVIOUS
  <2>2. Enumerates(x, Chosen(list, Upto(k - 1)))
    BY <1>6, <2>1
  <2>3. f[k] = AcceptStep(list, at, k, x)
    BY <1>4, <2>1
  <2>4. CASE k \in at
    <3>1. Upto(k) = Upto(k - 1) \cup {k}
      BY <2>4
    <3>2. Chosen(list, Upto(k)) = Chosen(list, Upto(k - 1)) \cup {list[k]}
      BY <3>1 DEF Chosen
    <3>3. list[k] \notin Chosen(list, Upto(k - 1))
      <4>1. \A i \in 1..k - 1 : list[i] # list[k]
        BY <1>2 DEF Enumerates
      <4> QED
        BY <4>1 DEF Chosen
    <3>4. Enumerates(Append(x, list[k]), Chosen(list, Upto(k)))
      <4> HIDE DEF Upto
      <4> QED
        BY <2>2, <3>2, <3>3, EnumeratesAppend
    <3>5. f[k] = Append(x, list[k])
      BY <2>3, <2>4 DEF AcceptStep
    <3> HIDE DEF Upto
    <3>6. Enumerates(f[k], Chosen(list, Upto(k)))
      BY <3>4, <3>5
    <3>7. k \in 0..n
      OBVIOUS
    <3> QED
      BY <3>6, <3>7
  <2>5. CASE k \notin at
    <3>1. Upto(k) = Upto(k - 1)
      BY <2>5
    <3>2. f[k] = x
      BY <2>3, <2>5 DEF AcceptStep
    <3> HIDE DEF Upto
    <3> QED
      BY <2>2, <3>1, <3>2
  <2> QED
    BY <2>4, <2>5
<1>7. n \in P
  <2> HIDE DEF P
  <2>1. 0..n \subseteq P
    BY <1>5, <1>6, LoopInduction
  <2> QED
    BY <2>1
<1>8. Upto(n) = at
  BY <1>2
<1> QED
  BY <1>1, <1>2, <1>7, <1>8 DEF Accepted

\* The place where an insertion stops.
LEMMA InsertionPlace ==
  ASSUME NEW s, NEW x, Len(s) \in Nat
  PROVE  \E p \in 1..Len(s) + 1 : InsertStable(s, x) = InsertAt(s, p, x)
<1> DEFINE stop == {p \in 1..Len(s) + 1 : \A q \in p..Len(s) : Less(x, s[q])}
           Least(p) == \A q \in stop : p <= q
<1>1. InsertStable(s, x) = InsertAt(s, CHOOSE p \in stop : Least(p), x)
  BY DEF InsertStable
<1>2. Len(s) + 1 \in stop
  OBVIOUS
<1>3. stop \subseteq Nat /\ stop \subseteq 1..Len(s) + 1
  OBVIOUS
<1> HIDE DEF stop
<1>4. \E p \in stop : Least(p)
  BY <1>2, <1>3, LeastNumber
<1> HIDE DEF Least
<1>5. (CHOOSE p \in stop : Least(p)) \in stop
  BY <1>4
<1> QED
  BY <1>1, <1>3, <1>5

\* An insertion loses nothing.
LEMMA InsertStableEnumerates ==
  ASSUME NEW T, NEW s, NEW x, Enumerates(s, T), x \notin T
  PROVE  Enumerates(InsertStable(s, x), T \cup {x})
<1>1. Len(s) \in Nat
  BY DEF Enumerates
<1>2. PICK p \in 1..Len(s) + 1 : InsertStable(s, x) = InsertAt(s, p, x)
  BY <1>1, InsertionPlace
<1>3. p \in Nat
  BY <1>1
<1> QED
  BY <1>2, <1>3, EnumeratesInsert

\* An insertion keeps the type.
LEMMA InsertStableType ==
  ASSUME NEW T, NEW s \in Seq(T), NEW x \in T PROVE InsertStable(s, x) \in Seq(T)
<1>1. PICK p \in 1..Len(s) + 1 : InsertStable(s, x) = InsertAt(s, p, x)
  BY InsertionPlace
<1>2. SubSeq(s, 1, p - 1) \in Seq(T) /\ SubSeq(s, p, Len(s)) \in Seq(T) /\ <<x>> \in Seq(T)
  OBVIOUS
<1> QED
  BY <1>1, <1>2 DEF InsertAt

\* The lists after the first k insertions follow from each other.
LEMMA SortingLoop ==
  ASSUME NEW T, NEW list \in Seq(T), NEW f, f = Sorting(list)
  PROVE  /\ f \in [0..Len(list) -> Seq(T)] /\ f[0] = <<>>
         /\ \A k \in 1..Len(list) : f[k] = InsertStable(f[k - 1], list[k])
<1> DEFINE Step(k, x) == InsertStable(x, list[k])
<1>1. PICK n \in Nat : n = Len(list)
  OBVIOUS
<1>2. PICK S : S = Seq(T)
  OBVIOUS
<1>3. PICK first \in S : first = <<>>
  <2>1. \A U : <<>> \in Seq(U)
    OBVIOUS
  <2> QED
    BY <1>2, <2>1
<1> DEFINE Eq(h) == h = [k \in 0..n |-> IF k = 0 THEN first ELSE Step(k, h[k - 1])]
<1>4. f = CHOOSE h : Eq(h)
  BY <1>1, <1>3 DEF Sorting
<1>5. ASSUME NEW k \in 1..n, NEW x \in S PROVE Step(k, x) \in S
  <2>1. list[k] \in T /\ x \in Seq(T)
    BY <1>1, <1>2
  <2> QED
    BY <1>2, <2>1, InsertStableType
<1> HIDE DEF Step
<1>6. PICK Body \in [1..n -> [S -> S]] : \A k \in 1..n, x \in S : Body[k][x] = Step(k, x)
  <2>1. [k \in 1..n |-> [x \in S |-> Step(k, x)]] \in [1..n -> [S -> S]]
    BY <1>5
  <2> QED
    BY <2>1
<1>7. ASSUME NEW g \in [0..n -> S], Runs(g, first, n, Body)
      PROVE  Solves(f, S, first, n, Body)
  <2>1. Eq(g)
    <3>1. \A k \in 1..n : g[k - 1] \in S
      OBVIOUS
    <3> QED
      BY <3>1, <1>6, <1>7 DEF Runs
  <2>2. Eq(f)
    <3> HIDE DEF Eq
    <3> QED
      BY <2>1, <1>4
  <2> QED
    BY <2>2, <1>6 DEF Solves
<1> HIDE DEF Eq
<1>8. f \in [0..n -> S] /\ Runs(f, first, n, Body)
  BY <1>7, LoopSolved
<1>9. \A k \in 1..n : f[k - 1] \in S /\ f[k] = Step(k, f[k - 1])
  BY <1>6, <1>8 DEF Runs
<1> QED
  BY <1>1, <1>2, <1>3, <1>8, <1>9 DEF Step, Runs

\* Although Less is not an order, the sort loses no record and repeats none.
LEMMA SortStatsEnumerates ==
  ASSUME NEW T, NEW list, Enumerates(list, T) PROVE Enumerates(SortStats(list), T)
<1>1. PICK f : f = Sorting(list)
  OBVIOUS
<1>2. PICK n \in Nat : n = Len(list)
  BY DEF Enumerates
<1>3. list \in Seq(T)
  BY DEF Enumerates
<1>4. /\ f \in [0..n -> Seq(T)] /\ f[0] = <<>>
      /\ \A k \in 1..n : f[k] = InsertStable(f[k - 1], list[k])
  BY <1>1, <1>2, <1>3, SortingLoop
<1> DEFINE P == {k \in 0..n : Enumerates(f[k], Chosen(list, 1..k))}
<1>5. 0 \in P
  <2>1. Chosen(list, 1..0) = {}
    BY DEF Chosen
  <2>2. Enumerates(<<>>, {})
    BY DEF Enumerates
  <2>3. Enumerates(f[0], Chosen(list, 1..0))
    BY <1>4, <2>1, <2>2
  <2> QED
    BY <2>3
<1>6. ASSUME NEW k \in 1..n, k - 1 \in P PROVE k \in P
  <2>1. Enumerates(f[k - 1], Chosen(list, 1..k - 1))
    BY <1>6
  <2>2. 1..k = (1..k - 1) \cup {k}
    OBVIOUS
  <2>3. Chosen(list, 1..k) = Chosen(list, 1..k - 1) \cup {list[k]}
    BY <2>2 DEF Chosen
  <2>4. list[k] \notin Chosen(list, 1..k - 1)
    <3>1. \A i \in 1..k - 1 : list[i] # list[k]
      BY <1>2 DEF Enumerates
    <3> QED
      BY <3>1 DEF Chosen
  <2>5. Enumerates(InsertStable(f[k - 1], list[k]), Chosen(list, 1..k))
    BY <2>1, <2>3, <2>4, InsertStableEnumerates
  <2> QED
    BY <1>4, <2>5
<1>7. n \in P
  <2> HIDE DEF P
  <2>1. 0..n \subseteq P
    BY <1>5, <1>6, LoopInduction
  <2> QED
    BY <2>1
<1>8. Chosen(list, 1..n) = T
  BY <1>2 DEF Enumerates, Chosen
<1> QED
  BY <1>1, <1>2, <1>7, <1>8 DEF SortStats

-----------------------------------------------------------------------------
(* What a prune keeps.                                                     *)

\* Distinct elements that are replaced by distinct ones.
LEMMA EnumeratesMapped ==
  ASSUME NEW T, NEW s, Enumerates(s, T), NEW g,
         \A x, y \in T : g[x] = g[y] => x = y
  PROVE  Enumerates([i \in DOMAIN s |-> g[s[i]]], {g[x] : x \in T})
<1>1. PICK U : U = {g[x] : x \in T}
  OBVIOUS
<1>2. PICK n \in Nat : n = Len(s) /\ DOMAIN s = 1..n
  BY DEF Enumerates
<1>3. PICK y : y = [i \in 1..n |-> g[s[i]]]
  OBVIOUS
<1>4. \A i \in 1..n : s[i] \in T
  BY <1>2 DEF Enumerates
<1>5. y \in Seq(U) /\ Len(y) = n
  BY <1>1, <1>3, <1>4
<1>6. ASSUME NEW z \in U PROVE \E i \in 1..n : y[i] = z
  <2>1. PICK x \in T : z = g[x]
    BY <1>1
  <2>2. PICK i \in 1..n : s[i] = x
    BY <1>2 DEF Enumerates
  <2> QED
    BY <1>3, <2>1, <2>2
<1>7. ASSUME NEW i \in 1..n, NEW j \in 1..n, y[i] = y[j] PROVE i = j
  <2>1. s[i] = s[j]
    BY <1>3, <1>4, <1>7
  <2> QED
    BY <1>2, <2>1 DEF Enumerates
<1> QED
  BY <1>1, <1>2, <1>3, <1>5, <1>6, <1>7 DEF Enumerates

\* The beginning of a list.
LEMMA EnumeratesPrefix ==
  ASSUME NEW T, NEW s, Enumerates(s, T), NEW m \in Nat, m <= Len(s)
  PROVE  /\ Enumerates(SubSeq(s, 1, m), Chosen(s, 1..m)) /\ Len(SubSeq(s, 1, m)) = m
         /\ Chosen(s, 1..m) \subseteq T
         /\ m = Len(s) => Chosen(s, 1..m) = T
<1>1. PICK n \in Nat : n = Len(s)
  BY DEF Enumerates
<1>2. s \in Seq(T) /\ \A i \in 1..n : s[i] \in T
  BY <1>1 DEF Enumerates
<1>3. PICK U : U = Chosen(s, 1..m)
  OBVIOUS
<1>4. PICK y : y = SubSeq(s, 1, m)
  OBVIOUS
<1>5. y \in Seq(T) /\ Len(y) = m /\ \A i \in 1..m : y[i] = s[i]
  BY <1>1, <1>2, <1>4
<1>6. \A i \in 1..m : i \in 1..n
  BY <1>1
<1>7. y \in Seq(U)
  <2>1. \A i \in 1..m : y[i] \in U
    BY <1>3, <1>5 DEF Chosen
  <2>2. y = [i \in 1..m |-> y[i]]
    BY <1>5
  <2> QED
    BY <2>1, <2>2
<1>8. \A z \in U : \E i \in 1..m : y[i] = z
  BY <1>3, <1>5 DEF Chosen
<1>9. \A i, j \in 1..m : y[i] = y[j] => i = j
  BY <1>1, <1>5, <1>6 DEF Enumerates
<1>10. Enumerates(y, U)
  BY <1>5, <1>7, <1>8, <1>9 DEF Enumerates
<1>11. U \subseteq T
  BY <1>2, <1>3, <1>6 DEF Chosen
<1>12. m = n => U = T
  BY <1>1, <1>3, <1>11 DEF Chosen, Enumerates
<1> QED
  BY <1>1, <1>3, <1>4, <1>5, <1>10, <1>11, <1>12

\* The tactics of records.
TacticsOf(R) == {r.tactic : r \in R}

\* K is what may be left of T.
CutTo(K, T) ==
  /\ K \subseteq T /\ IsFiniteSet(T)
  /\ IF Cardinality(T) > MaxEntries THEN Cardinality(K) = MaxEntries ELSE K = T

\* What is cut off when a list of records of different tactics is too long.
LEMMA CutExcessKeeps ==
  ASSUME NEW R, NEW s, Enumerates(s, R), NEW K,
         \A x, y \in R : x.tactic = y.tactic => x = y,
         K = {CutExcess(s)[i].tactic : i \in DOMAIN CutExcess(s)}
  PROVE  CutTo(K, TacticsOf(R))
<1>1. PICK n \in Nat : n = Len(s)
  BY DEF Enumerates
<1>2. PICK m \in Nat : m = IF n > MaxEntries THEN MaxEntries ELSE n
  BY StatsAssumption
<1>3. m <= n
  BY <1>2, StatsAssumption
<1>4. PICK y, U : y = SubSeq(s, 1, m) /\ U = Chosen(s, 1..m)
  OBVIOUS
<1>5. CutExcess(s) = y
  BY <1>1, <1>2, <1>4 DEF CutExcess
<1>6. Enumerates(y, U) /\ Len(y) = m /\ U \subseteq R /\ (m = n => U = R)
  BY <1>1, <1>3, <1>4, EnumeratesPrefix
<1>7. K = TacticsOf(U)
  <2>1. DOMAIN y = 1..Len(y)
    BY <1>6 DEF Enumerates
  <2>2. \A z \in U : \E i \in DOMAIN y : y[i] = z
    BY <1>6, <2>1 DEF Enumerates
  <2>3. \A i \in DOMAIN y : y[i] \in U
    BY <1>6, <2>1 DEF Enumerates
  <2> QED
    BY <1>5, <2>2, <2>3 DEF TacticsOf
<1>8. ASSUME NEW V, V \subseteq R, NEW z, Enumerates(z, V)
      PROVE  IsFiniteSet(TacticsOf(V)) /\ Cardinality(TacticsOf(V)) = Len(z)
  <2> DEFINE g == [x \in V |-> x.tactic]
             w == [i \in DOMAIN z |-> g[z[i]]]
  <2>1. \A x, x2 \in V : g[x] = g[x2] => x = x2
    BY <1>8
  <2>2. {g[x] : x \in V} = TacticsOf(V)
    BY DEF TacticsOf
  <2> HIDE DEF g
  <2>3. Enumerates(w, TacticsOf(V))
    BY <1>8, <2>1, <2>2, EnumeratesMapped
  <2>4. Len(w) = Len(z)
    BY <1>8 DEF Enumerates
  <2> HIDE DEF w
  <2> QED
    BY <2>3, <2>4, EnumeratesCounts
<1>9. IsFiniteSet(TacticsOf(R)) /\ Cardinality(TacticsOf(R)) = n /\ Cardinality(K) = m
  BY <1>1, <1>6, <1>7, <1>8
<1>10. K \subseteq TacticsOf(R)
  BY <1>6, <1>7 DEF TacticsOf
<1>11. CASE n > MaxEntries
  BY <1>2, <1>9, <1>10, <1>11 DEF CutTo
<1>12. CASE ~(n > MaxEntries)
  BY <1>2, <1>6, <1>7, <1>9, <1>10, <1>12 DEF CutTo
<1> QED
  BY <1>11, <1>12

\* A container whose records are those of their tactics.
Keyed(c) == IsFiniteSet(DOMAIN c) /\ \A t \in WellFormed(c) : c[t].tactic = t

\* The records of an endpoint that a prune may keep.
Recent(c, e) == {t \in EntriesOf(c, e) : NotOld(c[t])}

\* statsDomainEndpointPruneEntries keeps recent records only: all of them, or as many
\* as there may be.
LEMMA PruneEndpointKeeps ==
  ASSUME NEW c, Keyed(c), NEW order \in SetToSeqs(WellFormed(c)), NEW e
  PROVE  CutTo(PruneEndpoint(c, order, e), Recent(c, e))
<1>1. PICK W : W = WellFormed(c)
  OBVIOUS
<1>2. Enumerates(order, W)
  <2>1. IsFiniteSet(W)
    <3>1. W \in SUBSET DOMAIN c
      BY <1>1 DEF WellFormed
    <3> QED
      BY <3>1, FS_Subset DEF Keyed
  <2> QED
    BY <1>1, <2>1, SetToSeqsEnumerates
<1>3. PICK input : input = Accepted(order, {i \in DOMAIN order : EndpointOf[order[i]] = e})
  OBVIOUS
<1>4. PICK T : T = EntriesOf(c, e)
  OBVIOUS
<1>5. Enumerates(input, T)
  <2>1. PICK at : at = {i \in DOMAIN order : EndpointOf[order[i]] = e}
    OBVIOUS
  <2>2. DOMAIN order = 1..Len(order)
    BY <1>2 DEF Enumerates
  <2>3. at \subseteq 1..Len(order)
    BY <2>1, <2>2
  <2>4. Chosen(order, at) = T
    <3>1. \A i \in DOMAIN order : order[i] \in W
      BY <1>2, <2>2 DEF Enumerates
    <3>2. \A t \in W : \E i \in DOMAIN order : order[i] = t
      BY <1>2, <2>2 DEF Enumerates
    <3>3. T = {t \in W : EndpointOf[t] = e}
      BY <1>1, <1>4 DEF EntriesOf
    <3> QED
      BY <2>1, <3>1, <3>2, <3>3 DEF Chosen
  <2> QED
    BY <1>2, <1>3, <2>1, <2>3, <2>4, AcceptedEnumerates
<1>6. PICK recs : recs = [i \in DOMAIN input |-> c[input[i]]]
  OBVIOUS
<1>7. PICK R : R = {c[t] : t \in T}
  OBVIOUS
<1>8. \A t \in T : c[t].tactic = t
  BY <1>4 DEF EntriesOf, Keyed
<1>9. Enumerates(recs, R)
  <2>1. \A t, u \in T : c[t] = c[u] => t = u
    BY <1>8
  <2> QED
    BY <1>5, <1>6, <1>7, <2>1, EnumeratesMapped
<1>10. PICK work : work = SortStats(recs)
  OBVIOUS
<1>11. Enumerates(work, R)
  BY <1>9, <1>10, SortStatsEnumerates
<1>12. PICK s : s = Accepted(work, {i \in DOMAIN work : NotOld(work[i])})
  OBVIOUS
<1>13. PICK F : F = {r \in R : NotOld(r)}
  OBVIOUS
<1>14. Enumerates(s, F)
  <2>1. PICK at : at = {i \in DOMAIN work : NotOld(work[i])}
    OBVIOUS
  <2>2. DOMAIN work = 1..Len(work)
    BY <1>11 DEF Enumerates
  <2>3. at \subseteq 1..Len(work)
    BY <2>1, <2>2
  <2>4. Chosen(work, at) = F
    <3>1. \A i \in DOMAIN work : work[i] \in R
      BY <1>11, <2>2 DEF Enumerates
    <3>2. \A r \in R : \E i \in DOMAIN work : work[i] = r
      BY <1>11, <2>2 DEF Enumerates
    <3> QED
      BY <1>13, <2>1, <3>1, <3>2 DEF Chosen
  <2> QED
    BY <1>11, <1>12, <2>1, <2>3, <2>4, AcceptedEnumerates
<1>15. PruneEndpoint(c, order, e) = {CutExcess(s)[i].tactic : i \in DOMAIN CutExcess(s)}
  <2> DEFINE I == Accepted(order, {i \in DOMAIN order : EndpointOf[order[i]] = e})
             C == [i \in DOMAIN I |-> c[I[i]]]
             Sorted == SortStats(C)
             A == Accepted(Sorted, {i \in DOMAIN Sorted : NotOld(Sorted[i])})
  <2>1. PruneEndpoint(c, order, e) = {CutExcess(A)[i].tactic : i \in DOMAIN CutExcess(A)}
    BY DEF PruneEndpoint
  <2>2. I = input
    BY <1>3
  <2> HIDE DEF I
  <2>3. C = recs
    BY <1>6, <2>2
  <2> HIDE DEF C
  <2>4. Sorted = work
    BY <1>10, <2>3
  <2> HIDE DEF Sorted
  <2>5. A = s
    BY <1>12, <2>4
  <2> HIDE DEF A
  <2> QED
    BY <2>1, <2>5
<1>16. TacticsOf(F) = Recent(c, e)
  BY <1>4, <1>7, <1>8, <1>13 DEF TacticsOf, Recent
<1>17. \A x, y \in F : x.tactic = y.tactic => x = y
  BY <1>7, <1>8, <1>13
<1>18. PICK K : K = {CutExcess(s)[i].tactic : i \in DOMAIN CutExcess(s)}
  OBVIOUS
<1>19. CutTo(K, TacticsOf(F))
  BY <1>14, <1>17, <1>18, CutExcessKeeps
<1> QED
  BY <1>15, <1>16, <1>18, <1>19

-----------------------------------------------------------------------------
(* What pruning drops and what a file brings back.                         *)

\* A prune of a whole container: each endpoint keeps its recent records, or as many of
\* them as there may be.
LEMMA PruneCuts ==
  ASSUME NEW c, Keyed(c), IsContainer(c, AnyRecord \union {Nil}),
         NEW order \in SetToSeqs(WellFormed(c)), NEW d, d = Prune(c, order)
  PROVE  /\ Keyed(d) /\ DOMAIN d \subseteq WellFormed(c)
         /\ \A t \in DOMAIN d : d[t] = c[t] /\ d[t] # Nil
         /\ \A e : CutTo(EntriesOf(d, e), Recent(c, e))
<1>1. /\ DOMAIN d = {t \in WellFormed(c) : t \in PruneEndpoint(c, order, EndpointOf[t])}
      /\ \A t \in DOMAIN d : d[t] = c[t]
  BY DEF Prune
<1>2. \A t \in DOMAIN d : d[t] # Nil
  BY <1>1 DEF WellFormed
<1>3. Keyed(d)
  <2>1. DOMAIN d \in SUBSET DOMAIN c
    BY <1>1 DEF WellFormed
  <2>2. IsFiniteSet(DOMAIN d)
    BY <2>1, FS_Subset DEF Keyed
  <2> QED
    BY <1>1, <2>2 DEF Keyed, WellFormed
<1>4. ASSUME NEW e PROVE CutTo(EntriesOf(d, e), Recent(c, e))
  <2>1. PICK K : K = PruneEndpoint(c, order, e)
    OBVIOUS
  <2>2. CutTo(K, Recent(c, e))
    BY <2>1, PruneEndpointKeeps
  <2>3. EntriesOf(d, e) = K
    <3>1. K \subseteq {t \in WellFormed(c) : EndpointOf[t] = e}
      BY <2>2 DEF CutTo, Recent, EntriesOf
    <3>2. EntriesOf(d, e) = {t \in DOMAIN d : EndpointOf[t] = e}
      BY <1>2 DEF EntriesOf, WellFormed
    <3> QED
      BY <1>1, <2>1, <3>1, <3>2
  <2> QED
    BY <2>2, <2>3
<1> QED
  BY <1>1, <1>2, <1>3, <1>4

\* The records in memory and in the file are those of their tactics, and a file that
\* nobody edited has no malformed record and no endpoint with too many of them.
Files ==
  /\ Keyed(container)
  /\ disk # Unreadable => Keyed(disk)
  /\ disk # Unreadable /\ ~edited =>
       \A t \in DOMAIN disk :
         disk[t] # Nil /\ Cardinality(EntriesOf(disk, EndpointOf[t])) <= MaxEntries

\* What the invariants say of the containers.
LEMMA ContainersKeyed ==
  ASSUME StatsIInv, Files
  PROVE  /\ Keyed(container) /\ IsContainer(container, AnyRecord \union {Nil})
         /\ WellFormed(container) = DOMAIN container
         /\ disk # Unreadable => Keyed(disk) /\ IsContainer(disk, AnyRecord \union {Nil})
<1>1. /\ IsContainer(container, AnyRecord)
      /\ disk # Unreadable => IsContainer(disk, AnyRecord \union {Nil})
  BY DEF StatsIInv, StatsTypes
<1>2. Nil \notin AnyRecord
  BY StatsAssumption DEF AnyRecord
<1>3. WellFormed(container) = DOMAIN container
  BY <1>1, <1>2 DEF WellFormed, IsContainer
<1> QED
  BY <1>1, <1>3 DEF Files, IsContainer

\* There is nothing in a container without records.
LEMMA EmptyIsKeyed == Keyed(Empty) /\ DOMAIN Empty = {}
  BY FS_EmptySet DEF Keyed, Empty, WellFormed

\* A record that a callback makes or updates is still that of its tactic.
LEMMA CallbacksKeepKeyed ==
  ASSUME StatsIInv, Files, NEW a \in Attempts,
         \/ \E t \in Tactics : OnStarting(a, t)
         \/ \E k \in Reported : OnOutcome(a, k)
  PROVE  Keyed(container') /\ DOMAIN container \subseteq DOMAIN container'
<1>1. /\ Keyed(container) /\ WellFormed(container) = DOMAIN container
      /\ IsContainer(container, AnyRecord)
  BY ContainersKeyed DEF StatsIInv, StatsTypes
<1>2. \A t \in DOMAIN container : container[t] \in AnyRecord /\ container[t].tactic = t
  BY <1>1 DEF Keyed, IsContainer
<1>3. ASSUME NEW t, NEW r \in AnyRecord, NEW k PROVE Update(t, r, k).tactic = r.tactic
  BY DEF Update, AnyRecord
<1>4. ASSUME NEW t \in Tactics, OnStarting(a, t)
      PROVE  Keyed(container') /\ DOMAIN container \subseteq DOMAIN container'
  <2> DEFINE r == IF Found(t) THEN container[t] ELSE NewRecord(t)
  <2>1. container' = [u \in DOMAIN container \union {t} |->
                        IF u = t THEN Update(t, r, "started") ELSE container[u]]
    BY <1>4 DEF OnStarting
  <2>2. r \in AnyRecord /\ r.tactic = t
    <3>1. NewRecord(t) \in AnyRecord /\ NewRecord(t).tactic = t
      BY NewRecordCounts DEF NewRecord
    <3> QED
      BY <1>2, <3>1 DEF Found
  <2> HIDE DEF r
  <2>3. Update(t, r, "started").tactic = t
    BY <1>3, <2>2
  <2>4. \A u \in DOMAIN container' : container'[u].tactic = u
    BY <1>2, <2>1, <2>3
  <2>5. IsFiniteSet(DOMAIN container \union {t})
    BY <1>1, FS_AddElement DEF Keyed
  <2> QED
    BY <2>1, <2>4, <2>5 DEF Keyed, WellFormed
<1>5. ASSUME NEW k \in Reported, OnOutcome(a, k)
      PROVE  Keyed(container') /\ DOMAIN container' = DOMAIN container
  <2>1. PICK t : t = attempt[a]
    OBVIOUS
  <2>2. CASE Found(t)
    <3>1. container' = [container EXCEPT ![t] = Update(t, container[t], k)]
      BY <1>5, <2>1, <2>2 DEF OnOutcome
    <3>2. Update(t, container[t], k).tactic = t
      BY <1>2, <1>3, <2>2 DEF Found
    <3>3. /\ DOMAIN container' = DOMAIN container
          /\ \A u \in DOMAIN container' : container'[u].tactic = u
      BY <1>2, <3>1, <3>2
    <3> QED
      BY <1>1, <3>3 DEF Keyed, WellFormed
  <2>3. CASE ~Found(t)
    <3>1. container' = container
      BY <1>5, <2>1, <2>3 DEF OnOutcome
    <3> QED
      BY <1>1, <3>1
  <2> QED
    BY <2>2, <2>3
<1> QED
  BY <1>4, <1>5

\* The file is as it was, and so is what is said of it.
LEMMA SameFile ==
  ASSUME Files, Keyed(container'), UNCHANGED <<disk, edited>> PROVE Files'
<1>1. /\ disk' # Unreadable => Keyed(disk')
      /\ disk' # Unreadable /\ ~edited' =>
           \A t \in DOMAIN disk' :
             disk'[t] # Nil /\ Cardinality(EntriesOf(disk', EndpointOf[t])) <= MaxEntries
  BY DEF Files
<1>2. Keyed(container)' /\ (disk' # Unreadable => Keyed(disk)')
  BY <1>1 DEF Keyed, WellFormed
<1>3. \A t : EntriesOf(disk', EndpointOf[t]) = EntriesOf(disk, EndpointOf[t])'
  BY DEF EntriesOf, WellFormed
<1> QED
  BY <1>1, <1>2, <1>3 DEF Files

\* How many records an endpoint is left with.
LEMMA CutToCounts ==
  ASSUME NEW K, NEW T, CutTo(K, T) PROVE Cardinality(K) <= MaxEntries
<1>1. Cardinality(T) \in Nat /\ MaxEntries \in Nat
  BY StatsAssumption, FS_CardinalityType DEF CutTo
<1> QED
  BY <1>1 DEF CutTo

\* Files is kept by every step.
LEMMA FilesNext == StatsIInv /\ Files /\ [StatsNext]_statsVars => Files'
<1> SUFFICES ASSUME StatsIInv, Files, [StatsNext]_statsVars PROVE Files'
  OBVIOUS
<1> USE DEF processVars, bounds, history
<1>1. /\ Keyed(container) /\ IsContainer(container, AnyRecord \union {Nil})
      /\ disk # Unreadable => Keyed(disk) /\ IsContainer(disk, AnyRecord \union {Nil})
  BY ContainersKeyed
<1>2. CASE Tick \/ TrimExit \/ CloseCancel \/ CloseWait \/ UNCHANGED statsVars
  <2>1. UNCHANGED <<container, disk, edited>>
    BY <1>2 DEF Tick, TrimExit, CloseCancel, CloseWait, statsVars
  <2> QED
    BY <1>1, <2>1, SameFile
<1>3. CASE \E a \in Attempts : \/ \E t \in Tactics : OnStarting(a, t)
                               \/ \E k \in Reported : OnOutcome(a, k)
  <2>1. PICK a \in Attempts : \/ \E t \in Tactics : OnStarting(a, t)
                              \/ \E k \in Reported : OnOutcome(a, k)
    BY <1>3
  <2>2. UNCHANGED <<disk, edited>>
    BY <2>1 DEF OnStarting, OnOutcome
  <2>3. Keyed(container')
    BY <2>1, CallbacksKeepKeyed
  <2> QED
    BY <2>2, <2>3, SameFile
<1>4. CASE Trim
  <2>1. UNCHANGED <<disk, edited>>
    BY <1>4 DEF Trim
  <2>2. PICK order \in SetToSeqs(WellFormed(container)) : container' = Prune(container, order)
    BY <1>4 DEF Trim
  <2>3. Keyed(container')
    BY <1>1, <2>2, PruneCuts
  <2> QED
    BY <2>1, <2>3, SameFile
<1>5. CASE NewStatsManager
  <2>1. UNCHANGED <<disk, edited>>
    BY <1>5 DEF NewStatsManager
  <2>2. CASE disk = Unreadable
    <3>1. Keyed(container')
      BY <1>5, <2>2, EmptyIsKeyed DEF NewStatsManager
    <3> QED
      BY <2>1, <3>1, SameFile
  <2>3. CASE disk # Unreadable
    <3>1. PICK order \in SetToSeqs(WellFormed(disk)) : container' = Prune(disk, order)
      BY <1>5, <2>3 DEF NewStatsManager
    <3>2. Keyed(container')
      BY <1>1, <2>3, <3>1, PruneCuts
    <3> QED
      BY <2>1, <3>2, SameFile
  <2> QED
    BY <2>2, <2>3
<1>6. CASE Exit
  <2>1. UNCHANGED <<disk, edited>> /\ Keyed(container')
    BY <1>6, EmptyIsKeyed DEF Exit
  <2> QED
    BY <2>1, SameFile
<1>7. CASE EditFile
  <2>1. container' = container /\ edited' = TRUE /\ disk # Unreadable
    BY <1>7 DEF EditFile
  <2>2. disk' # Unreadable => Keyed(disk')
    <3>1. SUFFICES ASSUME disk' # Unreadable PROVE Keyed(disk')
      OBVIOUS
    <3>2. PICK t \in DOMAIN disk : disk' = [disk EXCEPT ![t] = Nil]
      BY <1>7, <3>1 DEF EditFile
    <3>3. /\ DOMAIN disk' = DOMAIN disk
          /\ \A u \in DOMAIN disk : disk'[u] = IF u = t THEN Nil ELSE disk[u]
      BY <3>2
    <3> QED
      BY <1>1, <2>1, <3>3 DEF Keyed, WellFormed
  <2>3. Keyed(container)' /\ (disk' # Unreadable => Keyed(disk)')
    BY <1>1, <2>1, <2>2 DEF Keyed, WellFormed
  <2> QED
    BY <2>1, <2>3 DEF Files
<1>8. CASE CloseSave
  <2>1. container' = container
    BY <1>8 DEF CloseSave
  <2>2. CASE UNCHANGED <<disk, edited>>
    BY <1>1, <2>1, <2>2, SameFile
  <2>3. CASE ~UNCHANGED <<disk, edited>>
    <3>1. PICK order \in SetToSeqs(WellFormed(container)) : disk' = Prune(container, order)
      BY <1>8, <2>3 DEF CloseSave
    <3>2. /\ Keyed(disk') /\ \A t \in DOMAIN disk' : disk'[t] # Nil
          /\ \A e : CutTo(EntriesOf(disk', e), Recent(container, e))
      BY <1>1, <3>1, PruneCuts
    <3>3. \A e : Cardinality(EntriesOf(disk', e)) <= MaxEntries
      BY <3>2, CutToCounts
    <3>4. \A e : EntriesOf(disk', e) = EntriesOf(disk, e)'
      BY DEF EntriesOf, WellFormed
    <3>5. Keyed(container)' /\ Keyed(disk)'
      BY <1>1, <2>1, <3>2 DEF Keyed, WellFormed
    <3> QED
      BY <3>2, <3>3, <3>4, <3>5 DEF Files
  <2> QED
    BY <2>2, <2>3
<1> QED
  BY <1>2, <1>3, <1>4, <1>5, <1>6, <1>7, <1>8 DEF StatsNext

\* Files holds in every reachable state.
LEMMA FilesAlways == StatsSpec => []Files
<1>1. StatsInit => Files
  BY EmptyIsKeyed DEF StatsInit, Files
<1> QED
  BY <1>1, FilesNext, StatsIInvAlways, PTL DEF StatsSpec

\* Fresh is what pruning tests.
LEMMA FreshIsNotOld == ASSUME NEW r PROVE Fresh(r) <=> NotOld(r)
  BY DEF Fresh, NotOld

\* Although the sort of a prune has a comparator that is not an order, no step of a
\* running process drops a record that is not a week old, unless its endpoint is left
\* with as many records as it may have.
THEOREM DropsOnlyOldOrExcessAlways == StatsSpec => DropsOnlyOldOrExcess
<1>1. ASSUME StatsIInv, Files, [StatsNext]_statsVars, run # "down", run' # "down",
             NEW t \in DOMAIN container \ DOMAIN container', Fresh(container[t])
      PROVE  Cardinality(EntriesOf(container', EndpointOf[t])) = MaxEntries
  <2> USE DEF processVars, bounds, history
  <2>1. Trim
    <3>1. CASE Tick \/ TrimExit \/ CloseCancel \/ CloseWait \/ CloseSave \/ EditFile
               \/ NewStatsManager \/ Exit \/ UNCHANGED statsVars
      BY <1>1, <3>1 DEF Tick, TrimExit, CloseCancel, CloseWait, CloseSave, EditFile,
                        NewStatsManager, Exit, statsVars
    <3>2. CASE \E a \in Attempts : \/ \E u \in Tactics : OnStarting(a, u)
                                   \/ \E k \in Reported : OnOutcome(a, k)
      BY <1>1, <3>2, CallbacksKeepKeyed
    <3> QED
      BY <1>1, <3>1, <3>2 DEF StatsNext
  <2>2. PICK order \in SetToSeqs(WellFormed(container)) : container' = Prune(container, order)
    BY <2>1 DEF Trim
  <2>3. /\ Keyed(container) /\ IsContainer(container, AnyRecord \union {Nil})
        /\ WellFormed(container) = DOMAIN container
    BY <1>1, ContainersKeyed
  <2>4. PICK e : e = EndpointOf[t]
    OBVIOUS
  <2>5. PICK d : d = container'
    OBVIOUS
  <2>6. CutTo(EntriesOf(d, e), Recent(container, e))
    BY <2>2, <2>3, <2>5, PruneCuts
  <2>7. t \in Recent(container, e)
    BY <1>1, <2>3, <2>4, FreshIsNotOld DEF Recent, EntriesOf
  <2>8. t \notin EntriesOf(d, e)
    BY <1>1, <2>5 DEF EntriesOf, WellFormed
  <2> QED
    BY <2>4, <2>5, <2>6, <2>7, <2>8 DEF CutTo
<1>2. StatsIInv /\ Files /\ [StatsNext]_statsVars =>
        [run # "down" /\ run' # "down" =>
           \A t \in DOMAIN container \ DOMAIN container' :
             LET e == EndpointOf[t]
             IN  Fresh(container[t]) =>
                   Cardinality(EntriesOf(container', e)) = MaxEntries]_statsVars
  BY <1>1
<1> QED
  BY <1>2, StatsIInvAlways, FilesAlways, PTL DEF StatsSpec, DropsOnlyOldOrExcess

\* What Close saves has no malformed record and no excess, so that the prune of the next
\* start drops nothing that is not a week old and changes nothing.
THEOREM ReloadIsFaithfulAlways == StatsSpec => ReloadIsFaithful
<1>1. ASSUME StatsIInv, Files, [StatsNext]_statsVars, run = "down", run' = "up",
             disk # Unreadable, ~edited
      PROVE  /\ \A t \in DOMAIN container' : container'[t] = disk[t]
             /\ \A t \in DOMAIN disk : Fresh(disk[t]) => t \in DOMAIN container'
  <2>1. NewStatsManager
    BY <1>1 DEF StatsNext, Tick, TrimExit, CloseCancel, CloseWait, CloseSave, EditFile, Exit,
                Trim, OnStarting, OnOutcome, statsVars, processVars
  <2>2. PICK order \in SetToSeqs(WellFormed(disk)) : container' = Prune(disk, order)
    BY <1>1, <2>1 DEF NewStatsManager
  <2>3. Keyed(disk) /\ IsContainer(disk, AnyRecord \union {Nil})
    BY <1>1, ContainersKeyed
  <2>4. PICK d : d = container'
    OBVIOUS
  <2>5. /\ \A t \in DOMAIN d : d[t] = disk[t]
        /\ \A e : CutTo(EntriesOf(d, e), Recent(disk, e))
    BY <2>2, <2>3, <2>4, PruneCuts
  <2>6. ASSUME NEW t \in DOMAIN disk, Fresh(disk[t]) PROVE t \in DOMAIN d
    <3>1. PICK e : e = EndpointOf[t]
      OBVIOUS
    <3>2. disk[t] # Nil /\ Cardinality(EntriesOf(disk, e)) <= MaxEntries
      BY <1>1, <3>1 DEF Files
    <3>3. t \in Recent(disk, e)
      BY <2>6, <3>1, <3>2, FreshIsNotOld DEF Recent, EntriesOf, WellFormed
    <3>4. CutTo(EntriesOf(d, e), Recent(disk, e))
      BY <2>5
    <3>5. Cardinality(Recent(disk, e)) <= MaxEntries
      <4>1. EntriesOf(disk, e) \in SUBSET DOMAIN disk
        BY DEF EntriesOf, WellFormed
      <4>2. IsFiniteSet(EntriesOf(disk, e))
        BY <2>3, <4>1, FS_Subset DEF Keyed
      <4>3. Recent(disk, e) \in SUBSET EntriesOf(disk, e)
        BY DEF Recent
      <4>4. /\ Cardinality(Recent(disk, e)) <= Cardinality(EntriesOf(disk, e))
            /\ IsFiniteSet(Recent(disk, e))
        BY <4>2, <4>3, FS_Subset
      <4>5. /\ Cardinality(Recent(disk, e)) \in Nat /\ Cardinality(EntriesOf(disk, e)) \in Nat
            /\ MaxEntries \in Nat
        BY <4>2, <4>4, FS_CardinalityType, StatsAssumption
      <4> QED
        BY <3>2, <4>4, <4>5
    <3>6. ~(Cardinality(Recent(disk, e)) > MaxEntries)
      <4>1. Cardinality(Recent(disk, e)) \in Nat /\ MaxEntries \in Nat
        BY <3>4, FS_CardinalityType, StatsAssumption DEF CutTo
      <4> QED
        BY <3>5, <4>1
    <3>7. t \in EntriesOf(d, e)
      BY <3>3, <3>4, <3>6 DEF CutTo
    <3> QED
      BY <3>7 DEF EntriesOf, WellFormed
  <2> QED
    BY <2>4, <2>5, <2>6
<1>2. StatsIInv /\ Files /\ [StatsNext]_statsVars =>
        [run = "down" /\ run' = "up" /\ disk # Unreadable /\ ~edited =>
           /\ \A t \in DOMAIN container' : container'[t] = disk[t]
           /\ \A t \in DOMAIN disk : Fresh(disk[t]) => t \in DOMAIN container']_statsVars
  BY <1>1
<1> QED
  BY <1>2, StatsIInvAlways, FilesAlways, PTL DEF StatsSpec, ReloadIsFaithful
=============================================================================
