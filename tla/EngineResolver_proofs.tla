----------------------- MODULE EngineResolver_proofs -----------------------
(***************************************************************************)
(* Proofs about EngineResolver: what a call of LookupHost works on and what *)
(* its result means, for any makers, any file that some version has written, *)
(* and any number of concurrent calls.                                       *)
(***************************************************************************)
EXTENDS EngineResolver, SequenceTheorems, FiniteSetTheorems, TLAPS

\* The state of a call.
Call == [pc : {"start", "loop", "lookup", "return", "returned"},
         state : Seq(ResolverInfo), i : Nat, ctxDone : BOOLEAN,
         result : {"none", "addrs", "error"}, failed : SUBSET URLs, blamed : SUBSET URLs]

\* The resolvers that a call may use.
Usable == {u \in Supported : proxy => u \in Proxiable}

\* The parts of the invariant of one call c, where S is Supported and U is Usable.

\* Once it has read the state, its list has each supported resolver once.
Complete(c, S) == c.pc # "start" => URLsOf(c.state) = S /\ Distinct(c.state)

\* Where its loop stands.
Located(c, U) ==
  /\ c.i \in 1..Len(c.state) + 1
  /\ c.pc \in {"start", "loop", "lookup"} => c.result = "none"
  /\ c.pc = "start" => c.i = 1
  /\ c.pc = "lookup" => c.i <= Len(c.state) /\ c.state[c.i].url \in U
  /\ c.result = "addrs" => c.i <= Len(c.state)
  /\ c.result = "error" => c.i = Len(c.state) + 1

\* The usable resolvers that its loop is past.
Passed(c, U) == {u \in U : \E j \in 1..Len(c.state) : j < c.i /\ c.state[j].url = u}

\* Those that failed are among them, and are all of them if the context is not done.
Tallied(c, U) ==
  /\ c.failed \subseteq Passed(c, U)
  /\ ~c.ctxDone => c.failed = Passed(c, U)

\* What failed has a low score, what answered has a high one.
Scored(c) ==
  /\ \A j \in 1..Len(c.state) :
       j < c.i /\ c.state[j].url \in c.failed => c.state[j].score <= Scale \div 10
  /\ c.result = "addrs" => c.state[c.i].score >= 9 * (Scale \div 10)

\* What the context is blamed on was the last thing tried.
Blamed(c) ==
  /\ c.blamed # {} => c.ctxDone /\ c.pc # "lookup"
  /\ \A u, v \in c.blamed : u = v

Good(c, S, U) ==
  /\ Complete(c, S) /\ Located(c, U) /\ Tallied(c, U) /\ Scored(c) /\ Blamed(c)

\* The inductive invariant.
IInv ==
  /\ TypeOK /\ Distinct(store)
  /\ \A l \in Lookups : Good(call[l], Supported, Usable)

----------------------------------------------------------------------------
(* Reading the state: the sorted list is a permutation of the merged one.  *)

\* The list that is sorted: its entries are those that were kept from the file and
\* the makers that the file lacks.
LEMMA MergedEntries ==
  ASSUME allmakers \in Seq(ResolverInfo), store \in Seq(ResolverInfo)
  PROVE  /\ Listed \subseteq Nat /\ IsFiniteSet(Listed)
         /\ \A i \in Listed : Merged[i] \in ResolverInfo
         /\ \A i \in Kept : Merged[i] = store[i] /\ i \in 1..Len(store)
         /\ \A j \in Added : /\ Merged[Len(store) + j] = allmakers[j]
                             /\ j \in 1..Len(allmakers)
<1>1. Kept \subseteq 1..Len(store) /\ Added \subseteq 1..Len(allmakers)
  BY DEF Kept, Added
<1>2. Len(store) \in Nat /\ Len(allmakers) \in Nat
  OBVIOUS
<1>3. Listed \subseteq 1..(Len(store) + Len(allmakers))
  <2> SUFFICES ASSUME NEW i \in Listed PROVE i \in 1..(Len(store) + Len(allmakers))
    OBVIOUS
  <2>1. CASE i \in Kept
    BY <2>1, <1>1, <1>2
  <2>2. ASSUME NEW j \in Added, i = Len(store) + j PROVE i \in 1..(Len(store) + Len(allmakers))
    BY <2>2, <1>1, <1>2
  <2> QED
    BY <2>1, <2>2 DEF Listed
<1>4. IsFiniteSet(Listed)
  <2>1. IsFiniteSet(1..(Len(store) + Len(allmakers)))
    BY <1>2, FS_Interval
  <2> QED
    BY <2>1, <1>3, FS_Subset
<1>5. /\ Merged \in Seq(ResolverInfo) /\ Len(Merged) = Len(store) + Len(allmakers)
      /\ \A i \in 1..(Len(store) + Len(allmakers)) :
           Merged[i] = IF i <= Len(store) THEN store[i] ELSE allmakers[i - Len(store)]
  BY ConcatProperties DEF Merged
<1>6. \A i \in Listed : Merged[i] \in ResolverInfo
  BY <1>2, <1>3, <1>5
<1>7. \A i \in Kept : Merged[i] = store[i] /\ i \in 1..Len(store)
  BY <1>1, <1>2, <1>5
<1>8. \A j \in Added : Merged[Len(store) + j] = allmakers[j] /\ j \in 1..Len(allmakers)
  <2> SUFFICES ASSUME NEW j \in Added
               PROVE  Merged[Len(store) + j] = allmakers[j] /\ j \in 1..Len(allmakers)
    OBVIOUS
  <2>1. j \in 1..Len(allmakers)
    BY <1>1
  <2>2. /\ Len(store) + j \in 1..(Len(store) + Len(allmakers))
        /\ ~(Len(store) + j <= Len(store)) /\ (Len(store) + j) - Len(store) = j
    BY <2>1, <1>2
  <2> QED
    BY <2>1, <2>2, <1>5
<1> QED
  BY <1>2, <1>3, <1>4, <1>6, <1>7, <1>8

\* The entries to sort are of every supported resolver, and of each only once.
LEMMA MergedURLs ==
  ASSUME allmakers \in Seq(ResolverInfo), store \in Seq(ResolverInfo),
         Distinct(allmakers), Distinct(store)
  PROVE  /\ {Merged[i].url : i \in Listed} = Supported
         /\ \A i, j \in Listed : Merged[i].url = Merged[j].url => i = j
<1>1. /\ \A i \in Kept : Merged[i] = store[i] /\ i \in 1..Len(store)
      /\ \A j \in Added : Merged[Len(store) + j] = allmakers[j] /\ j \in 1..Len(allmakers)
  BY MergedEntries
<1> DEFINE Old == {store[i].url : i \in Kept}
           New == {allmakers[j].url : j \in Added}
<1>2. {Merged[i].url : i \in Listed} = Old \union New
  BY <1>1 DEF Listed
<1>3. Old \union New = Supported
  BY DEF Kept, Added, Supported, URLsOf
<1>4. ASSUME NEW i \in Listed, NEW j \in Listed, Merged[i].url = Merged[j].url
      PROVE  i = j
  <2>1. CASE i \in Kept /\ j \in Kept
    BY <2>1, <1>1, <1>4 DEF Distinct, Kept
  <2>2. CASE \E m, n \in Added : i = Len(store) + m /\ j = Len(store) + n
    BY <2>2, <1>1, <1>4 DEF Distinct, Added
  <2>3. ASSUME NEW m \in Kept, NEW n \in Added PROVE store[m].url # allmakers[n].url
    BY DEF Added
  <2>4. CASE i \in Kept /\ \E n \in Added : j = Len(store) + n
    BY <2>3, <2>4, <1>1, <1>4
  <2>5. CASE j \in Kept /\ \E n \in Added : i = Len(store) + n
    BY <2>3, <2>5, <1>1, <1>4
  <2> QED
    BY <2>1, <2>2, <2>4, <2>5 DEF Listed
<1> QED
  BY <1>2, <1>3, <1>4

\* No two entries have the same place, and the places go from the first to the last:
\* the comparison of sortstate, with its ties, is a strict total order.
LEMMA PlacesAreAllTaken ==
  ASSUME allmakers \in Seq(ResolverInfo), store \in Seq(ResolverInfo)
  PROVE  /\ Cardinality(Listed) \in Nat
         /\ \A i, j \in Listed : Place(i) = Place(j) => i = j
         /\ \A i \in Listed : Place(i) \in 1..Cardinality(Listed)
         /\ \A k \in 1..Cardinality(Listed) : \E i \in Listed : Place(i) = k
<1> DEFINE Ahead(i) == {j \in Listed : AheadOf(j, i)}
           n == Cardinality(Listed)
<1>1. Listed \subseteq Nat /\ IsFiniteSet(Listed) /\ \A i \in Listed : Merged[i].score \in Nat
  BY MergedEntries, ResolverAssumption DEF ResolverInfo
<1>2. n \in Nat
  BY <1>1, FS_CardinalityType
<1>3. \A i \in Listed : /\ IsFiniteSet(Ahead(i)) /\ Cardinality(Ahead(i)) \in Nat
                        /\ Ahead(i) \subseteq Listed /\ i \notin Ahead(i)
  <2> SUFFICES ASSUME NEW i \in Listed
               PROVE  /\ IsFiniteSet(Ahead(i)) /\ Cardinality(Ahead(i)) \in Nat
                      /\ Ahead(i) \subseteq Listed /\ i \notin Ahead(i)
    OBVIOUS
  <2>1. Ahead(i) \subseteq Listed /\ i \notin Ahead(i)
    BY <1>1 DEF AheadOf
  <2>2. IsFiniteSet(Ahead(i))
    BY <2>1, <1>1, FS_Subset
  <2> QED
    BY <2>1, <2>2, FS_CardinalityType
<1>4. ASSUME NEW i \in Listed, NEW j \in Listed, AheadOf(i, j)
      PROVE  Place(i) < Place(j)
  <2>1. Ahead(i) \subseteq Ahead(j) /\ i \in Ahead(j) /\ i \notin Ahead(i)
    <3>1. \A k \in Listed : AheadOf(k, i) => AheadOf(k, j)
      BY <1>1, <1>4 DEF AheadOf
    <3> QED
      BY <3>1, <1>3, <1>4
  <2>2. /\ Cardinality(Ahead(i)) <= Cardinality(Ahead(j))
        /\ Cardinality(Ahead(i)) # Cardinality(Ahead(j))
    <3>1. /\ Cardinality(Ahead(i)) <= Cardinality(Ahead(j))
          /\ Cardinality(Ahead(j)) = Cardinality(Ahead(i)) => Ahead(j) = Ahead(i)
      BY <2>1, <1>3, FS_Subset
    <3> QED
      BY <2>1, <3>1
  <2>3. Place(i) = Cardinality(Ahead(i)) + 1 /\ Place(j) = Cardinality(Ahead(j)) + 1
    BY DEF Place
  <2> HIDE DEF Ahead
  <2> QED
    BY <2>2, <2>3, <1>3
<1>5. \A i \in Listed : Place(i) \in 1..n
  <2> SUFFICES ASSUME NEW i \in Listed PROVE Place(i) \in 1..n
    OBVIOUS
  <2>1. Ahead(i) \subseteq Listed /\ i \notin Ahead(i) /\ Cardinality(Ahead(i)) \in Nat
    BY <1>3
  <2>2. Cardinality(Ahead(i)) <= n /\ (n = Cardinality(Ahead(i)) => Listed = Ahead(i))
    BY <2>1, <1>1, FS_Subset
  <2>3. Place(i) = Cardinality(Ahead(i)) + 1
    BY DEF Place
  <2>4. n # Cardinality(Ahead(i))
    BY <2>1, <2>2
  <2> HIDE DEF Ahead, n
  <2> QED
    BY <2>1, <2>2, <2>3, <2>4, <1>2
<1>6. ASSUME NEW i \in Listed, NEW j \in Listed, Place(i) = Place(j)
      PROVE  i = j
  <2>1. i = j \/ AheadOf(i, j) \/ AheadOf(j, i)
    BY <1>1 DEF AheadOf
  <2>2. Place(i) \in Nat /\ Place(j) \in Nat
    BY <1>5, <1>2
  <2> QED
    BY <2>1, <2>2, <1>4, <1>6
<1>7. \A k \in 1..n : \E i \in Listed : Place(i) = k
  <2> DEFINE f == [i \in Listed |-> Place(i)]
  <2>1. f \in Injection(Listed, 1..n)
    <3>1. f \in [Listed -> 1..n]
      BY <1>5
    <3>2. \A a, b \in DOMAIN f : f[a] = f[b] => a = b
      BY <1>6
    <3> QED
      BY <3>1, <3>2 DEF Injection, IsInjective
  <2>2. IsFiniteSet(1..n) /\ Cardinality(1..n) = n
    BY <1>2, FS_Interval
  <2>3. f \in Surjection(Listed, 1..n)
    BY <2>1, <2>2, FS_Injection
  <2>4. \A k \in 1..n : \E i \in Listed : f[i] = k
    BY <2>3 DEF Surjection
  <2> QED
    BY <2>4
<1> QED
  BY <1>2, <1>5, <1>6, <1>7

\* readstatedefault returns a list with every supported resolver, and each once.
LEMMA ReadStateDefaultIsFair ==
  ASSUME allmakers \in Seq(ResolverInfo), store \in Seq(ResolverInfo),
         Distinct(allmakers), Distinct(store)
  PROVE  /\ ReadStateDefault \in Seq(ResolverInfo)
         /\ URLsOf(ReadStateDefault) = Supported /\ Distinct(ReadStateDefault)
<1> DEFINE n == Cardinality(Listed)
           at(k) == CHOOSE i \in Listed : Place(i) = k
           r == ReadStateDefault
<1>1. n \in Nat
  BY PlacesAreAllTaken
<1>2. \A k \in 1..n : at(k) \in Listed /\ Place(at(k)) = k
  BY PlacesAreAllTaken
<1>3. \A i \in Listed : Place(i) \in 1..n /\ at(Place(i)) = i
  BY <1>2, PlacesAreAllTaken
<1>4. \A i \in Listed : Merged[i] \in ResolverInfo
  BY MergedEntries
<1>5. r = [k \in 1..n |-> Merged[at(k)]]
  BY DEF ReadStateDefault
<1>6. {Merged[i].url : i \in Listed} = Supported
  BY MergedURLs
<1>7. \A i, j \in Listed : Merged[i].url = Merged[j].url => i = j
  BY MergedURLs
<1> HIDE DEF n, at, r
<1>8. r \in Seq(ResolverInfo)
  <2>1. r \in [1..n -> ResolverInfo]
    BY <1>2, <1>4, <1>5
  <2> QED
    BY <2>1, <1>1, SeqDef
<1>9. DOMAIN r = 1..n /\ \A k \in 1..n : r[k] = Merged[at(k)]
  BY <1>5
<1>10. URLsOf(r) = Supported
  <2>1. URLsOf(r) = {Merged[i].url : i \in Listed}
    BY <1>2, <1>3, <1>9 DEF URLsOf
  <2> QED
    BY <2>1, <1>6
<1>11. Distinct(r)
  <2> SUFFICES ASSUME NEW j \in 1..n, NEW k \in 1..n, Merged[at(j)].url = Merged[at(k)].url
               PROVE  j = k
    BY <1>9 DEF Distinct
  <2>1. at(j) = at(k)
    BY <1>2, <1>7
  <2> QED
    BY <2>1, <1>2
<1> QED
  BY <1>8, <1>10, <1>11 DEF r

\* The swap of maybeConfusion keeps the list's resolvers.
LEMMA MaybeConfusionIsFair ==
  ASSUME NEW s \in Seq(ResolverInfo), NEW t \in MaybeConfusion(s)
  PROVE  /\ t \in Seq(ResolverInfo) /\ Len(t) = Len(s)
         /\ URLsOf(t) = URLsOf(s) /\ (Distinct(s) => Distinct(t))
<1> DEFINE Swap(k) == [s EXCEPT ![1] = s[k], ![k] = s[1]]
<1>1. ASSUME NEW k \in 2..3, k <= Len(s), t = Swap(k)
      PROVE  /\ t \in Seq(ResolverInfo) /\ Len(t) = Len(s)
             /\ URLsOf(t) = URLsOf(s) /\ (Distinct(s) => Distinct(t))
  <2>1. /\ s[1] \in ResolverInfo /\ s[k] \in ResolverInfo
        /\ k \in 1..Len(s) /\ 1 \in 1..Len(s) /\ k # 1 /\ Len(s) \in Nat
    BY <1>1
  <2> DEFINE u == [s EXCEPT ![1] = s[k]]
  <2>2. /\ u \in Seq(ResolverInfo) /\ Len(u) = Len(s)
        /\ \A j \in 1..Len(s) : u[j] = IF j = 1 THEN s[k] ELSE s[j]
    BY <2>1, ExceptSeq
  <2>3. t = [u EXCEPT ![k] = s[1]]
    BY <1>1
  <2> HIDE DEF u
  <2>4. /\ t \in Seq(ResolverInfo) /\ Len(t) = Len(s)
        /\ \A j \in 1..Len(s) : t[j] = IF j = k THEN s[1] ELSE u[j]
    BY <2>1, <2>2, <2>3, ExceptSeq
  <2> DEFINE p(j) == IF j = 1 THEN k ELSE IF j = k THEN 1 ELSE j
  <2>5. \A j \in 1..Len(s) : /\ p(j) \in 1..Len(s) /\ p(p(j)) = j
                             /\ t[j] = s[p(j)] /\ t[p(j)] = s[j]
    BY <2>1, <2>2, <2>4
  <2>6. DOMAIN s = 1..Len(s) /\ DOMAIN t = 1..Len(s)
    BY <2>4
  <2> HIDE DEF p
  <2>7. URLsOf(t) = URLsOf(s)
    BY <2>5, <2>6 DEF URLsOf
  <2>8. Distinct(s) => Distinct(t)
    <3> SUFFICES ASSUME Distinct(s), NEW a \in 1..Len(s), NEW b \in 1..Len(s),
                        t[a].url = t[b].url
                 PROVE  a = b
      BY <2>6 DEF Distinct
    <3>1. p(a) = p(b)
      BY <2>5, <2>6 DEF Distinct
    <3> QED
      BY <3>1, <2>5
  <2> QED
    BY <2>4, <2>7, <2>8
<1>2. CASE t = s
  BY <1>2
<1>3. CASE \E k \in DOMAIN s \intersect (IF Len(s) = 2 THEN {2} ELSE {3}) : t = Swap(k)
  <2>1. PICK k \in DOMAIN s \intersect (IF Len(s) = 2 THEN {2} ELSE {3}) : t = Swap(k)
    BY <1>3
  <2>2. k \in {2, 3} /\ k \in 1..Len(s) /\ Len(s) \in Nat
    OBVIOUS
  <2>3. k \in 2..3 /\ k <= Len(s)
    BY <2>2
  <2> QED
    BY <2>1, <2>3, <1>1
<1> QED
  BY <1>2, <1>3 DEF MaybeConfusion

----------------------------------------------------------------------------
(* What a step does to the state of one call.                              *)

\* The scores of a failure and of a success, in units of a tenth of the scale.
LEMMA Tenths ==
  /\ Scale \div 10 \in Nat \ {0} /\ Scale = 10 * (Scale \div 10)
  /\ \A s \in 0..Scale : /\ Decrease(s) \in 0..(Scale \div 10)
                         /\ Increase(s) \in (9 * (Scale \div 10))..Scale
<1>1. Scale \div 10 \in Nat \ {0} /\ Scale = 10 * (Scale \div 10)
  BY ResolverAssumption
<1>2. \A s \in 0..Scale : s \div 10 \in 0..(Scale \div 10)
  BY ResolverAssumption
<1> DEFINE k == Scale \div 10
<1>3. k \in Nat /\ Scale = 10 * k /\ \A s \in 0..Scale : s \div 10 \in 0..k
  BY <1>1, <1>2
<1>4. \A s \in 0..Scale : Decrease(s) = s \div 10 /\ Increase(s) = 9 * k + s \div 10
  BY DEF Decrease, Increase
<1> HIDE DEF k
<1>5. \A s \in 0..Scale : Decrease(s) \in 0..k /\ Increase(s) \in (9 * k)..Scale
  <2> SUFFICES ASSUME NEW s \in 0..Scale
               PROVE  Decrease(s) \in 0..k /\ Increase(s) \in (9 * k)..Scale
    OBVIOUS
  <2>1. PICK d \in 0..k : d = s \div 10
    BY <1>3
  <2>2. Decrease(s) = d /\ Increase(s) = 9 * k + d
    BY <2>1, <1>4
  <2> QED
    BY <2>2, <1>3
<1> QED
  BY <1>1, <1>5 DEF k

\* Changing the score of one entry leaves the list of resolvers as it is.
LEMMA Rescore ==
  ASSUME NEW s \in Seq(ResolverInfo), NEW i \in 1..Len(s), NEW v \in 0..Scale,
         NEW t, t = [s EXCEPT ![i].score = v]
  PROVE  /\ t \in Seq(ResolverInfo) /\ Len(t) = Len(s)
         /\ t[i].score = v
         /\ \A j \in 1..Len(s) : t[j].url = s[j].url /\ (j # i => t[j] = s[j])
         /\ URLsOf(t) = URLsOf(s) /\ (Distinct(s) => Distinct(t))
<1>1. s[i] \in ResolverInfo /\ Len(s) \in Nat
  OBVIOUS
<1> DEFINE e == [s[i] EXCEPT !.score = v]
<1>2. e \in ResolverInfo /\ e.url = s[i].url /\ e.score = v
  BY <1>1 DEF ResolverInfo
<1>3. t = [s EXCEPT ![i] = e]
  OBVIOUS
<1> HIDE DEF e
<1>4. /\ t \in Seq(ResolverInfo) /\ Len(t) = Len(s)
      /\ \A j \in 1..Len(s) : t[j] = IF j = i THEN e ELSE s[j]
  BY <1>2, <1>3, ExceptSeq
<1>5. DOMAIN s = 1..Len(s) /\ DOMAIN t = 1..Len(s)
  BY <1>4
<1>6. \A j \in 1..Len(s) : t[j].url = s[j].url
  BY <1>2, <1>4
<1>7. URLsOf(t) = URLsOf(s) /\ (Distinct(s) => Distinct(t))
  BY <1>5, <1>6 DEF URLsOf, Distinct
<1> QED
  BY <1>2, <1>4, <1>6, <1>7

\* When the loop goes on to the next entry, it is past one more resolver.
LEMMA PassedOneMore ==
  ASSUME NEW U, NEW c \in Call, NEW d \in Call, c.i \in 1..Len(c.state),
         d.i = c.i + 1, Len(d.state) = Len(c.state),
         \A j \in 1..Len(c.state) : d.state[j].url = c.state[j].url
  PROVE  Passed(d, U) = Passed(c, U) \union ({c.state[c.i].url} \intersect U)
<1>1. Len(c.state) \in Nat /\ c.i \in Nat
  BY DEF Call
<1>2. \A j \in 1..Len(c.state) : j < d.i <=> j < c.i \/ j = c.i
  BY <1>1
<1> QED
  BY <1>2 DEF Passed

\* A failure of the entry at hand keeps the invariant of the call.
LEMMA FailureIsGood ==
  ASSUME NEW S, NEW U, NEW c \in Call, NEW d \in Call, NEW v \in 0..(Scale \div 10),
         Good(c, S, U), c.i \in 1..Len(c.state), c.pc \in {"loop", "lookup"},
         c.state[c.i].url \in U,
         d.pc = "loop", d.state = [c.state EXCEPT ![c.i].score = v], d.i = c.i + 1,
         d.ctxDone = c.ctxDone, d.result = c.result,
         d.failed = c.failed \union {c.state[c.i].url}, Blamed(d)
  PROVE  Good(d, S, U)
<1>1. /\ c.state \in Seq(ResolverInfo) /\ c.i \in Nat /\ Len(c.state) \in Nat
      /\ v \in 0..Scale
  BY Tenths DEF Call
<1>2. /\ Len(d.state) = Len(c.state) /\ d.state[c.i].score = v
      /\ \A j \in 1..Len(c.state) : /\ d.state[j].url = c.state[j].url
                                    /\ j # c.i => d.state[j] = c.state[j]
      /\ URLsOf(d.state) = URLsOf(c.state) /\ (Distinct(c.state) => Distinct(d.state))
  BY <1>1, Rescore
<1>3. Passed(d, U) = Passed(c, U) \union {c.state[c.i].url}
  <2>1. \A j \in 1..Len(c.state) : d.state[j].url = c.state[j].url
    BY <1>2
  <2>2. Len(d.state) = Len(c.state)
    BY <1>2
  <2>3. Passed(d, U) = Passed(c, U) \union ({c.state[c.i].url} \intersect U)
    BY <2>1, <2>2, PassedOneMore
  <2> QED
    BY <2>3
<1>4. Complete(d, S)
  BY <1>2 DEF Good, Complete
<1>5. Located(d, U)
  BY <1>1, <1>2 DEF Good, Located
<1>6. Tallied(d, U)
  BY <1>3 DEF Good, Tallied
<1>7. Scored(d)
  <2>1. d.result = "none"
    BY DEF Good, Located
  <2>2. ASSUME NEW j \in 1..Len(c.state), j < d.i, d.state[j].url \in d.failed
        PROVE  d.state[j].score <= Scale \div 10
    <3>1. CASE j = c.i
      BY <3>1, <1>2, Tenths
    <3>2. CASE j # c.i
      <4>1. j < c.i /\ d.state[j] = c.state[j]
        BY <2>2, <3>2, <1>1, <1>2
      <4>2. c.state[j].url # c.state[c.i].url
        BY <3>2, <1>1 DEF Good, Complete, Distinct
      <4> QED
        BY <2>2, <4>1, <4>2 DEF Good, Scored
    <3> QED
      BY <3>1, <3>2
  <2> QED
    BY <2>1, <2>2, <1>2 DEF Scored
<1> QED
  BY <1>4, <1>5, <1>6, <1>7 DEF Good

\* The steps of a call, by what they do to its state.
LEMMA ReadIsGood ==
  ASSUME NEW S, NEW U, NEW c \in Call, NEW d \in Call,
         Good(c, S, U), c.pc = "start", URLsOf(d.state) = S, Distinct(d.state),
         d.pc = "loop", d.i = c.i, d.ctxDone = c.ctxDone, d.result = c.result,
         d.failed = c.failed, d.blamed = c.blamed
  PROVE  Good(d, S, U)
<1>1. d.i = 1 /\ d.result = "none" /\ c.i = 1
  BY DEF Good, Located
<1>2. Len(c.state) \in Nat /\ Len(d.state) \in Nat
  BY DEF Call
<1>3. Passed(c, U) = {} /\ Passed(d, U) = {}
  BY <1>1, <1>2 DEF Passed
<1>4. d.failed = {}
  BY <1>3 DEF Good, Tallied
<1>5. Complete(d, S) /\ Located(d, U)
  BY <1>1, <1>2 DEF Complete, Located
<1>6. Tallied(d, U) /\ Scored(d)
  BY <1>1, <1>3, <1>4 DEF Tallied, Scored
<1>7. Blamed(d)
  BY DEF Good, Blamed
<1> QED
  BY <1>5, <1>6, <1>7 DEF Good

\* An entry is left out because it may not be used, or because the context is done.
LEMMA SkipIsGood ==
  ASSUME NEW S, NEW U, NEW c \in Call, NEW d \in Call,
         Good(c, S, U), c.pc = "loop", c.i <= Len(c.state),
         c.state[c.i].url \notin U \/ c.ctxDone,
         d.pc = "loop", d.state = c.state, d.i = c.i + 1, d.ctxDone = c.ctxDone,
         d.result = c.result, d.failed = c.failed, d.blamed = c.blamed
  PROVE  Good(d, S, U)
<1>1. /\ c.i \in Nat /\ Len(c.state) \in Nat /\ c.i \in 1..Len(c.state) /\ c.result = "none"
      /\ c.ctxDone \in BOOLEAN
  BY DEF Call, Good, Located
<1>2. Passed(d, U) = Passed(c, U) \union ({c.state[c.i].url} \intersect U)
  BY <1>1, PassedOneMore
<1>3. Complete(d, S) /\ Blamed(d)
  BY DEF Good, Complete, Blamed
<1>4. Located(d, U)
  BY <1>1 DEF Located
<1>5. Tallied(d, U)
  BY <1>2 DEF Good, Tallied
<1>6. Scored(d)
  <2>1. ASSUME NEW j \in 1..Len(c.state), j < d.i, c.state[j].url \in c.failed
        PROVE  j < c.i
    <3>1. c.state[j].url \in Passed(c, U)
      BY <2>1 DEF Good, Tallied
    <3>2. PICK k \in 1..Len(c.state) : k < c.i /\ c.state[k].url = c.state[j].url
      BY <3>1 DEF Passed
    <3>3. DOMAIN c.state = 1..Len(c.state)
      BY DEF Call
    <3>4. k = j
      BY <3>2, <3>3 DEF Good, Complete, Distinct
    <3> QED
      BY <3>2, <3>4
  <2> QED
    BY <2>1, <1>1 DEF Good, Scored
<1> QED
  BY <1>3, <1>4, <1>5, <1>6 DEF Good

\* The lookup of an entry starts; the loop ends; the call returns; the context is
\* done: the list, the position and what failed stay as they are.
LEMMA MoveIsGood ==
  ASSUME NEW S, NEW U, NEW c \in Call, NEW d \in Call, Good(c, S, U),
         d.state = c.state, d.i = c.i, d.failed = c.failed, d.blamed = c.blamed,
         \/ /\ c.pc = "loop" /\ d.pc = "lookup" /\ c.i <= Len(c.state)
            /\ c.state[c.i].url \in U /\ d.ctxDone = c.ctxDone /\ ~c.ctxDone
            /\ d.result = c.result
         \/ /\ c.pc = "loop" /\ d.pc = "return" /\ c.i > Len(c.state)
            /\ d.ctxDone = c.ctxDone /\ d.result = "error"
         \/ c.pc = "return" /\ d.pc = "returned" /\ d.ctxDone = c.ctxDone /\ d.result = c.result
         \/ c.pc = d.pc /\ d.ctxDone = TRUE /\ d.result = c.result
  PROVE  Good(d, S, U)
<1>1. /\ c.i \in Nat /\ Len(c.state) \in Nat /\ c.i \in 1..Len(c.state) + 1
      /\ c.ctxDone \in BOOLEAN
  BY DEF Call, Good, Located
<1>2. Complete(d, S)
  BY DEF Good, Complete
<1>3. Located(d, U)
  BY <1>1 DEF Good, Located
<1>4. Passed(d, U) = Passed(c, U)
  BY DEF Passed
<1>5. Tallied(d, U)
  BY <1>4 DEF Good, Tallied
<1>6. Scored(d)
  BY DEF Good, Scored
<1>7. Blamed(d)
  BY DEF Good, Blamed
<1> QED
  BY <1>2, <1>3, <1>5, <1>6, <1>7 DEF Good

\* The lookup gives addresses.
LEMMA SuccessIsGood ==
  ASSUME NEW S, NEW U, NEW c \in Call, NEW d \in Call,
         NEW v \in (9 * (Scale \div 10))..Scale, Good(c, S, U), c.pc = "lookup",
         d.pc = "return", d.state = [c.state EXCEPT ![c.i].score = v], d.i = c.i,
         d.ctxDone = c.ctxDone, d.result = "addrs", d.failed = c.failed, d.blamed = c.blamed
  PROVE  Good(d, S, U)
<1>1. /\ c.state \in Seq(ResolverInfo) /\ c.i \in Nat /\ Len(c.state) \in Nat
      /\ c.i \in 1..Len(c.state) /\ v \in 0..Scale
  BY Tenths DEF Call, Good, Located
<1>2. /\ Len(d.state) = Len(c.state) /\ d.state[c.i].score = v
      /\ \A j \in 1..Len(c.state) : /\ d.state[j].url = c.state[j].url
                                    /\ j # c.i => d.state[j] = c.state[j]
      /\ URLsOf(d.state) = URLsOf(c.state) /\ (Distinct(c.state) => Distinct(d.state))
  BY <1>1, Rescore
<1>3. Complete(d, S)
  BY <1>2 DEF Good, Complete
<1>4. Located(d, U)
  BY <1>1, <1>2 DEF Located
<1>5. Passed(d, U) = Passed(c, U)
  BY <1>2 DEF Passed
<1>6. Tallied(d, U)
  BY <1>5 DEF Good, Tallied
<1>7. Scored(d)
  <2>1. d.state[d.i].score >= 9 * (Scale \div 10)
    BY <1>2, Tenths
  <2>2. \A j \in 1..Len(c.state) : j < c.i => d.state[j] = c.state[j]
    BY <1>1, <1>2
  <2> QED
    BY <2>1, <2>2, <1>2 DEF Good, Scored
<1>8. Blamed(d)
  BY DEF Good, Blamed
<1> QED
  BY <1>3, <1>4, <1>6, <1>7, <1>8 DEF Good

----------------------------------------------------------------------------
(* The steps of the system.                                                *)

\* A step of one call that keeps the call's invariant keeps the system's.
LEMMA OneCallSteps ==
  ASSUME IInv, NEW l \in Lookups, NEW d \in Call, call' = [call EXCEPT ![l] = d],
         Good(d, Supported, Usable), UNCHANGED config, UNCHANGED closes, UNCHANGED once,
         store' \in Seq(ResolverInfo), Distinct(store'), res' \subseteq Supported
  PROVE  IInv'
<1>1. call \in [Lookups -> Call]
  BY DEF IInv, TypeOK, Call
<1>2. call' \in [Lookups -> Call]
  BY <1>1
<1>3. Supported' = Supported /\ Usable' = Usable
  BY DEF config, Supported, Usable
<1>4. \A k \in Lookups : Good(call'[k], Supported, Usable)
  <2> SUFFICES ASSUME NEW k \in Lookups PROVE Good(call'[k], Supported, Usable)
    OBVIOUS
  <2>1. call'[k] = IF k = l THEN d ELSE call[k]
    BY <1>1
  <2>2. Good(call[k], Supported, Usable)
    BY DEF IInv
  <2> QED
    BY <2>1, <2>2
<1>5. \A k \in Lookups : call'[k].i \in 1..Len(call'[k].state) + 1
  BY <1>4 DEF Good, Located
<1>6. TypeOK'
  <2>1. /\ allmakers' \in AllMakers /\ proxy' \in BOOLEAN /\ store' \in Seq(ResolverInfo)
        /\ once' \in BOOLEAN /\ closes' \in 0..MaxCloses
    BY DEF config, IInv, TypeOK
  <2> QED
    BY <2>1, <1>2, <1>3, <1>5 DEF TypeOK, Call
<1>7. \A k \in Lookups : Good(call'[k], Supported', Usable')
  BY <1>3, <1>4
<1> QED
  BY <1>6, <1>7 DEF IInv

\* Init.
LEMMA InitIInv == Init => IInv
<1> SUFFICES ASSUME Init PROVE IInv
  OBVIOUS
<1> USE DEF Init
<1>1. allmakers \in AllMakers /\ store \in Seq(ResolverInfo) /\ Distinct(store)
  BY ResolverAssumption
<1>2. NewCall \in Call
  <2>1. <<>> \in Seq(ResolverInfo)
    OBVIOUS
  <2> QED
    BY <2>1 DEF NewCall, Call
<1>3. /\ NewCall.pc = "start" /\ NewCall.state = <<>> /\ NewCall.i = 1
      /\ NewCall.ctxDone = FALSE /\ NewCall.result = "none" /\ NewCall.failed = {}
      /\ NewCall.blamed = {}
  BY DEF NewCall
<1>4. Len(NewCall.state) = 0
  BY <1>3
<1>5. Good(NewCall, Supported, Usable)
  <2>1. Passed(NewCall, Usable) = {}
    BY <1>4 DEF Passed
  <2>2. Complete(NewCall, Supported) /\ Blamed(NewCall)
    BY <1>3 DEF Complete, Blamed
  <2>3. Located(NewCall, Usable)
    BY <1>3, <1>4 DEF Located
  <2>4. Tallied(NewCall, Usable) /\ Scored(NewCall)
    BY <2>1, <1>3, <1>4 DEF Tallied, Scored
  <2> QED
    BY <2>2, <2>3, <2>4 DEF Good
<1>6. call \in [Lookups -> Call] /\ \A l \in Lookups : Good(call[l], Supported, Usable)
  BY <1>2, <1>5
<1>7. TypeOK
  <2>1. \A l \in Lookups : call[l].i \in 1..Len(call[l].state) + 1
    BY <1>3, <1>4
  <2>2. once \in BOOLEAN /\ proxy \in BOOLEAN /\ res \subseteq Supported
    BY Zenon
  <2>3. closes \in 0..MaxCloses
    BY ResolverAssumption
  <2>4. call \in [Lookups -> Call]
    BY <1>6
  <2> HIDE DEF Init
  <2> QED
    BY <2>1, <2>2, <2>3, <2>4, <1>1 DEF TypeOK, Call
<1> QED
  BY <1>1, <1>6, <1>7 DEF IInv

\* readstatedefault, then maybeConfusion.
LEMMA ReadStateStep ==
  ASSUME IInv, NEW l \in Lookups, ReadState(l)
  PROVE  IInv'
<1>1. call \in [Lookups -> Call] /\ call[l] \in Call
  BY DEF IInv, TypeOK, Call
<1>2. PICK s \in MaybeConfusion(ReadStateDefault) :
        call' = [call EXCEPT ![l] = [@ EXCEPT !.state = s, !.pc = "loop"]]
  BY DEF ReadState
<1>3. PICK c \in Call : c = call[l]
  BY <1>1
<1>4. s \in Seq(ResolverInfo) /\ URLsOf(s) = Supported /\ Distinct(s)
  <2>1. /\ allmakers \in Seq(ResolverInfo) /\ store \in Seq(ResolverInfo)
        /\ Distinct(allmakers) /\ Distinct(store)
    BY ResolverAssumption DEF IInv, TypeOK
  <2>2. /\ ReadStateDefault \in Seq(ResolverInfo)
        /\ URLsOf(ReadStateDefault) = Supported /\ Distinct(ReadStateDefault)
    BY <2>1, ReadStateDefaultIsFair
  <2>3. PICK r \in Seq(ResolverInfo) : r = ReadStateDefault
    BY <2>2
  <2>4. s \in MaybeConfusion(r) /\ URLsOf(r) = Supported /\ Distinct(r)
    BY <2>2, <2>3
  <2> QED
    BY <2>4, MaybeConfusionIsFair
<1> DEFINE d == [c EXCEPT !.state = s, !.pc = "loop"]
<1>5. call' = [call EXCEPT ![l] = d]
  BY <1>1, <1>2, <1>3
<1>6. /\ d \in Call /\ d.state = s /\ d.pc = "loop" /\ d.i = c.i /\ d.ctxDone = c.ctxDone
      /\ d.result = c.result /\ d.failed = c.failed /\ d.blamed = c.blamed
  BY <1>4 DEF Call
<1> HIDE DEF d
<1>7. Good(d, Supported, Usable)
  <2>1. Good(c, Supported, Usable) /\ c.pc = "start"
    BY <1>3 DEF IInv, ReadState
  <2> QED
    BY <2>1, <1>4, <1>6, ReadIsGood
<1>8. /\ UNCHANGED <<config, once, closes>> /\ store' \in Seq(ResolverInfo)
      /\ Distinct(store') /\ res' \subseteq Supported
  BY DEF IInv, TypeOK, ReadState, cache
<1> QED
  BY <1>5, <1>6, <1>7, <1>8, OneCallSteps

\* An entry is skipped.
LEMMA SkipStep ==
  ASSUME IInv, NEW l \in Lookups, Skip(l)
  PROVE  IInv'
<1>1. call \in [Lookups -> Call] /\ call[l] \in Call
  BY DEF IInv, TypeOK, Call
<1>2. PICK c \in Call : c = call[l]
  BY <1>1
<1> DEFINE d == [c EXCEPT !.i = c.i + 1]
<1>3. call' = [call EXCEPT ![l] = d]
  BY <1>1, <1>2 DEF Skip
<1>4. /\ d \in Call /\ d.state = c.state /\ d.pc = c.pc /\ d.i = c.i + 1
      /\ d.ctxDone = c.ctxDone /\ d.result = c.result /\ d.failed = c.failed
      /\ d.blamed = c.blamed
  BY DEF Call
<1> HIDE DEF d
<1>5. Good(d, Supported, Usable)
  <2>1. Good(c, Supported, Usable) /\ c.pc = "loop" /\ c.i <= Len(c.state)
    BY <1>2 DEF IInv, Skip, Trying
  <2>2. c.state[c.i].url \notin Usable \/ c.ctxDone
    BY <1>2 DEF Skip, SkippedByProxy, SkippedByContext, Entry, Usable
  <2> QED
    BY <2>1, <2>2, <1>4, SkipIsGood
<1>6. /\ UNCHANGED <<config, once, closes>> /\ store' \in Seq(ResolverInfo)
      /\ Distinct(store') /\ res' \subseteq Supported
  BY DEF IInv, TypeOK, Skip, cache
<1> QED
  BY <1>3, <1>4, <1>5, <1>6, OneCallSteps

\* A lookup ends with an error, of a child that cannot be made or of a child that was
\* asked: the step keeps the invariant whatever the new score and whoever is blamed.
LEMMA ErrorStep ==
  ASSUME IInv, NEW l \in Lookups, NEW c \in Call, c = call[l],
         Good(c, Supported, Usable), c.i \in 1..Len(c.state), c.pc \in {"loop", "lookup"},
         c.state[c.i].url \in Usable, c.state[c.i].url \in URLs,
         NEW v \in 0..(Scale \div 10), NEW b \in SUBSET URLs, c.blamed = {},
         b \subseteq {c.state[c.i].url}, b # {} => c.ctxDone,
         call' = [call EXCEPT ![l] = WithError(l, v, b)],
         UNCHANGED <<config, once, closes>>, store' \in Seq(ResolverInfo), Distinct(store'),
         res' \subseteq Supported
  PROVE  IInv'
<1> DEFINE u == c.state[c.i].url
           t == [c.state EXCEPT ![c.i].score = v]
           d == WithError(l, v, b)
<1>1. c.state \in Seq(ResolverInfo) /\ c.failed \in SUBSET URLs
  BY DEF Call
<1>2. t \in Seq(ResolverInfo)
  <2>1. v \in 0..Scale
    BY Tenths
  <2> QED
    BY <2>1, <1>1, Rescore
<1>3. PICK f \in SUBSET URLs : f = c.failed \union {u}
  BY <1>1
<1>4. d = [c EXCEPT !.state = t, !.i = c.i + 1, !.pc = "loop", !.failed = f, !.blamed = b]
  <2>1. Rescored(l, v) = t /\ Entry(l).url = u
    BY DEF Rescored, Entry
  <2>2. d = [c EXCEPT !.state = Rescored(l, v), !.i = c.i + 1, !.pc = "loop",
                      !.failed = c.failed \union {Entry(l).url}, !.blamed = c.blamed \union b]
    BY DEF WithError
  <2>3. c.blamed \union b = b /\ c.failed \union {Entry(l).url} = f
    BY <2>1, <1>3
  <2> HIDE DEF t, d, u
  <2> QED
    BY <2>1, <2>2, <2>3
<1>5. /\ d \in Call /\ d.state = t /\ d.pc = "loop" /\ d.i = c.i + 1
      /\ d.ctxDone = c.ctxDone /\ d.result = c.result /\ d.failed = f /\ d.blamed = b
  <2> HIDE DEF t, d, u
  <2>1. /\ c = [pc |-> c.pc, state |-> c.state, i |-> c.i, ctxDone |-> c.ctxDone,
                result |-> c.result, failed |-> c.failed, blamed |-> c.blamed]
        /\ c.i \in Nat /\ c.ctxDone \in BOOLEAN /\ c.result \in {"none", "addrs", "error"}
    BY DEF Call
  <2>2. d = [pc |-> "loop", state |-> t, i |-> c.i + 1, ctxDone |-> c.ctxDone,
             result |-> c.result, failed |-> f, blamed |-> b]
    BY <2>1, <1>4
  <2> QED
    BY <2>1, <2>2, <1>2 DEF Call
<1> HIDE DEF d
<1>6. Blamed(d)
  BY <1>3, <1>5 DEF Blamed
<1>7. Good(d, Supported, Usable)
  BY <1>3, <1>5, <1>6, FailureIsGood
<1>8. call' = [call EXCEPT ![l] = d]
  BY DEF d
<1> QED
  BY <1>5, <1>7, <1>8, OneCallSteps

\* A child resolver is found or made, or cannot be made.
LEMMA GetResolverStep ==
  ASSUME IInv, NEW l \in Lookups, GetResolver(l)
  PROVE  IInv'
<1>1. call \in [Lookups -> Call] /\ call[l] \in Call
  BY DEF IInv, TypeOK, Call
<1>2. PICK c \in Call : c = call[l]
  BY <1>1
<1> DEFINE u == c.state[c.i].url
<1>3. /\ Good(c, Supported, Usable) /\ c.pc = "loop" /\ c.i <= Len(c.state) /\ ~c.ctxDone
      /\ u = Entry(l).url
  BY <1>2 DEF IInv, GetResolver, Trying, SkippedByContext, Entry
<1>4. /\ c.state \in Seq(ResolverInfo) /\ c.i \in 1..Len(c.state) /\ c.result = "none"
      /\ c.state[c.i] \in ResolverInfo
  <2>1. c.state \in Seq(ResolverInfo) /\ c.i \in 1..Len(c.state) + 1 /\ c.result = "none"
    BY <1>3 DEF Call, Good, Located
  <2> QED
    BY <2>1, <1>3
<1>5. u \in URLs /\ u \in Supported
  BY <1>3, <1>4 DEF ResolverInfo, Good, Complete, URLsOf
<1>6. u \in Usable
  BY <1>3, <1>5 DEF GetResolver, SkippedByProxy, Usable
<1>7. /\ UNCHANGED <<config, once, closes>> /\ store' \in Seq(ResolverInfo)
      /\ Distinct(store')
  BY DEF IInv, TypeOK, GetResolver
<1>8. CASE u \in res \/ u \notin Broken
  <2> DEFINE d == [c EXCEPT !.pc = "lookup"]
  <2>1. call' = [call EXCEPT ![l] = d]
    BY <1>1, <1>2, <1>3, <1>8 DEF GetResolver
  <2>2. /\ d \in Call /\ d.state = c.state /\ d.pc = "lookup" /\ d.i = c.i
        /\ d.ctxDone = c.ctxDone /\ d.result = c.result /\ d.failed = c.failed
        /\ d.blamed = c.blamed
    BY DEF Call
  <2> HIDE DEF d
  <2>3. Good(d, Supported, Usable)
    BY <2>2, <1>3, <1>6, MoveIsGood
  <2>4. res' \subseteq Supported
    BY <1>3, <1>5, <1>8 DEF GetResolver, IInv, TypeOK
  <2> QED
    BY <2>1, <2>2, <2>3, <2>4, <1>7, OneCallSteps
<1>9. CASE ~(u \in res \/ u \notin Broken)
  <2>1. call' = [call EXCEPT ![l] = WithError(l, 0, {})] /\ UNCHANGED res
    BY <1>3, <1>9 DEF GetResolver
  <2>2. 0 \in 0..(Scale \div 10) /\ {} \in SUBSET URLs /\ {} \subseteq {c.state[c.i].url}
    BY Tenths
  <2>3. c.blamed = {}
    BY <1>3 DEF Good, Blamed
  <2>4. res' \subseteq Supported
    BY <2>1 DEF IInv, TypeOK
  <2> QED
    BY <2>1, <2>2, <2>3, <2>4, <1>2, <1>3, <1>4, <1>5, <1>6, <1>7, ErrorStep
<1> QED
  BY <1>8, <1>9

\* The entry at hand during a lookup.
LEMMA LookupEntry ==
  ASSUME NEW c \in Call, NEW S, NEW U, Good(c, S, U), c.pc = "lookup"
  PROVE  /\ c.state \in Seq(ResolverInfo) /\ c.i \in 1..Len(c.state)
         /\ c.state[c.i].url \in U /\ c.state[c.i].url \in URLs
         /\ c.state[c.i].score \in 0..Scale /\ c.result = "none" /\ c.blamed = {}
<1>1. /\ c.state \in Seq(ResolverInfo) /\ Len(c.state) \in Nat /\ c.i \in 1..Len(c.state) + 1
      /\ c.i <= Len(c.state) /\ c.state[c.i].url \in U /\ c.result = "none"
  BY DEF Call, Good, Located
<1>2. c.i \in 1..Len(c.state) /\ c.state[c.i] \in ResolverInfo
  BY <1>1
<1>3. c.blamed = {}
  BY DEF Good, Blamed
<1> QED
  BY <1>1, <1>2, <1>3 DEF ResolverInfo

\* A lookup gives addresses.
LEMMA LookupSucceedsStep ==
  ASSUME IInv, NEW l \in Lookups, LookupSucceeds(l)
  PROVE  IInv'
<1>1. call \in [Lookups -> Call] /\ call[l] \in Call
  BY DEF IInv, TypeOK, Call
<1>2. PICK c \in Call : c = call[l]
  BY <1>1
<1>3. Good(c, Supported, Usable) /\ c.pc = "lookup"
  BY <1>2 DEF IInv, LookupSucceeds
<1>4. /\ c.state \in Seq(ResolverInfo) /\ c.i \in 1..Len(c.state)
      /\ c.state[c.i].score \in 0..Scale
  BY <1>3, LookupEntry
<1>5. PICK v \in (9 * (Scale \div 10))..Scale : v = Increase(c.state[c.i].score)
  BY <1>4, Tenths
<1> DEFINE t == [c.state EXCEPT ![c.i].score = v]
           d == [c EXCEPT !.state = t, !.pc = "return", !.result = "addrs"]
<1>6. call' = [call EXCEPT ![l] = d]
  <2>1. Rescored(l, Increase(Entry(l).score)) = t
    BY <1>2, <1>5 DEF Rescored, Entry
  <2> HIDE DEF t
  <2> QED
    BY <2>1, <1>1, <1>2 DEF LookupSucceeds
<1>7. t \in Seq(ResolverInfo)
  <2>1. v \in 0..Scale
    BY Tenths
  <2> QED
    BY <2>1, <1>4, Rescore
<1> HIDE DEF t
<1>8. /\ d \in Call /\ d.state = t /\ d.pc = "return" /\ d.i = c.i /\ d.ctxDone = c.ctxDone
      /\ d.result = "addrs" /\ d.failed = c.failed /\ d.blamed = c.blamed
  BY <1>7 DEF Call
<1> HIDE DEF d
<1>9. Good(d, Supported, Usable)
  BY <1>3, <1>8, SuccessIsGood DEF t
<1>10. /\ UNCHANGED <<config, once, closes>> /\ store' \in Seq(ResolverInfo)
       /\ Distinct(store') /\ res' \subseteq Supported
  BY DEF IInv, TypeOK, LookupSucceeds, cache
<1> QED
  BY <1>6, <1>8, <1>9, <1>10, OneCallSteps

\* A lookup fails, and the context may be what made it fail.
LEMMA LookupFailsStep ==
  ASSUME IInv, NEW l \in Lookups, LookupFails(l)
  PROVE  IInv'
<1>1. call \in [Lookups -> Call] /\ call[l] \in Call
  BY DEF IInv, TypeOK, Call
<1>2. PICK c \in Call : c = call[l]
  BY <1>1
<1>3. Good(c, Supported, Usable) /\ c.pc = "lookup"
  BY <1>2 DEF IInv, LookupFails
<1> DEFINE u == c.state[c.i].url
<1>4. /\ c.state \in Seq(ResolverInfo) /\ c.i \in 1..Len(c.state) /\ u \in Usable /\ u \in URLs
      /\ c.state[c.i].score \in 0..Scale /\ c.blamed = {}
  BY <1>3, LookupEntry
<1>5. PICK v \in 0..(Scale \div 10) : v = Decrease(c.state[c.i].score)
  BY <1>4, Tenths
<1>6. PICK b \in {{}} \union (IF c.ctxDone THEN {{u}} ELSE {}) :
        call' = [call EXCEPT ![l] = WithError(l, v, b)]
  <2>1. v = Decrease(Entry(l).score) /\ u = Entry(l).url
    BY <1>2, <1>5 DEF Entry
  <2> QED
    BY <2>1, <1>2 DEF LookupFails
<1>7. b \in SUBSET URLs /\ b \subseteq {u} /\ (b # {} => c.ctxDone)
  BY <1>4
<1>8. /\ UNCHANGED <<config, once, closes>> /\ store' \in Seq(ResolverInfo)
      /\ Distinct(store') /\ res' \subseteq Supported
  BY DEF IInv, TypeOK, LookupFails, cache
<1> QED
  BY <1>2, <1>3, <1>4, <1>6, <1>7, <1>8, ErrorStep

\* The loop ends without addresses.
LEMMA GiveUpStep ==
  ASSUME IInv, NEW l \in Lookups, GiveUp(l)
  PROVE  IInv'
<1>1. call \in [Lookups -> Call] /\ call[l] \in Call
  BY DEF IInv, TypeOK, Call
<1>2. PICK c \in Call : c = call[l]
  BY <1>1
<1> DEFINE d == [c EXCEPT !.pc = "return", !.result = "error"]
<1>3. call' = [call EXCEPT ![l] = d]
  BY <1>1, <1>2 DEF GiveUp
<1>4. /\ d \in Call /\ d.state = c.state /\ d.i = c.i /\ d.failed = c.failed
      /\ d.blamed = c.blamed
      /\ d.pc = "return" /\ d.ctxDone = c.ctxDone /\ d.result = "error"
  BY DEF Call
<1> HIDE DEF d
<1>5. Good(d, Supported, Usable)
  <2>1. Good(c, Supported, Usable) /\ c.pc = "loop" /\ c.i > Len(c.state)
    BY <1>2 DEF IInv, GiveUp, Exhausted
  <2> QED
    BY <2>1, <1>4, MoveIsGood
<1>6. /\ UNCHANGED <<config, once, closes>> /\ store' \in Seq(ResolverInfo)
      /\ Distinct(store') /\ res' \subseteq Supported
  BY DEF IInv, TypeOK, GiveUp, cache
<1> QED
  BY <1>3, <1>4, <1>5, <1>6, OneCallSteps

\* The context of a call is done.
LEMMA CancelContextStep ==
  ASSUME IInv, NEW l \in Lookups, CancelContext(l)
  PROVE  IInv'
<1>1. call \in [Lookups -> Call] /\ call[l] \in Call
  BY DEF IInv, TypeOK, Call
<1>2. PICK c \in Call : c = call[l]
  BY <1>1
<1> DEFINE d == [c EXCEPT !.ctxDone = TRUE]
<1>3. call' = [call EXCEPT ![l] = d]
  BY <1>1, <1>2 DEF CancelContext
<1>4. /\ d \in Call /\ d.state = c.state /\ d.i = c.i /\ d.failed = c.failed
      /\ d.blamed = c.blamed
      /\ d.pc = c.pc /\ d.ctxDone = TRUE /\ d.result = c.result
  BY DEF Call
<1> HIDE DEF d
<1>5. Good(d, Supported, Usable)
  <2>1. Good(c, Supported, Usable)
    BY <1>2 DEF IInv, CancelContext
  <2> QED
    BY <2>1, <1>4, MoveIsGood
<1>6. /\ UNCHANGED <<config, once, closes>> /\ store' \in Seq(ResolverInfo)
      /\ Distinct(store') /\ res' \subseteq Supported
  BY DEF IInv, TypeOK, CancelContext, cache
<1> QED
  BY <1>3, <1>4, <1>5, <1>6, OneCallSteps

\* A call writes its list over what others may have written, and returns.
LEMMA WriteStateStep ==
  ASSUME IInv, NEW l \in Lookups, WriteState(l)
  PROVE  IInv'
<1>1. call \in [Lookups -> Call] /\ call[l] \in Call
  BY DEF IInv, TypeOK, Call
<1>2. PICK c \in Call : c = call[l]
  BY <1>1
<1> DEFINE d == [c EXCEPT !.pc = "returned"]
<1>3. call' = [call EXCEPT ![l] = d]
  BY <1>1, <1>2 DEF WriteState
<1>4. /\ d \in Call /\ d.state = c.state /\ d.i = c.i /\ d.failed = c.failed
      /\ d.blamed = c.blamed
      /\ d.pc = "returned" /\ d.ctxDone = c.ctxDone /\ d.result = c.result
  BY DEF Call
<1> HIDE DEF d
<1>5. Good(d, Supported, Usable)
  <2>1. Good(c, Supported, Usable) /\ c.pc = "return"
    BY <1>2 DEF IInv, WriteState
  <2> QED
    BY <2>1, <1>4, MoveIsGood
<1>6. UNCHANGED <<config, once, closes>> /\ res' \subseteq Supported
  BY DEF IInv, TypeOK, WriteState, cache
<1>7. store' \in Seq(ResolverInfo) /\ Distinct(store')
  <2>1. store \in Seq(ResolverInfo) /\ Distinct(store)
    BY DEF IInv, TypeOK
  <2>2. c.state \in Seq(ResolverInfo) /\ Distinct(c.state)
    BY <1>2 DEF IInv, WriteState, Good, Complete, Call
  <2>3. store' = store \/ store' = c.state
    BY <1>2 DEF WriteState
  <2> QED
    BY <2>1, <2>2, <2>3
<1> QED
  BY <1>3, <1>4, <1>5, <1>6, <1>7, OneCallSteps

\* The cached child resolvers are closed.
LEMMA CloseIdleConnectionsStep ==
  ASSUME IInv, CloseIdleConnections
  PROVE  IInv'
<1>1. /\ allmakers' = allmakers /\ proxy' = proxy /\ store' = store /\ call' = call
      /\ closes' = closes + 1 /\ closes < MaxCloses /\ once' = TRUE
  BY DEF CloseIdleConnections, config
<1>2. Supported' = Supported /\ Usable' = Usable
  BY <1>1 DEF Supported, Usable
<1>3. res' \subseteq Supported
  BY DEF IInv, TypeOK, CloseIdleConnections
<1>4. closes' \in 0..MaxCloses
  BY <1>1, ResolverAssumption DEF IInv, TypeOK
<1>5. once' \in BOOLEAN
  BY <1>1
<1>6. TypeOK'
  BY <1>1, <1>2, <1>3, <1>4, <1>5 DEF IInv, TypeOK
<1>7. Distinct(store')
  BY <1>1 DEF IInv
<1>8. \A l \in Lookups : Good(call'[l], Supported', Usable')
  BY <1>1, <1>2 DEF IInv
<1> QED
  BY <1>6, <1>7, <1>8 DEF IInv

\* A step that changes nothing.
LEMMA StutterStep ==
  ASSUME IInv, UNCHANGED vars
  PROVE  IInv'
<1>1. /\ allmakers' = allmakers /\ proxy' = proxy /\ store' = store /\ call' = call
      /\ res' = res /\ once' = once /\ closes' = closes
  BY DEF vars
<1>2. Supported' = Supported /\ Usable' = Usable
  BY <1>1 DEF Supported, Usable
<1>3. TypeOK'
  BY <1>1, <1>2 DEF IInv, TypeOK
<1>4. Distinct(store')
  BY <1>1 DEF IInv
<1>5. \A l \in Lookups : Good(call'[l], Supported', Usable')
  BY <1>1, <1>2 DEF IInv
<1> QED
  BY <1>3, <1>4, <1>5 DEF IInv

\* The invariant of the resolver: what each call knows of its own list and of the
\* lookups it has made, whatever the other calls write to the file meanwhile.
THEOREM Inductive == Spec => []IInv
<1>1. IInv /\ [Next]_vars => IInv'
  <2> SUFFICES ASSUME IInv, [Next]_vars PROVE IInv'
    OBVIOUS
  <2>1. ASSUME NEW l \in Lookups, ReadState(l) \/ LookupHost(l) \/ CancelContext(l)
        PROVE  IInv'
    BY <2>1, ReadStateStep, SkipStep, GetResolverStep, LookupSucceedsStep, LookupFailsStep,
       GiveUpStep, WriteStateStep, CancelContextStep DEF LookupHost
  <2> QED
    BY <2>1, CloseIdleConnectionsStep, StutterStep DEF Next
<1> QED
  BY <1>1, InitIInv, PTL DEF Spec

----------------------------------------------------------------------------
(* The properties.                                                         *)

\* The state of the resolver has its type.
THEOREM TypeCorrect == Spec => []TypeOK
<1>1. IInv => TypeOK
  BY DEF IInv
<1> QED
  BY <1>1, Inductive, PTL

\* Whatever is in the file, and whatever the calls overwrite, a call of LookupHost
\* works on every supported resolver, once.
THEOREM EachResolverOnceAlways == Spec => []EachResolverOnce
<1>1. IInv => EachResolverOnce
  BY DEF IInv, Good, Complete, EachResolverOnce
<1> QED
  BY <1>1, Inductive, PTL

\* An error of LookupHost means that every resolver it may use has failed, unless the
\* context is done.
THEOREM ErrorMeansAllFailedAlways == Spec => []ErrorMeansAllFailed
<1>1. IInv => ErrorMeansAllFailed
  <2> SUFFICES ASSUME IInv, NEW l \in Lookups, call[l].result = "error", ~call[l].ctxDone
               PROVE  call[l].failed = Usable
    BY DEF ErrorMeansAllFailed, Usable
  <2>1. PICK c \in Call : c = call[l]
    BY DEF IInv, TypeOK, Call
  <2>2. c.failed = Passed(c, Usable) /\ c.i = Len(c.state) + 1 /\ c.pc # "start"
    BY <2>1 DEF IInv, Good, Tallied, Located
  <2>3. URLsOf(c.state) = Supported
    BY <2>1, <2>2 DEF IInv, Good, Complete
  <2>4. c.state \in Seq(ResolverInfo) /\ Len(c.state) \in Nat
    BY DEF Call
  <2>5. \A j \in 1..Len(c.state) : j < c.i
    BY <2>2, <2>4
  <2>6. Usable \subseteq Passed(c, Usable)
    <3>1. DOMAIN c.state = 1..Len(c.state)
      BY <2>4
    <3>2. \A u \in Usable : \E j \in 1..Len(c.state) : c.state[j].url = u
      BY <2>3, <3>1 DEF Usable, URLsOf
    <3> QED
      BY <3>2, <2>5 DEF Passed
  <2>7. Passed(c, Usable) \subseteq Usable
    BY DEF Passed
  <2> QED
    BY <2>1, <2>2, <2>6, <2>7
<1> QED
  BY <1>1, Inductive, PTL

\* A context that is done lowers the score of at most one resolver, as the comment on
\* the "hotfix" of LookupHost wants.
THEOREM CancelBlamesAtMostOneAlways == Spec => []CancelBlamesAtMostOne
<1>1. IInv => CancelBlamesAtMostOne
  BY DEF IInv, Good, Blamed, CancelBlamesAtMostOne
<1> QED
  BY <1>1, Inductive, PTL

\* The resolver that answered ends above all those that failed before it.
THEOREM WinnerOutranksLosersAlways == Spec => []WinnerOutranksLosers
<1>1. IInv => WinnerOutranksLosers
  <2> SUFFICES ASSUME IInv, NEW l \in Lookups, call[l].result = "addrs",
                      NEW i \in DOMAIN call[l].state,
                      call[l].state[i].url \in call[l].failed
               PROVE  Entry(l).score > call[l].state[i].score
    BY DEF WinnerOutranksLosers
  <2>1. PICK c \in Call : c = call[l]
    BY DEF IInv, TypeOK, Call
  <2>2. Good(c, Supported, Usable) /\ c.result = "addrs" /\ c.state[i].url \in c.failed
    BY <2>1 DEF IInv
  <2>3. /\ c.state \in Seq(ResolverInfo) /\ i \in 1..Len(c.state) /\ Len(c.state) \in Nat
        /\ DOMAIN c.state = 1..Len(c.state)
    BY <2>1 DEF Call
  <2>4. c.i \in 1..Len(c.state) /\ c.pc # "start"
    BY <2>2, <2>3 DEF Good, Located
  <2>5. PICK j \in 1..Len(c.state) : j < c.i /\ c.state[j].url = c.state[i].url
    BY <2>2 DEF Good, Tallied, Passed
  <2>6. i = j
    BY <2>2, <2>3, <2>4, <2>5 DEF Good, Complete, Distinct
  <2>7. c.state[i].score <= Scale \div 10 /\ c.state[c.i].score >= 9 * (Scale \div 10)
    BY <2>2, <2>5, <2>6 DEF Good, Scored
  <2>8. c.state[i].score \in Nat /\ c.state[c.i].score \in Nat
    <3>1. c.state[i] \in ResolverInfo /\ c.state[c.i] \in ResolverInfo
      BY <2>3, <2>4
    <3> QED
      BY <3>1, ResolverAssumption DEF ResolverInfo
  <2>9. c.state[c.i].score > c.state[i].score
    BY <2>7, <2>8, Tenths
  <2> QED
    BY <2>1, <2>9 DEF Entry
<1> QED
  BY <1>1, Inductive, PTL
=============================================================================
