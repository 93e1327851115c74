------------------------- MODULE Overlapped_proofs -------------------------
(***************************************************************************)
(* Proofs about Overlapped for any number of endpoints and any interval,   *)
(* watchdog timeout and bound on time.                                     *)
(***************************************************************************)
EXTENDS Overlapped, FiniteSetTheorems, TLAPS

Done == {e \in Endpoints : pc[e] = "done"}

\* The goroutines started so far are those of the endpoints up to idx, and each
\* has an outcome once its RunFunc has returned.
Goroutines ==
  /\ \A e \in Endpoints : pc[e] = "new" <=> e > idx
  /\ \A e \in Endpoints : outcome[e] = "none" <=> pc[e] \in {"new", "spawned", "running"}

\* The results are those of the goroutines that are done, each once.
Ledger ==
  /\ \A i \in DOMAIN results : pc[results[i]] = "done"
  /\ \A e \in Endpoints : pc[e] = "done" => \E i \in DOMAIN results : results[i] = e
  /\ \A i, j \in DOMAIN results : results[i] = results[j] => i = j
  /\ Len(results) = Cardinality(Done)

Buffered == IF tick THEN 1 ELSE 0
Elapsed == now \div ScheduleInterval
Allowance == IF main = "loop" THEN 0 ELSE 1

\* At the top of the loop there is room for the call that it is about to start; a
\* tick in the channel counts as a call.
Pace == Cardinality(InFlight) + Buffered <= Allowance + Elapsed

\* A collected success has cancelled the context, and there is a first one.
SuccessSeen == Succeeded => ctxDone /\ FirstSuccess # {}

Finished == main = "returned" => AllCollected /\ FirstSuccessWins

IInv == TypeOK /\ Goroutines /\ Ledger /\ Pace /\ SuccessSeen /\ Finished

----------------------------------------------------------------------------
(* Facts about finite sets and about time.                                 *)

\* The sets of endpoints that the counters are about are finite.
LEMMA Finite ==
  /\ IsFiniteSet(Endpoints) /\ Cardinality(Endpoints) = NumEndpoints
  /\ IsFiniteSet(Done) /\ Cardinality(Done) \in Nat
  /\ IsFiniteSet(InFlight) /\ Cardinality(InFlight) \in Nat
<1>1. IsFiniteSet(Endpoints) /\ Cardinality(Endpoints) = NumEndpoints
  BY NumEndpointsAssumption, FS_Interval DEF Endpoints
<1>2. Done \in SUBSET Endpoints /\ InFlight \in SUBSET Endpoints
  BY DEF Done, InFlight
<1> QED
  BY <1>1, <1>2, FS_Subset, FS_CardinalityType

\* The number of whole intervals never decreases with time, and increases when
\* the ticker ticks.
LEMMA Intervals ==
  ASSUME NEW n \in Nat
  PROVE  /\ n \div ScheduleInterval \in Nat
         /\ (n + 1) \div ScheduleInterval \in Nat
         /\ n \div ScheduleInterval <= (n + 1) \div ScheduleInterval
         /\ (n + 1) % ScheduleInterval = 0 =>
              (n + 1) \div ScheduleInterval >= n \div ScheduleInterval + 1
<1> DEFINE I == ScheduleInterval
           q == n \div I
           p == (n + 1) \div I
<1>1. I \in Nat /\ I > 0
  BY IntervalAssumption
<1>2. /\ q \in Int /\ n % I \in 0..I - 1 /\ n = I * q + (n % I)
      /\ p \in Int /\ (n + 1) % I \in 0..I - 1 /\ n + 1 = I * p + ((n + 1) % I)
  BY <1>1
<1> HIDE DEF I, q, p
<1>3. ASSUME NEW a \in Int, NEW b \in Int, a <= b
      PROVE  I * a <= I * b
  BY <1>1, <1>3
<1>4. q >= 0 /\ p >= 0
  <2>1. ASSUME NEW a \in Int, a < 0 PROVE I * a <= I * (-1)
    BY <1>3, <2>1
  <2> QED
    BY <1>1, <1>2, <2>1
<1>5. q <= p
  <2>1. CASE p <= q - 1
    <3>1. I * p <= I * (q - 1)
      BY <1>2, <1>3, <2>1
    <3>2. I * (q - 1) = I * q - I
      BY <1>1, <1>2
    <3> QED
      BY <1>1, <1>2, <3>1, <3>2
  <2> QED
    BY <1>2, <2>1
<1>6. ASSUME (n + 1) % I = 0 PROVE p >= q + 1
  <2>1. CASE p <= q
    <3>1. I * p <= I * q
      BY <1>2, <1>3, <2>1
    <3> QED
      BY <1>1, <1>2, <1>6, <3>1
  <2> QED
    BY <1>2, <2>1
<1> QED
  BY <1>2, <1>4, <1>5, <1>6 DEF I, q, p

\* In particular, the intervals that have elapsed are a natural number.
LEMMA ElapsedType ==
  ASSUME TypeOK
  PROVE  Elapsed \in Nat /\ (now' = now => Elapsed' = Elapsed)
  BY Intervals DEF TypeOK, Elapsed

----------------------------------------------------------------------------
(* The loop of Map.                                                        *)

\* The loop starts the goroutine of the next endpoint.
LEMMA SpawnStep ==
  ASSUME IInv, Spawn
  PROVE  IInv'
<1> DEFINE e == idx + 1
<1> USE NumEndpointsAssumption DEF Spawn, MoreEndpoints, Endpoints
<1>1. /\ main = "loop" /\ main' = "select" /\ idx' = e /\ e \in Endpoints
      /\ pc[e] = "new" /\ pc'[e] = "spawned" /\ \A f \in Endpoints : f # e => pc'[f] = pc[f]
      /\ results' = results /\ outcome' = outcome /\ now' = now /\ tick' = tick
      /\ ctxDone' = ctxDone
  BY DEF IInv, TypeOK, Goroutines
<1>2. TypeOK'
  BY <1>1 DEF IInv, TypeOK
<1>3. Goroutines'
  BY <1>1 DEF IInv, TypeOK, Goroutines
<1>4. Ledger'
  <2>1. Done' = Done
    BY <1>1 DEF Done
  <2> QED
    BY <1>1, <2>1 DEF IInv, TypeOK, Ledger
<1>5. Pace'
  <2>1. InFlight' = InFlight \union {e} /\ e \notin InFlight
    BY <1>1 DEF InFlight
  <2>2. Cardinality(InFlight') = Cardinality(InFlight) + 1
    BY <2>1, Finite, FS_AddElement
  <2> QED
    BY <1>1, <2>2, Finite, ElapsedType DEF IInv, Pace, Buffered, Allowance
<1>6. SuccessSeen' /\ Finished'
  BY <1>1 DEF IInv, SuccessSeen, Succeeded, FirstSuccess, Finished
<1> QED
  BY <1>2, <1>3, <1>4, <1>5, <1>6 DEF IInv

\* The loop stops the ticker, or receives a tick.
LEMMA TickerStep ==
  ASSUME IInv, StopTicker \/ Ticked
  PROVE  IInv'
<1> USE DEF StopTicker, Ticked
<1>1. /\ pc' = pc /\ idx' = idx /\ results' = results /\ outcome' = outcome /\ now' = now
      /\ ctxDone' = ctxDone /\ Done' = Done /\ InFlight' = InFlight /\ main' # "returned"
  BY DEF Done, InFlight
<1>2. TypeOK'
  BY DEF IInv, TypeOK
<1>3. Goroutines' /\ Ledger'
  BY <1>1 DEF IInv, Goroutines, Ledger
<1>4. Pace'
  BY <1>1, Finite, ElapsedType DEF IInv, Pace, Buffered, Allowance
<1>5. SuccessSeen' /\ Finished'
  BY <1>1 DEF IInv, SuccessSeen, Succeeded, FirstSuccess, Finished
<1> QED
  BY <1>2, <1>3, <1>4, <1>5 DEF IInv

\* The loop receives a result.
LEMMA CollectStep ==
  ASSUME IInv, NEW e \in Endpoints, Collect(e)
  PROVE  IInv'
<1> USE DEF Collect, CancelsOn
<1>1. /\ main = "select" /\ main' = "loop" /\ pc[e] = "sending" /\ pc'[e] = "done"
      /\ \A f \in Endpoints : f # e => pc'[f] = pc[f]
      /\ idx' = idx /\ outcome' = outcome /\ now' = now /\ tick' = tick
  BY DEF IInv, TypeOK
<1>2. /\ results \in Seq(Endpoints) /\ results' = Append(results, e)
      /\ Len(results') = Len(results) + 1 /\ results'[Len(results) + 1] = e
      /\ DOMAIN results' = DOMAIN results \union {Len(results) + 1}
      /\ Len(results) + 1 \notin DOMAIN results
      /\ \A i \in DOMAIN results : results'[i] = results[i] /\ results[i] \in Endpoints
  BY DEF IInv, TypeOK
<1>3. TypeOK'
  <2>1. results' \in Seq(Endpoints)
    BY <1>2
  <2>2. pc' \in [Endpoints -> {"new", "spawned", "running", "sending", "done"}]
    BY DEF IInv, TypeOK
  <2>3. ticking' \in BOOLEAN /\ ctxDone' \in BOOLEAN
    BY DEF IInv, TypeOK
  <2> QED
    BY <2>1, <2>2, <2>3 DEF IInv, TypeOK
<1>4. Goroutines'
  BY <1>1 DEF IInv, Goroutines
<1>5. Ledger'
  <2>1. Done' = Done \union {e} /\ e \notin Done
    BY <1>1 DEF Done
  <2>2. Cardinality(Done') = Cardinality(Done) + 1
    BY <2>1, Finite, FS_AddElement
  <2>3. \A i \in DOMAIN results : results[i] # e
    BY <1>1 DEF IInv, Ledger
  <2>4. Len(results') = Cardinality(Done')
    BY <1>2, <2>2 DEF IInv, Ledger
  <2>5. \A i \in DOMAIN results' : pc'[results'[i]] = "done"
    BY <1>1, <1>2, <2>3 DEF IInv, Ledger
  <2>6. \A f \in Endpoints : pc'[f] = "done" => \E i \in DOMAIN results' : results'[i] = f
    BY <1>1, <1>2 DEF IInv, Ledger
  <2>7. \A i, j \in DOMAIN results' : results'[i] = results'[j] => i = j
    BY <1>2, <2>3 DEF IInv, Ledger
  <2> QED
    BY <2>4, <2>5, <2>6, <2>7 DEF Ledger
<1>6. Pace'
  <2>1. InFlight' = InFlight \ {e} /\ e \in InFlight
    BY <1>1 DEF InFlight
  <2>2. Cardinality(InFlight') = Cardinality(InFlight) - 1
    BY <2>1, Finite, FS_RemoveElement
  <2> QED
    BY <1>1, <2>2, Finite, ElapsedType DEF IInv, Pace, Buffered, Allowance
<1>7. SuccessSeen'
  <2>1. ASSUME Succeeded PROVE ctxDone' /\ FirstSuccess' # {}
    <3>1. PICK i \in DOMAIN results :
            /\ outcome[results[i]] = "success"
            /\ \A k \in 1..i - 1 : outcome[results[k]] # "success"
      BY <2>1 DEF IInv, SuccessSeen, FirstSuccess
    <3>2. i \in DOMAIN results' /\ \A k \in 1..i - 1 : results'[k] = results[k]
      BY <1>2, <3>1
    <3>3. results'[i] \in FirstSuccess'
      BY <1>1, <1>2, <3>1, <3>2 DEF FirstSuccess
    <3> QED
      BY <2>1, <3>3 DEF IInv, SuccessSeen
  <2>2. ASSUME ~Succeeded, outcome[e] = "success" PROVE ctxDone' /\ FirstSuccess' # {}
    <3> DEFINE n == Len(results) + 1
    <3>1. \A k \in 1..n - 1 : k \in DOMAIN results
      BY <1>2
    <3>2. \A k \in 1..n - 1 : outcome'[results'[k]] # "success"
      BY <1>1, <1>2, <2>2, <3>1 DEF Succeeded
    <3>3. n \in DOMAIN results' /\ outcome'[results'[n]] = "success"
      BY <1>1, <1>2, <2>2
    <3>4. results'[n] \in FirstSuccess'
      BY <3>2, <3>3 DEF FirstSuccess
    <3> QED
      BY <2>2, <3>4
  <2>3. Succeeded' => Succeeded \/ outcome[e] = "success"
    BY <1>1, <1>2 DEF Succeeded
  <2> QED
    BY <2>1, <2>2, <2>3 DEF SuccessSeen
<1>8. Finished'
  BY <1>1 DEF Finished
<1> QED
  BY <1>3, <1>4, <1>5, <1>6, <1>7, <1>8 DEF IInv

\* Map returns its results and OverlappedReduce picks one.
LEMMA ReturnStep ==
  ASSUME IInv, Return
  PROVE  IInv'
<1> USE DEF Return
<1>1. /\ main = "loop" /\ main' = "returned" /\ pc' = pc /\ idx' = idx
      /\ results' = results /\ outcome' = outcome /\ now' = now /\ tick' = tick
      /\ Done' = Done /\ InFlight' = InFlight
  BY DEF Done, InFlight
<1>2. results \in Seq(Endpoints) /\ \A i \in DOMAIN results : results[i] \in Endpoints
  BY DEF IInv, TypeOK
<1>3. FirstSuccess \subseteq Endpoints
  BY <1>2 DEF FirstSuccess
<1>4. TypeOK'
  <2>1. index' \in 0..NumEndpoints /\ err' \in {"nil", "generic_failure", "joined_errors"}
    <3>1. CASE FirstSuccess # {}
      <4>1. index' \in Endpoints /\ err' = "nil"
        BY <1>3, <3>1
      <4> QED
        BY <4>1, NumEndpointsAssumption DEF Endpoints
    <3>2. CASE FirstSuccess = {}
      BY <3>2, NumEndpointsAssumption
    <3> QED
      BY <3>1, <3>2
  <2> QED
    BY <2>1 DEF IInv, TypeOK
<1>5. Goroutines' /\ Ledger'
  BY <1>1 DEF IInv, Goroutines, Ledger
<1>6. Pace'
  BY <1>1, Finite, ElapsedType DEF IInv, Pace, Buffered, Allowance
<1>7. SuccessSeen'
  BY <1>1 DEF IInv, SuccessSeen, Succeeded, FirstSuccess
<1>8. Done = Endpoints
  <2>1. Done \in SUBSET Endpoints
    BY DEF Done
  <2>2. Cardinality(Done) <= Cardinality(Endpoints)
    BY <2>1, Finite, FS_Subset
  <2>3. Cardinality(Done) = Cardinality(Endpoints)
    BY <2>2, Finite, NumEndpointsAssumption DEF IInv, Ledger, WantsResults
  <2> QED
    BY <2>1, <2>3, Finite, FS_Subset
<1>9. \A f \in Endpoints : pc[f] = "done" /\ \E i \in DOMAIN results : results[i] = f
  BY <1>8 DEF IInv, Ledger, Done
<1>10. AllCollected'
  BY <1>1, <1>9 DEF IInv, Ledger, AllCollected
<1>11. (results = <<>>) <=> (NumEndpoints = 0)
  BY <1>2, <1>8, Finite, NumEndpointsAssumption DEF IInv, Ledger
<1>12. (FirstSuccess # {}) <=> (\E f \in Endpoints : outcome[f] = "success")
  <2>1. ASSUME NEW f \in Endpoints, outcome[f] = "success"
        PROVE  FirstSuccess # {}
    BY <1>9, <2>1 DEF IInv, SuccessSeen, Succeeded
  <2>2. ASSUME FirstSuccess # {}
        PROVE  \E f \in Endpoints : outcome[f] = "success"
    BY <1>2, <2>2 DEF FirstSuccess
  <2> QED
    BY <2>1, <2>2
<1>13. FirstSuccessWins'
  <2>1. CASE FirstSuccess # {}
    <3>1. index' \in FirstSuccess /\ err' = "nil"
      BY <2>1
    <3>2. PICK i \in DOMAIN results :
            /\ results[i] = index' /\ outcome[index'] = "success"
            /\ \A k \in 1..i - 1 : outcome[results[k]] # "success"
      BY <3>1 DEF FirstSuccess
    <3>3. NumEndpoints # 0
      BY <1>2, <1>11, <3>2
    <3> QED
      BY <1>1, <1>12, <2>1, <3>1, <3>2, <3>3 DEF FirstSuccessWins
  <2>2. CASE FirstSuccess = {}
    BY <1>1, <1>11, <1>12, <2>2 DEF FirstSuccessWins
  <2> QED
    BY <2>1, <2>2
<1> QED
  BY <1>4, <1>5, <1>6, <1>7, <1>10, <1>13 DEF IInv, Finished

----------------------------------------------------------------------------
(* The goroutines, time and the caller.                                    *)

\* A goroutine begins its call, or its call ends.
LEMMA TransactStep ==
  ASSUME IInv, NEW e \in Endpoints, Transact(e)
  PROVE  IInv'
<1> USE DEF Transact, Begin, RunFunc, RunInterrupted, Finish, loopVars
<1>1. /\ main' = main /\ idx' = idx /\ results' = results /\ now' = now /\ tick' = tick
      /\ ctxDone' = ctxDone /\ index' = index /\ err' = err
  OBVIOUS
<1>2. /\ pc[e] \in {"spawned", "running"} /\ pc'[e] \in {"running", "sending"}
      /\ \A f \in Endpoints : f # e => pc'[f] = pc[f] /\ outcome'[f] = outcome[f]
      /\ outcome'[e] = "none" <=> pc'[e] = "running"
  BY DEF IInv, TypeOK, Goroutines
<1>3. TypeOK'
  BY DEF IInv, TypeOK
<1>4. Goroutines'
  BY <1>1, <1>2 DEF IInv, Goroutines
<1>5. Done' = Done /\ InFlight' = InFlight
  BY <1>2 DEF Done, InFlight
<1>6. Ledger'
  BY <1>1, <1>2, <1>5 DEF IInv, TypeOK, Ledger
<1>7. Pace'
  BY <1>1, <1>5, ElapsedType DEF IInv, Pace, Buffered, Allowance
<1>8. \A i \in DOMAIN results : results[i] # e /\ outcome'[results[i]] = outcome[results[i]]
  BY <1>2 DEF IInv, TypeOK, Ledger
<1>9. SuccessSeen'
  <2>1. FirstSuccess' = FirstSuccess
    <3>1. \A i \in DOMAIN results : \A k \in 1..i - 1 : k \in DOMAIN results
      BY DEF IInv, TypeOK
    <3> QED
      BY <1>1, <1>8, <3>1 DEF FirstSuccess
  <2>2. Succeeded' = Succeeded
    BY <1>1, <1>8 DEF Succeeded
  <2> QED
    BY <1>1, <2>1, <2>2 DEF IInv, SuccessSeen
<1>10. main # "returned"
  BY <1>2 DEF IInv, Finished, AllCollected
<1>11. Finished'
  BY <1>1, <1>10 DEF Finished
<1> QED
  BY <1>3, <1>4, <1>6, <1>7, <1>9, <1>11 DEF IInv

\* Time passes, the caller cancels, or nothing happens.
LEMMA EnvironmentStep ==
  ASSUME IInv, Tick \/ CallerCancels \/ UNCHANGED vars
  PROVE  IInv'
<1>1. /\ main' = main /\ idx' = idx /\ results' = results /\ index' = index /\ err' = err
      /\ pc' = pc /\ outcome' = outcome /\ (ctxDone => ctxDone')
  <2>1. CASE Tick
    BY <2>1 DEF Tick, loopVars
  <2>2. CASE CallerCancels
    BY <2>2 DEF CallerCancels, loopVars
  <2>3. CASE UNCHANGED vars
    BY <2>3 DEF vars
  <2> QED
    BY <2>1, <2>2, <2>3
<1>2. TypeOK'
  <2>1. CASE Tick
    BY <2>1 DEF IInv, TypeOK, Tick, loopVars, Expired
  <2>2. CASE CallerCancels
    BY <2>2 DEF IInv, TypeOK, CallerCancels, loopVars
  <2>3. CASE UNCHANGED vars
    BY <2>3 DEF IInv, TypeOK, vars
  <2> QED
    BY <2>1, <2>2, <2>3
<1>3. Done' = Done /\ InFlight' = InFlight
  BY <1>1 DEF Done, InFlight
<1>4. Goroutines' /\ Ledger'
  BY <1>1, <1>3 DEF IInv, Goroutines, Ledger
<1>5. Pace'
  <2>1. CASE Tick
    <3>1. /\ Elapsed \in Nat /\ Elapsed' \in Nat /\ Elapsed <= Elapsed'
          /\ now' % ScheduleInterval = 0 => Elapsed' >= Elapsed + 1
      BY <2>1, Intervals DEF IInv, TypeOK, Elapsed, Tick
    <3>2. Buffered \in {0, 1} /\ Allowance \in {0, 1} /\ Allowance' = Allowance
      BY <1>1 DEF Buffered, Allowance
    <3>3. CASE now' % ScheduleInterval = 0
      <4>1. Buffered' <= Buffered + 1
        BY DEF Buffered
      <4>2. Elapsed' >= Elapsed + 1
        BY <3>1, <3>3
      <4>3. Buffered' \in {0, 1}
        BY DEF Buffered
      <4> QED
        BY <1>3, <3>1, <3>2, <4>1, <4>2, <4>3, Finite DEF IInv, Pace
    <3>4. CASE now' % ScheduleInterval # 0
      <4>1. tick' = tick
        BY <2>1, <3>4 DEF Tick, IInv, TypeOK
      <4>2. Buffered' = Buffered
        BY <4>1 DEF Buffered
      <4> QED
        BY <1>3, <3>1, <3>2, <4>2, Finite DEF IInv, Pace
    <3> QED
      BY <3>3, <3>4
  <2>2. CASE CallerCancels \/ UNCHANGED vars
    <3>1. now' = now /\ tick' = tick
      BY <2>2 DEF CallerCancels, vars
    <3> QED
      BY <1>1, <1>3, <3>1, ElapsedType DEF IInv, Pace, Buffered, Allowance
  <2> QED
    BY <2>1, <2>2
<1>6. SuccessSeen'
  BY <1>1 DEF IInv, SuccessSeen, Succeeded, FirstSuccess
<1>7. Finished'
  BY <1>1 DEF IInv, Finished, AllCollected, FirstSuccessWins
<1> QED
  BY <1>2, <1>4, <1>5, <1>6, <1>7 DEF IInv

----------------------------------------------------------------------------
(* The theorems.                                                           *)

\* The initial state satisfies the invariant.
LEMMA InitIInv == Init => IInv
<1> SUFFICES ASSUME Init PROVE IInv
  OBVIOUS
<1> USE DEF Init
<1>1. TypeOK
  <2>1. <<>> \in Seq(Endpoints)
    OBVIOUS
  <2>2. 0 \in 0..NumEndpoints
    BY NumEndpointsAssumption
  <2> QED
    BY <2>1, <2>2 DEF TypeOK
<1>2. Done = {} /\ InFlight = {}
  BY DEF Done, InFlight
<1>3. Goroutines
  BY NumEndpointsAssumption DEF Goroutines, Endpoints
<1>4. Ledger
  BY <1>2, FS_EmptySet DEF Ledger
<1>5. Pace
  <2>1. Elapsed \in Nat
    BY <1>1, ElapsedType
  <2> QED
    BY <1>2, <2>1, FS_EmptySet DEF Pace, Buffered, Allowance
<1>6. SuccessSeen /\ Finished
  BY DEF SuccessSeen, Succeeded, Finished
<1> QED
  BY <1>1, <1>3, <1>4, <1>5, <1>6 DEF IInv

\* Every step preserves the invariant.
LEMMA NextIInv == IInv /\ [Next]_vars => IInv'
<1> SUFFICES ASSUME IInv, [Next]_vars PROVE IInv'
  OBVIOUS
<1>1. CASE Loop
  BY <1>1, SpawnStep, TickerStep, ReturnStep, CollectStep DEF Loop
<1>2. CASE Tick \/ CallerCancels \/ Terminated \/ UNCHANGED vars
  BY <1>2, EnvironmentStep DEF Terminated
<1>3. CASE \E e \in Endpoints : Transact(e)
  BY <1>3, TransactStep
<1> QED
  BY <1>1, <1>2, <1>3 DEF Next

\* The inductive invariant holds in every state of a call of Run.
THEOREM IInvAlways == Spec => []IInv
  BY InitIInv, NextIInv, PTL DEF Spec

\* The state of a call of Run always has its type.
THEOREM TypeCorrect == Spec => []TypeOK
<1>1. IInv => TypeOK
  BY DEF IInv
<1> QED
  BY <1>1, IInvAlways, PTL

\* For any number of endpoints: when Run returns no goroutine of transact is left,
\* blocked in its write or running, and each endpoint gave exactly one result.
THEOREM AllCollectedAlways == Spec => []AllCollected
<1>1. IInv => AllCollected
  BY DEF IInv, Finished, AllCollected
<1> QED
  BY <1>1, IInvAlways, PTL

\* For any number of endpoints, none included: Run fails only when no endpoint
\* succeeded, and otherwise returns the first success that it collected.
THEOREM FirstSuccessWinsAlways == Spec => []FirstSuccessWins
<1>1. IInv => FirstSuccessWins
  BY DEF IInv, Finished, FirstSuccessWins
<1> QED
  BY <1>1, IInvAlways, PTL

\* For any interval: the calls in flight are at most one more than the intervals
\* that have elapsed.
THEOREM OverlapIsPacedAlways == Spec => []OverlapIsPaced
<1>1. IInv => OverlapIsPaced
  <2> SUFFICES ASSUME IInv PROVE OverlapIsPaced
    OBVIOUS
  <2>1. Elapsed \in Nat /\ Buffered \in {0, 1} /\ Allowance \in {0, 1}
    BY ElapsedType DEF IInv, Buffered, Allowance
  <2>2. Cardinality(InFlight) <= 1 + Elapsed
    BY <2>1, Finite DEF IInv, Pace
  <2> QED
    BY <2>2 DEF OverlapIsPaced, Elapsed
<1> QED
  BY <1>1, IInvAlways, PTL

\* No call to an endpoint begins once a success has been collected.
THEOREM NoCallAfterSuccessAlways == Spec => NoCallAfterSuccess
<1>1. ASSUME IInv, [Next]_vars, Succeeded
      PROVE  Running' \subseteq Running
  <2>1. ctxDone
    BY <1>1 DEF IInv, SuccessSeen
  <2>2. ASSUME NEW e \in Endpoints, pc'[e] = "running" PROVE pc[e] = "running"
    <3>1. CASE Loop
      BY <1>1, <2>2, <3>1 DEF Loop, Spawn, StopTicker, Ticked, Return, Collect, IInv, TypeOK
    <3>2. CASE Tick \/ CallerCancels \/ Terminated \/ UNCHANGED vars
      BY <2>2, <3>2 DEF Tick, CallerCancels, Terminated, vars
    <3>3. CASE \E f \in Endpoints : Transact(f)
      BY <1>1, <2>1, <2>2, <3>3
        DEF Transact, Begin, RunFunc, RunInterrupted, Finish, IInv, TypeOK
    <3> QED
      BY <1>1, <3>1, <3>2, <3>3 DEF Next
  <2> QED
    BY <2>2 DEF Running
<1>2. IInv /\ [Next]_vars => [Succeeded => Running' \subseteq Running]_vars
  BY <1>1
<1> QED
  BY <1>2, IInvAlways, PTL DEF Spec, NoCallAfterSuccess

=============================================================================
