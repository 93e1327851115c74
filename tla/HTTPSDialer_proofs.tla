------------------------ MODULE HTTPSDialer_proofs ------------------------
(***************************************************************************)
(* Proofs about HTTPSDialer for any number of workers and of tactics.      *)
(***************************************************************************)
EXTENDS HTTPSDialer, FiniteSetTheorems, TLAPS

\* The tactics whose connection the main goroutine has collected.
Collected == {connv[i] : i \in DOMAIN connv}

Busy == {"received", "waiting", "starting", "connect", "tcp_failed", "handshake",
         "handshake_failed", "verify", "send_conn", "send_error"}

Joined == {w \in Workers : pc[w] = "done"}

\* The workers exist exactly while the main goroutine is in its loop.
Phases ==
  /\ main = "start" => /\ emitted = 0 /\ err = "nil" /\ connv = <<>> /\ errorv = {}
                       /\ \A w \in Workers : pc[w] = "new"
  /\ main = "collect" => \A w \in Workers : pc[w] # "new"
  /\ main # "returned" => conn = 0

\* A tactic in the hands of a worker is in nobody else's.
Ownership ==
  /\ \A w \in Workers :
       pc[w] \in Busy => tactic[w] \in 1..emitted /\ tactic[w] \notin Collected \union errorv
  /\ \A v, w \in Workers :
       pc[v] \in Busy /\ pc[w] \in Busy /\ tactic[v] = tactic[w] => v = w

\* Every tactic received is with a worker or in one of the two result lists.
Accounting ==
  /\ Collected \union errorv \subseteq 1..emitted
  /\ Collected \intersect errorv = {}
  /\ \A i, j \in DOMAIN connv : connv[i] = connv[j] => i = j
  /\ \A t \in 1..emitted :
       \/ t \in Collected \union errorv
       \/ \E w \in Workers : pc[w] \in Busy /\ tactic[w] = t

\* What a worker's position says of the connection of its tactic.
LedgerAt(w) ==
  /\ pc[w] \in {"received", "waiting", "starting", "connect", "tcp_failed"} =>
       sock[tactic[w]] = "none"
  /\ pc[w] \in {"handshake", "handshake_failed"} => sock[tactic[w]] = "tcp"
  /\ pc[w] \in {"verify", "send_conn"} => sock[tactic[w]] = "tls"
  /\ pc[w] = "send_error" => sock[tactic[w]] \in {"none", "closed"}
  /\ pc[w] \in Busy => (pc[w] = "send_conn" <=> stat[tactic[w]] = "success")

WorkerLedger == \A w \in Workers : LedgerAt(w)

\* What the result lists say of the connections.
ResultLedger ==
  /\ main # "returned" => \A t \in Collected : sock[t] = "tls"
  /\ \A t \in Collected : stat[t] = "success"
  /\ \A t \in errorv : sock[t] \in {"none", "closed"} /\ stat[t] # "success"
  /\ \A t \in Tactics : t > emitted => sock[t] = "none" /\ stat[t] = "none"

JoinCount ==
  /\ numJoined = Cardinality(Joined)
  /\ \A w \in Workers : pc[w] \in {"join", "done"} => closed

Finished ==
  main = "returned" =>
    /\ \A w \in Workers : pc[w] \in {"new", "done"}
    /\ NoConnLeak /\ NoGoroutineLeak /\ ResultAgrees

IInv ==
  /\ TypeOK /\ Phases /\ Ownership /\ Accounting /\ WorkerLedger /\ ResultLedger
  /\ JoinCount /\ Finished

----------------------------------------------------------------------------
(* Facts about the list of collected connections.                          *)

\* Appending a connection to connv adds it to what was collected.
LEMMA AppendCollected ==
  ASSUME connv \in Seq(Tactics), NEW t \in Tactics, connv' = Append(connv, t)
  PROVE  /\ connv' \in Seq(Tactics)
         /\ Collected' = Collected \union {t}
         /\ DOMAIN connv' = DOMAIN connv \union {Len(connv) + 1}
         /\ Len(connv) \in Nat
         /\ \A i \in DOMAIN connv : connv'[i] = connv[i] /\ i \in 1..Len(connv)
         /\ connv'[Len(connv) + 1] = t
  BY DEF Collected

\* The first collected connection, and the others, are collected ones.
LEMMA HeadCollected ==
  ASSUME connv \in Seq(Tactics), connv # <<>>
  PROVE  /\ Head(connv) = connv[1] /\ 1 \in DOMAIN connv
         /\ Head(connv) \in Collected
         /\ Collected \subseteq Tactics
         /\ Collected = {Head(connv)} \union Losers
  BY DEF Collected, Losers

----------------------------------------------------------------------------
(* The steps of dialTLS.                                                   *)

\* What every step of dialTLS has in common: it moves one worker, between two
\* positions in which the worker owns its tactic, and touches the connection
\* and the statistics of that tactic only.
Moves(w) ==
  /\ pc[w] \in Busy /\ pc'[w] \in Busy
  /\ pc' = [pc EXCEPT ![w] = pc'[w]]
  /\ UNCHANGED <<main, emitted, closed, tactic, connv, errorv, numJoined, conn, err>>
  /\ \A t \in Tactics : t # tactic[w] => sock'[t] = sock[t] /\ stat'[t] = stat[t]

\* A step of dialTLS keeps the type invariant, has the common shape, and leaves
\* its worker in a position that agrees with the connection.
LEMMA DialMoves ==
  ASSUME IInv, NEW w \in Workers, Dial(w)
  PROVE  TypeOK' /\ Moves(w) /\ LedgerAt(w)'
<1> USE MaxTacticsAssumption
      DEF TypeOK, WorkerStates, Tactics, Moves, Busy, LedgerAt, Step
<1>0. /\ TypeOK /\ LedgerAt(w)
      /\ pc[w] \in Busy => tactic[w] \in Tactics
  BY DEF IInv, WorkerLedger, Ownership
<1>1. CASE WaitReady(w)
  BY <1>0, <1>1 DEF WaitReady, Get, vars, emitterVars, timeVars, mainVars, history
<1>2. CASE TimerFires(w)
  BY <1>0, <1>2 DEF TimerFires, vars, emitterVars, timeVars, mainVars, history
<1>3. CASE WaitCancelled(w)
  BY <1>0, <1>3 DEF WaitCancelled, vars, emitterVars, timeVars, mainVars, history
<1>4. CASE OnStarting(w)
  BY <1>0, <1>4 DEF OnStarting, vars, emitterVars, timeVars, mainVars, history
<1>5. CASE TCPConnect(w)
  BY <1>0, <1>5 DEF TCPConnect, vars, emitterVars, timeVars, mainVars, history
<1>6. CASE TCPConnectFails(w)
  BY <1>0, <1>6 DEF TCPConnectFails, FailureCause, vars, emitterVars, timeVars, mainVars, history
<1>7. CASE OnTCPConnectError(w)
  BY <1>0, <1>7 DEF OnTCPConnectError, ErrorOrInterrupt, vars, emitterVars, timeVars, mainVars, history
<1>8. CASE TLSHandshake(w)
  BY <1>0, <1>8 DEF TLSHandshake, vars, emitterVars, timeVars, mainVars, history
<1>9. CASE TLSHandshakeFails(w)
  BY <1>0, <1>9 DEF TLSHandshakeFails, FailureCause, vars, emitterVars, timeVars, mainVars, history
<1>10. CASE OnTLSHandshakeError(w)
  BY <1>0, <1>10 DEF OnTLSHandshakeError, ErrorOrInterrupt, vars, emitterVars, timeVars, mainVars, history
<1>11. CASE OnTLSVerifyError(w)
  BY <1>0, <1>11 DEF OnTLSVerifyError, vars, emitterVars, timeVars, mainVars, history
<1>12. CASE OnSuccess(w)
  BY <1>0, <1>12 DEF OnSuccess, vars, emitterVars, timeVars, mainVars, history
<1> QED
  BY <1>1, <1>2, <1>3, <1>4, <1>5, <1>6, <1>7, <1>8, <1>9, <1>10, <1>11, <1>12 DEF Dial

\* A step of dialTLS keeps the inductive invariant.
LEMMA DialStep ==
  ASSUME IInv, NEW w \in Workers, Dial(w)
  PROVE  IInv'
<1>0. TypeOK' /\ Moves(w) /\ LedgerAt(w)'
  BY DialMoves
<1>1. /\ main # "returned" /\ main # "start"
      /\ Collected' = Collected /\ Joined' = Joined
      /\ Collected \union errorv \subseteq Tactics
      /\ tactic[w] \in 1..emitted /\ tactic[w] \notin Collected \union errorv
      /\ \A v \in Workers : v # w => pc'[v] = pc[v]
  <2>1. main # "returned" /\ main # "start"
    BY <1>0 DEF IInv, Moves, Phases, Finished, Busy
  <2>2. /\ Collected' = Collected
        /\ \A v \in Workers : v # w => pc'[v] = pc[v]
    BY <1>0 DEF Moves, Collected, IInv, TypeOK
  <2>3. Joined' = Joined
    BY <1>0, <2>2 DEF Moves, Joined, Busy
  <2>4. tactic[w] \in 1..emitted /\ tactic[w] \notin Collected \union errorv
    BY <1>0 DEF IInv, Ownership, Moves
  <2>5. Collected \union errorv \subseteq Tactics
    BY MaxTacticsAssumption DEF IInv, TypeOK, Accounting, Tactics
  <2> QED
    BY <2>1, <2>2, <2>3, <2>4, <2>5
<1>2. Phases'
  BY <1>0, <1>1 DEF IInv, Phases, Moves, Busy
<1>3. Ownership'
  BY <1>0, <1>1 DEF IInv, TypeOK, Ownership, Moves
<1>4. Accounting'
  BY <1>0, <1>1 DEF IInv, TypeOK, Accounting, Moves
<1>5. WorkerLedger'
  <2> SUFFICES ASSUME NEW v \in Workers, v # w PROVE LedgerAt(v)'
    BY <1>0 DEF WorkerLedger
  <2>1. pc[v] \in Busy => tactic[v] \in Tactics /\ tactic[v] # tactic[w]
    BY <1>0 DEF IInv, TypeOK, Ownership, Moves, Tactics
  <2> QED
    BY <1>0, <1>1, <2>1 DEF IInv, WorkerLedger, LedgerAt, Moves, Busy
<1>6. ResultLedger'
  <2>1. \A t \in Collected \union errorv : sock'[t] = sock[t] /\ stat'[t] = stat[t]
    BY <1>0, <1>1 DEF Moves
  <2>2. \A t \in Tactics : t > emitted => sock'[t] = sock[t] /\ stat'[t] = stat[t]
    BY <1>0, <1>1, MaxTacticsAssumption DEF IInv, TypeOK, Moves, Tactics
  <2> QED
    BY <1>0, <1>1, <2>1, <2>2 DEF IInv, ResultLedger, Moves
<1>7. JoinCount'
  BY <1>0, <1>1 DEF IInv, JoinCount, Moves, Busy
<1>8. Finished'
  BY <1>0, <1>1 DEF Finished, Moves
<1> QED
  BY <1>0, <1>2, <1>3, <1>4, <1>5, <1>6, <1>7, <1>8 DEF IInv

----------------------------------------------------------------------------
(* The other steps of a worker.                                            *)

\* A worker that reads from the tactics channel.
LEMMA ReceiveStep ==
  ASSUME IInv, NEW w \in Workers, Receive(w)
  PROVE  IInv'
<1> USE MaxTacticsAssumption DEF Receive, Step, mainVars, timeVars, Tactics
<1>0. TypeOK'
  BY DEF IInv, TypeOK, WorkerStates
<1>1. /\ main # "returned" /\ main # "start"
      /\ Collected' = Collected /\ Joined' = Joined
      /\ emitted' = emitted + 1 /\ emitted' \in Tactics /\ emitted \in Nat
      /\ tactic'[w] = emitted' /\ pc'[w] = "received"
      /\ Collected \union errorv \subseteq 1..emitted
      /\ \A v \in Workers : v # w => pc'[v] = pc[v] /\ tactic'[v] = tactic[v]
  <2>1. main # "returned" /\ main # "start"
    BY DEF IInv, Phases, Finished
  <2>2. /\ Collected' = Collected /\ Joined' = Joined
        /\ \A v \in Workers : v # w => pc'[v] = pc[v] /\ tactic'[v] = tactic[v]
    BY DEF IInv, TypeOK, Collected, Joined
  <2> QED
    BY <2>1, <2>2 DEF IInv, TypeOK, Accounting
<1>2. Phases'
  BY <1>1 DEF IInv, Phases
<1>3. Ownership'
  BY <1>1 DEF IInv, TypeOK, Ownership, Busy
<1>4. Accounting'
  <2>1. \A t \in 1..emitted' :
          \/ t \in Collected' \union errorv'
          \/ \E v \in Workers : pc'[v] \in Busy /\ tactic'[v] = t
    <3> SUFFICES ASSUME NEW t \in 1..emitted', t \notin Collected \union errorv
                 PROVE  \E v \in Workers : pc'[v] \in Busy /\ tactic'[v] = t
      BY <1>1
    <3>1. CASE t = emitted'
      BY <1>1, <3>1 DEF Busy
    <3>2. CASE t \in 1..emitted
      <4>1. PICK v \in Workers : pc[v] \in Busy /\ tactic[v] = t
        BY <3>2 DEF IInv, Accounting
      <4> QED
        BY <1>1, <4>1 DEF Busy
    <3> QED
      BY <1>1, <3>1, <3>2
  <2> QED
    BY <1>1, <2>1 DEF IInv, Accounting
<1>5. WorkerLedger'
  BY <1>1 DEF IInv, TypeOK, WorkerLedger, ResultLedger, LedgerAt, Busy
<1>6. ResultLedger'
  BY <1>1 DEF IInv, TypeOK, ResultLedger
<1>7. JoinCount'
  BY <1>1 DEF IInv, JoinCount
<1>8. Finished'
  BY <1>1 DEF Finished
<1> QED
  BY <1>0, <1>2, <1>3, <1>4, <1>5, <1>6, <1>7, <1>8 DEF IInv

\* A worker that finds the tactics channel closed.
LEMMA ReceiveEOFStep ==
  ASSUME IInv, NEW w \in Workers, ReceiveEOF(w)
  PROVE  IInv'
<1> USE DEF ReceiveEOF, Step, mainVars, timeVars, emitterVars, history
<1>0. TypeOK'
  BY DEF IInv, TypeOK, WorkerStates
<1>1. /\ main # "returned" /\ main # "start"
      /\ Collected' = Collected /\ Joined' = Joined
      /\ pc[w] = "read" /\ pc'[w] = "join"
      /\ \A v \in Workers : v # w => pc'[v] = pc[v]
  BY DEF IInv, TypeOK, Phases, Finished, Collected, Joined
<1>2. Phases' /\ Finished'
  BY <1>1 DEF IInv, Phases, Finished
<1>3. Ownership' /\ Accounting'
  BY <1>1 DEF IInv, Ownership, Accounting, Busy
<1>4. WorkerLedger' /\ ResultLedger'
  BY <1>1 DEF IInv, WorkerLedger, ResultLedger, LedgerAt, Busy
<1>5. JoinCount'
  BY <1>1 DEF IInv, JoinCount
<1> QED
  BY <1>0, <1>2, <1>3, <1>4, <1>5 DEF IInv

\* The main goroutine takes a result from the collector.
LEMMA CollectStep ==
  ASSUME IInv, NEW w \in Workers, Collect(w)
  PROVE  IInv'
<1> USE DEF Collect, CollectorReady, mainVars, timeVars, emitterVars, history
<1> DEFINE t == tactic[w]
<1>1. /\ main = "collect" /\ main' = "collect"
      /\ pc[w] \in {"send_conn", "send_error"} /\ pc'[w] = "read"
      /\ \A v \in Workers : v # w => pc'[v] = pc[v]
      /\ tactic' = tactic /\ emitted' = emitted /\ sock' = sock /\ stat' = stat
      /\ t \in Tactics /\ t \in 1..emitted /\ t \notin Collected \union errorv
      /\ connv \in Seq(Tactics)
  BY MaxTacticsAssumption DEF IInv, TypeOK, Ownership, Busy, Tactics
<1>2. /\ Collected' = IF pc[w] = "send_conn" THEN Collected \union {t} ELSE Collected
      /\ errorv' = IF pc[w] = "send_conn" THEN errorv ELSE errorv \union {t}
      /\ connv' \in Seq(Tactics)
  BY <1>1, AppendCollected DEF Collected
<1>3. TypeOK'
  BY <1>1, <1>2 DEF IInv, TypeOK, WorkerStates
<1>4. Joined' = Joined
  BY <1>1 DEF Joined
<1>5. Phases' /\ Finished'
  BY <1>1 DEF IInv, Phases, Finished
<1>6. Ownership'
  BY <1>1, <1>2 DEF IInv, Ownership, Busy
<1>7. \A i, j \in DOMAIN connv' : connv'[i] = connv'[j] => i = j
  <2>1. CASE pc[w] = "send_conn"
    BY <1>1, <2>1, AppendCollected DEF IInv, Accounting, Collected
  <2> QED
    BY <1>1, <2>1 DEF IInv, Accounting
<1>8. Accounting'
  BY <1>1, <1>2, <1>7 DEF IInv, Accounting, Busy
<1>9. WorkerLedger'
  BY <1>1 DEF IInv, WorkerLedger, LedgerAt, Busy
<1>10. ResultLedger'
  BY <1>1, <1>2 DEF IInv, WorkerLedger, ResultLedger, LedgerAt, Busy
<1>11. JoinCount'
  BY <1>1, <1>4 DEF IInv, JoinCount
<1> QED
  BY <1>3, <1>5, <1>6, <1>8, <1>9, <1>10, <1>11 DEF IInv

\* A worker joins.
LEMMA JoinStep ==
  ASSUME IInv, NEW w \in Workers, Join(w)
  PROVE  IInv'
<1> USE DEF Join, timeVars, emitterVars, history
<1>1. /\ main = "collect" /\ main' = "collect"
      /\ pc[w] = "join" /\ pc'[w] = "done"
      /\ \A v \in Workers : v # w => pc'[v] = pc[v]
      /\ Collected' = Collected
  BY DEF IInv, TypeOK, Collected
<1>2. TypeOK'
  BY DEF IInv, TypeOK, WorkerStates
<1>3. JoinCount'
  <2>1. Joined' = Joined \union {w} /\ w \notin Joined
    BY <1>1 DEF Joined
  <2>2. IsFiniteSet(Joined)
    BY WorkersAssumption, FS_Subset DEF Joined
  <2> QED
    BY <1>1, <2>1, <2>2, FS_AddElement DEF IInv, JoinCount
<1>4. Phases' /\ Finished'
  BY <1>1 DEF IInv, Phases, Finished
<1>5. Ownership' /\ Accounting'
  BY <1>1 DEF IInv, Ownership, Accounting, Busy
<1>6. WorkerLedger' /\ ResultLedger'
  BY <1>1 DEF IInv, WorkerLedger, ResultLedger, LedgerAt, Busy
<1> QED
  BY <1>2, <1>3, <1>4, <1>5, <1>6 DEF IInv

----------------------------------------------------------------------------
(* The steps of the main goroutine and of the environment.                 *)

\* Returning on a malformed endpoint, and spawning the workers.
LEMMA StartStep ==
  ASSUME IInv, BadEndpoint \/ SpawnWorkers
  PROVE  IInv'
<1> USE DEF BadEndpoint, SpawnWorkers, timeVars, emitterVars, history
<1>1. /\ main = "start" /\ emitted = 0 /\ emitted' = 0 /\ connv = <<>> /\ errorv = {}
      /\ conn = 0 /\ numJoined' = numJoined /\ closed' = closed
      /\ connv' = connv /\ errorv' = errorv /\ tactic' = tactic /\ sock' = sock
      /\ stat' = stat /\ conn' = conn
      /\ \A w \in Workers : pc[w] = "new" /\ pc'[w] \in {"new", "read"}
      /\ main' = "collect" => \A w \in Workers : pc'[w] = "read"
      /\ main' \in {"returned", "collect"}
      /\ main' = "returned" => err' = "bad_endpoint"
      /\ main' = "returned" => \A w \in Workers : pc'[w] = "new"
  BY DEF IInv, Phases
<1>2. TypeOK'
  BY DEF IInv, TypeOK, WorkerStates
<1>3. Collected' = {} /\ Collected = {} /\ Joined' = Joined
  BY <1>1 DEF Collected, Joined
<1>4. Phases' /\ Ownership' /\ Accounting'
  BY <1>1, <1>3 DEF Phases, Ownership, Accounting, Busy
<1>5. WorkerLedger' /\ ResultLedger'
  BY <1>1, <1>3 DEF IInv, WorkerLedger, LedgerAt, ResultLedger, Busy
<1>6. JoinCount'
  BY <1>1, <1>3 DEF IInv, JoinCount
<1>7. Finished'
  <2> SUFFICES ASSUME main' = "returned" PROVE NoConnLeak'
    BY <1>1 DEF Finished, NoGoroutineLeak, ResultAgrees
  <2>1. \A t \in Tactics : sock'[t] = "none" /\ t # conn'
    BY <1>1, MaxTacticsAssumption DEF IInv, ResultLedger, Tactics
  <2> QED
    BY <2>1 DEF NoConnLeak
<1> QED
  BY <1>2, <1>4, <1>5, <1>6, <1>7 DEF IInv

\* When the count of joined workers is the parallelism, all workers are done,
\* and every tactic that was received has its result in one of the two lists.
LEMMA AllJoinedMeansDone ==
  ASSUME IInv, main = "collect", AllJoined
  PROVE  /\ closed /\ \A w \in Workers : pc[w] = "done"
         /\ Collected \union errorv = 1..emitted
<1>1. Joined = Workers
  BY WorkersAssumption, FS_Subset DEF IInv, JoinCount, AllJoined, Parallelism, Joined
<1>2. \A w \in Workers : pc[w] = "done"
  BY <1>1 DEF Joined
<1>3. closed
  BY <1>2, WorkersAssumption DEF IInv, JoinCount
<1> QED
  BY <1>2, <1>3 DEF IInv, Accounting, Busy

\* DialTLSContext closes the losers and returns.
LEMMA ReturnStep ==
  ASSUME IInv, Return
  PROVE  IInv'
<1> USE DEF Return, ReturnsConn, timeVars, emitterVars, history
<1>0. /\ main = "collect" /\ AllJoined /\ main' = "returned"
      /\ pc' = pc /\ tactic' = tactic /\ connv' = connv /\ errorv' = errorv
      /\ emitted' = emitted /\ closed' = closed /\ numJoined' = numJoined /\ stat' = stat
      /\ Collected' = Collected /\ Joined' = Joined
  BY DEF Collected, Joined
<1>1. /\ closed /\ \A w \in Workers : pc[w] = "done"
      /\ Collected \union errorv = 1..emitted
  BY <1>0, AllJoinedMeansDone
<1>2. connv # <<>> =>
        /\ Head(connv) \in Collected /\ Collected = {Head(connv)} \union Losers
        /\ Head(connv) \notin Losers
  <2>1. connv \in Seq(Tactics)
    BY DEF IInv, TypeOK
  <2>2. ASSUME connv # <<>> PROVE Head(connv) \notin Losers
    BY <2>1, <2>2, HeadCollected DEF IInv, Accounting, Losers
  <2> QED
    BY <2>1, <2>2, HeadCollected
<1>3. connv = <<>> => Collected = {}
  BY DEF Collected
<1>4. \A t \in Tactics :
        sock'[t] = IF connv # <<>> /\ t \in Losers THEN "closed" ELSE sock[t]
  BY DEF IInv, TypeOK
<1>5. /\ 1..emitted \subseteq Tactics
      /\ \A t \in Tactics : t \in Collected \/ t \in errorv \/ t > emitted
      /\ \A t \in Tactics : t # 0 /\ t \in 0..MaxTactics
  <2>1. /\ 1..emitted \subseteq Tactics
        /\ \A t \in Tactics : t \in 1..emitted \/ t > emitted
        /\ \A t \in Tactics : t # 0 /\ t \in 0..MaxTactics
    BY MaxTacticsAssumption DEF IInv, TypeOK, Tactics
  <2> QED
    BY <1>1, <2>1
<1>6. TypeOK'
  <2>1. conn' \in 0..MaxTactics
    BY <1>1, <1>2, <1>5, MaxTacticsAssumption
  <2>2. sock' \in [Tactics -> {"none", "tcp", "tls", "closed"}]
    BY DEF IInv, TypeOK
  <2> QED
    BY <2>1, <2>2 DEF IInv, TypeOK
<1>7. Phases' /\ Ownership' /\ Accounting' /\ JoinCount' /\ WorkerLedger'
  BY <1>0, <1>1 DEF IInv, Phases, Ownership, Accounting, JoinCount, WorkerLedger, LedgerAt, Busy
<1>8. ResultLedger'
  <2>1. \A t \in Tactics : t \notin Collected => sock'[t] = sock[t]
    BY <1>2, <1>4
  <2>2. errorv \intersect Collected = {}
    BY DEF IInv, Accounting
  <2>3. \A t \in Tactics : t > emitted => t \notin Collected
    BY <1>1, MaxTacticsAssumption DEF IInv, TypeOK, Tactics
  <2> QED
    BY <1>0, <1>1, <1>5, <2>1, <2>2, <2>3 DEF IInv, ResultLedger
<1>9. NoConnLeak'
  <2> SUFFICES ASSUME NEW t \in Tactics
               PROVE  (sock'[t] \in {"tcp", "tls"}) <=> (t = conn')
    BY DEF NoConnLeak
  <2>1. CASE t \in Collected
    BY <1>0, <1>2, <1>3, <1>4, <2>1 DEF IInv, ResultLedger
  <2>2. CASE t \notin Collected
    <3>1. sock[t] \in {"none", "closed"}
      BY <1>5, <2>2 DEF IInv, ResultLedger
    <3>2. t # conn'
      BY <1>2, <1>5, <2>2
    <3> QED
      BY <1>2, <1>4, <2>2, <3>1, <3>2
  <2> QED
    BY <2>1, <2>2
<1>10. NoGoroutineLeak'
  BY <1>0, <1>1 DEF NoGoroutineLeak
<1>11. ResultAgrees'
  <2>1. /\ conn' = IF connv # <<>> THEN Head(connv) ELSE 0
        /\ err' = IF connv # <<>> THEN "nil"
                  ELSE IF errorv # {} THEN "joined_errors" ELSE "dns_no_answer"
    OBVIOUS
  <2>2. Head(connv) # 0 \/ connv = <<>>
    BY <1>1, <1>2, <1>5
  <2>3. \A t \in Tactics : stat[t] = "success" <=> t \in Collected
    BY <1>5 DEF IInv, ResultLedger
  <2>4. emitted = 0 <=> Collected \union errorv = {}
    <3>1. emitted \in Nat
      BY MaxTacticsAssumption DEF IInv, TypeOK
    <3>2. emitted = 0 <=> 1..emitted = {}
      BY <3>1
    <3> QED
      BY <1>1, <3>2
  <2>5. (conn' # 0) <=> (err' = "nil")
    BY <2>1, <2>2
  <2>6. /\ (conn' # 0) <=> (\E t \in Tactics : stat'[t] = "success")
        /\ conn' # 0 => stat'[conn'] = "success"
    BY <1>0, <1>1, <1>2, <1>3, <1>5, <2>1, <2>2, <2>3
  <2>7. err' = "dns_no_answer" <=> emitted' = 0
    BY <1>0, <1>2, <1>3, <2>1, <2>4
  <2> QED
    BY <1>0, <1>1, <2>5, <2>6, <2>7 DEF IInv, ResultAgrees, Accounting, Collected
<1>12. Finished'
  BY <1>0, <1>1, <1>9, <1>10, <1>11 DEF Finished
<1> QED
  BY <1>6, <1>7, <1>8, <1>12 DEF IInv

\* The policy ends, the caller cancels, time passes, or nothing happens.
LEMMA EnvironmentStep ==
  ASSUME IInv, CloseEmitter \/ CallerCancels \/ Tick \/ UNCHANGED vars
  PROVE  IInv'
<1> USE DEF CloseEmitter, CallerCancels, Tick, mainVars, emitterVars, history, vars
<1>1. TypeOK'
  <2>1. CASE CloseEmitter \/ CallerCancels
    BY <2>1 DEF IInv, TypeOK, timeVars
  <2>2. CASE Tick
    BY <2>2 DEF IInv, TypeOK
  <2>3. CASE UNCHANGED vars
    BY <2>3 DEF IInv, TypeOK
  <2> QED
    BY <2>1, <2>2, <2>3
<1>2. /\ main' = main /\ err' = err /\ conn' = conn /\ connv' = connv /\ errorv' = errorv
      /\ emitted' = emitted /\ pc' = pc /\ tactic' = tactic /\ sock' = sock /\ stat' = stat
      /\ numJoined' = numJoined /\ (closed => closed')
      /\ Collected' = Collected /\ Joined' = Joined
  BY DEF timeVars, IInv, TypeOK, Collected, Joined
<1>3. Phases' /\ Ownership' /\ Accounting' /\ WorkerLedger' /\ ResultLedger' /\ JoinCount'
  BY <1>2 DEF IInv, Phases, Ownership, Accounting, WorkerLedger, LedgerAt, ResultLedger,
              JoinCount
<1>4. Finished'
  BY <1>2 DEF IInv, Finished, NoConnLeak, NoGoroutineLeak, ResultAgrees
<1> QED
  BY <1>1, <1>3, <1>4 DEF IInv

----------------------------------------------------------------------------
\* IInv is an inductive invariant.
LEMMA InitIInv == Init => IInv
<1> SUFFICES ASSUME Init PROVE IInv
  OBVIOUS
<1> USE DEF Init
<1>1. TypeOK
  <2>1. emitted \in 0..MaxTactics /\ conn \in 0..MaxTactics /\ 0 \in 0..MaxTactics
    BY MaxTacticsAssumption
  <2>2. /\ pc \in [Workers -> WorkerStates] /\ tactic \in [Workers -> 0..MaxTactics]
        /\ sock \in [Tactics -> {"none", "tcp", "tls", "closed"}]
        /\ connv \in Seq(Tactics) /\ errorv \in SUBSET Tactics
    BY <2>1 DEF WorkerStates
  <2>3. /\ stat \in [Tactics -> {"none", "started", "tcp_error", "tcp_interrupt", "tls_error",
                                  "tls_interrupt", "verify_error", "success"}]
        /\ cause \in [Tactics -> {"none", "network", "context"}]
        /\ startedAt \in [Tactics -> Nat \union {NoTime}]
    OBVIOUS
  <2> QED
    BY <2>1, <2>2, <2>3 DEF TypeOK
<1>2. Collected = {} /\ Joined = {}
  BY DEF Collected, Joined
<1>3. JoinCount
  BY <1>2, FS_EmptySet DEF JoinCount
<1>4. Phases /\ Ownership /\ Accounting /\ Finished
  BY <1>2 DEF Phases, Ownership, Accounting, Finished, Busy
<1>5. WorkerLedger /\ ResultLedger
  BY <1>2 DEF WorkerLedger, LedgerAt, ResultLedger, Busy
<1> QED
  BY <1>1, <1>3, <1>4, <1>5 DEF IInv

\* Every step preserves the inductive invariant.
LEMMA NextIInv == IInv /\ [Next]_vars => IInv'
<1> SUFFICES ASSUME IInv, [Next]_vars PROVE IInv'
  OBVIOUS
<1>1. ASSUME NEW w \in Workers, Worker(w) PROVE IInv'
  BY <1>1, DialStep, ReceiveStep, ReceiveEOFStep, CollectStep, JoinStep DEF Worker
<1>2. CASE BadEndpoint \/ SpawnWorkers
  BY <1>2, StartStep
<1>3. CASE Return
  BY <1>3, ReturnStep
<1>4. CASE CloseEmitter \/ CallerCancels \/ Tick \/ UNCHANGED vars
  BY <1>4, EnvironmentStep
<1>5. CASE Terminated
  BY <1>5, EnvironmentStep DEF Terminated
<1> QED
  BY <1>1, <1>2, <1>3, <1>4, <1>5 DEF Next

\* The inductive invariant holds in every state of a dial.
THEOREM IInvAlways == Spec => []IInv
  BY InitIInv, NextIInv, PTL DEF Spec

\* The state of a dial always has its type.
THEOREM TypeCorrect == Spec => []TypeOK
<1>1. IInv => TypeOK
  BY DEF IInv
<1> QED
  BY <1>1, IInvAlways, PTL

\* Whatever the number of workers and tactics and however they interleave, a
\* dial that has returned left no connection open but the one it returned.
THEOREM NoConnLeakAlways == Spec => []NoConnLeak
<1>1. IInv => NoConnLeak
  BY DEF IInv, Finished, NoConnLeak
<1> QED
  BY <1>1, IInvAlways, PTL

\* A dial that has returned left no goroutine behind.
THEOREM NoGoroutineLeakAlways == Spec => []NoGoroutineLeak
<1>1. IInv => NoGoroutineLeak
  BY DEF IInv, Finished, NoGoroutineLeak
<1> QED
  BY <1>1, IInvAlways, PTL

\* What a dial returns agrees with what happened to each of its tactics.
THEOREM ResultAgreesAlways == Spec => []ResultAgrees
<1>1. IInv => ResultAgrees
  BY DEF IInv, Finished, ResultAgrees
<1> QED
  BY <1>1, IInvAlways, PTL

----------------------------------------------------------------------------
(* The dial implements DialPromise.                                        *)

\* A step of dialTLS opens the connection of its tactic for the first time,
\* closes it, or changes no connection.
LEMMA DialPromiseStep ==
  ASSUME IInv, NEW w \in Workers, Dial(w)
  PROVE  [Promise!Next]_(Promise!vars)
<1> DEFINE t == tactic[w]
<1>1. /\ main # "returned" /\ main' = main /\ conn' = conn /\ t \in Tactics
      /\ \A u \in Tactics : u # t => sock'[u] = sock[u]
  <2>1. Moves(w) /\ tactic[w] \in 1..emitted
    BY DialMoves DEF IInv, Ownership, Moves
  <2>2. main # "returned"
    BY <2>1 DEF IInv, Finished, Moves, Busy
  <2>3. tactic[w] \in Tactics
    BY <2>1, MaxTacticsAssumption DEF IInv, TypeOK, Tactics
  <2> QED
    BY <2>1, <2>2, <2>3 DEF Moves
<1>2. \/ sock'[t] = sock[t]
      \/ sock[t] = "none" /\ sock'[t] = "tcp"
      \/ sock[t] = "tcp" /\ sock'[t] \in {"tls", "closed"}
      \/ sock[t] = "tls" /\ sock'[t] = "closed"
  <2>1. LedgerAt(w) /\ sock \in [Tactics -> {"none", "tcp", "tls", "closed"}]
    BY DEF IInv, TypeOK, WorkerLedger
  <2>2. CASE TCPConnect(w)
    BY <1>1, <2>1, <2>2 DEF TCPConnect, LedgerAt, Step
  <2>3. CASE TLSHandshake(w)
    BY <1>1, <2>1, <2>3 DEF TLSHandshake, LedgerAt, Step
  <2>4. CASE OnTLSHandshakeError(w)
    BY <1>1, <2>1, <2>4 DEF OnTLSHandshakeError, LedgerAt, Step
  <2>5. CASE OnTLSVerifyError(w)
    BY <1>1, <2>1, <2>5 DEF OnTLSVerifyError, LedgerAt, Step
  <2>6. CASE UNCHANGED sock
    BY <2>6
  <2> QED
    BY <2>2, <2>3, <2>4, <2>5, <2>6
       DEF Dial, WaitReady, TimerFires, WaitCancelled, OnStarting, TCPConnectFails,
           OnTCPConnectError, TLSHandshakeFails, OnSuccess
<1>3. CASE OpenConns' = OpenConns /\ UsedConns' = UsedConns
  BY <1>1, <1>3 DEF Promise!vars
<1>4. CASE sock[t] = "none" /\ sock'[t] = "tcp"
  <2>1. /\ t \notin UsedConns
        /\ OpenConns' = OpenConns \union {t} /\ UsedConns' = UsedConns \union {t}
    BY <1>1, <1>4 DEF OpenConns, UsedConns
  <2>2. Promise!Open(t)
    BY <1>1, <2>1 DEF Promise!Open
  <2> QED
    BY <1>1, <2>2 DEF Promise!Next
<1>5. CASE sock[t] \in {"tcp", "tls"} /\ sock'[t] = "closed"
  <2>1. t \in OpenConns /\ OpenConns' = OpenConns \ {t} /\ UsedConns' = UsedConns
    BY <1>1, <1>5 DEF OpenConns, UsedConns
  <2>2. Promise!Close(t)
    BY <1>1, <2>1 DEF Promise!Close
  <2> QED
    BY <1>1, <2>2 DEF Promise!Next
<1>6. CASE sock'[t] = sock[t] \/ (sock[t] = "tcp" /\ sock'[t] = "tls")
  BY <1>1, <1>3, <1>6 DEF OpenConns, UsedConns
<1> QED
  BY <1>2, <1>4, <1>5, <1>6

\* Returning closes the losers and hands over the winner.
LEMMA ReturnPromiseStep ==
  ASSUME IInv, IInv', Return
  PROVE  Promise!Next
<1>1. /\ main # "returned" /\ main' = "returned" /\ NoConnLeak'
      /\ ResultAgrees' /\ err' # "bad_endpoint"
  BY DEF Return, IInv, Finished
<1>2. UsedConns' = UsedConns
  <2>1. \A t \in Losers : connv # <<>> => sock[t] = "tls"
    BY <1>1, HeadCollected DEF IInv, TypeOK, ResultLedger
  <2> QED
    BY <2>1 DEF IInv, TypeOK, Return, ReturnsConn, UsedConns
<1>3. CASE conn' # 0
  <2>1. conn' = Head(connv) /\ connv # <<>>
    BY <1>3 DEF Return, ReturnsConn
  <2>2. conn' \in Tactics /\ sock[conn'] = "tls"
    BY <1>1, <2>1, HeadCollected DEF IInv, TypeOK, ResultLedger
  <2>3. conn' \in OpenConns /\ OpenConns' = {conn'}
    BY <1>1, <2>2 DEF NoConnLeak, OpenConns
  <2>4. Promise!ReturnConn(conn')
    BY <1>1, <1>2, <1>3, <2>3 DEF Promise!ReturnConn
  <2> QED
    BY <2>2, <2>4 DEF Promise!Next
<1>4. CASE conn' = 0
  <2>1. OpenConns' = {}
    BY <1>1, <1>4, MaxTacticsAssumption DEF NoConnLeak, OpenConns, Tactics
  <2>2. /\ connv = <<>> /\ sock' = sock
    <3>1. connv # <<>> => Head(connv) \in Tactics
      BY HeadCollected DEF IInv, TypeOK
    <3> QED
      BY <1>4, <3>1, MaxTacticsAssumption DEF Return, ReturnsConn, Tactics
  <2>3. OpenConns = {}
    BY <2>1, <2>2 DEF OpenConns
  <2>4. conn = 0
    BY <1>1 DEF IInv, Phases, Return
  <2>5. Promise!ReturnError
    BY <1>1, <1>2, <1>4, <2>1, <2>3, <2>4 DEF Promise!ReturnError
  <2> QED
    BY <2>5 DEF Promise!Next
<1> QED
  BY <1>3, <1>4

\* The other steps change no connection.
LEMMA NoPromiseStep ==
  ASSUME NEW w \in Workers,
         \/ SpawnWorkers \/ CloseEmitter \/ CallerCancels \/ Tick \/ UNCHANGED vars
         \/ Receive(w) \/ ReceiveEOF(w) \/ Collect(w) \/ Join(w), IInv
  PROVE  UNCHANGED Promise!vars
<1>1. sock' = sock /\ conn' = conn /\ (main' = "returned") = (main = "returned")
  BY DEF SpawnWorkers, CloseEmitter, CallerCancels, Tick, vars, Receive, ReceiveEOF, Collect,
         CollectorReady, Join, mainVars
<1>2. OpenConns' = OpenConns /\ UsedConns' = UsedConns
  BY <1>1 DEF OpenConns, UsedConns
<1> QED
  BY <1>1, <1>2 DEF Promise!vars

\* DialTLSContext implements the promise it makes to its caller.
THEOREM Implements == Spec => KeepsPromise
<1>1. Init => Promise!Init
  <2> SUFFICES ASSUME Init PROVE Promise!Init
    OBVIOUS
  <2>1. OpenConns = {} /\ UsedConns = {}
    BY DEF Init, OpenConns, UsedConns
  <2> QED
    BY <2>1 DEF Init, Promise!Init
<1>2. IInv /\ IInv' /\ [Next]_vars => [Promise!Next]_(Promise!vars)
  <2> SUFFICES ASSUME IInv, IInv', [Next]_vars PROVE [Promise!Next]_(Promise!vars)
    OBVIOUS
  <2>1. ASSUME NEW w \in Workers, Worker(w) PROVE [Promise!Next]_(Promise!vars)
    BY <2>1, DialPromiseStep, NoPromiseStep DEF Worker
  <2>2. PICK w \in Workers : TRUE
    BY WorkersAssumption
  <2>3. CASE SpawnWorkers \/ CloseEmitter \/ CallerCancels \/ Tick \/ UNCHANGED vars
    BY <2>2, <2>3, NoPromiseStep
  <2>4. CASE Terminated
    BY <2>2, <2>4, NoPromiseStep DEF Terminated
  <2>5. CASE Return
    BY <2>5, ReturnPromiseStep
  <2>6. CASE BadEndpoint
    <3>1. /\ main = "start" /\ main' = "returned" /\ conn' = conn /\ conn = 0 /\ sock' = sock
          /\ \A t \in Tactics : sock[t] = "none"
      BY <2>6, MaxTacticsAssumption DEF BadEndpoint, IInv, Phases, ResultLedger, Tactics
    <3>2. OpenConns = {} /\ OpenConns' = {} /\ UsedConns' = UsedConns
      BY <3>1 DEF OpenConns, UsedConns
    <3>3. Promise!ReturnError
      BY <3>1, <3>2 DEF Promise!ReturnError
    <3> QED
      BY <3>3 DEF Promise!Next
  <2> QED
    BY <2>1, <2>3, <2>4, <2>5, <2>6 DEF Next
<1> QED
  BY <1>1, <1>2, IInvAlways, PTL DEF Spec, KeepsPromise, Promise!Spec

----------------------------------------------------------------------------
(* The callbacks on the statistics handler, and the delays.                *)

\* While its tactic is being dialled a worker has reported it as started only;
\* a dial fails because of the context only once the context is done.
Blame ==
  /\ \A w \in Workers :
       pc[w] \in {"connect", "tcp_failed", "handshake", "handshake_failed", "verify"} =>
         stat[tactic[w]] = "started"
  /\ \A t \in Tactics : cause[t] = "context" => ctxDone
  /\ InterruptIsNotFailure

\* Every step preserves Blame.
LEMMA BlameStep ==
  ASSUME IInv, IInv', Blame, [Next]_vars
  PROVE  Blame'
<1> USE DEF TypeOK, Blame, InterruptIsNotFailure, Step
<1>0. /\ TypeOK
      /\ \A w \in Workers : pc[w] \in Busy => tactic[w] \in Tactics
      /\ \A v, w \in Workers : pc[v] \in Busy /\ pc[w] \in Busy /\ tactic[v] = tactic[w] => v = w
      /\ \A w \in Workers : pc'[w] \in Busy => tactic'[w] \in Tactics
  BY MaxTacticsAssumption DEF IInv, Ownership, Tactics
<1>1. ASSUME NEW w \in Workers, Worker(w) PROVE Blame'
  <2>1. CASE Receive(w)
    BY <1>0, <2>1 DEF Receive, Busy, emitterVars, timeVars, mainVars, history
  <2>2. CASE ReceiveEOF(w)
    BY <1>0, <2>2 DEF ReceiveEOF, Busy, emitterVars, timeVars, mainVars, history
  <2>3. CASE Collect(w)
    BY <1>0, <2>3 DEF Collect, CollectorReady, Busy, emitterVars, timeVars, mainVars, history
  <2>4. CASE Join(w)
    BY <1>0, <2>4 DEF Join, Busy, emitterVars, timeVars, mainVars, history
  <2>5. CASE WaitReady(w)
    BY <1>0, <2>5 DEF WaitReady, Get, Busy, emitterVars, timeVars, mainVars, history
  <2>6. CASE TimerFires(w)
    BY <1>0, <2>6 DEF TimerFires, Busy, emitterVars, timeVars, mainVars, history
  <2>7. CASE WaitCancelled(w)
    BY <1>0, <2>7 DEF WaitCancelled, Busy, emitterVars, timeVars, mainVars, history
  <2>8. CASE OnStarting(w)
    BY <1>0, <2>8 DEF OnStarting, Busy, emitterVars, timeVars, mainVars, history
  <2>9. CASE TCPConnect(w)
    BY <1>0, <2>9 DEF TCPConnect, Busy, emitterVars, timeVars, mainVars, history
  <2>10. CASE TCPConnectFails(w)
    BY <1>0, <2>10 DEF TCPConnectFails, FailureCause, Busy, emitterVars, timeVars, mainVars, history
  <2>11. CASE OnTCPConnectError(w)
    BY <1>0, <2>11 DEF OnTCPConnectError, ErrorOrInterrupt, Busy, emitterVars, timeVars, mainVars, history
  <2>12. CASE TLSHandshake(w)
    BY <1>0, <2>12 DEF TLSHandshake, Busy, emitterVars, timeVars, mainVars, history
  <2>13. CASE TLSHandshakeFails(w)
    BY <1>0, <2>13 DEF TLSHandshakeFails, FailureCause, Busy, emitterVars, timeVars, mainVars, history
  <2>14. CASE OnTLSHandshakeError(w)
    BY <1>0, <2>14 DEF OnTLSHandshakeError, ErrorOrInterrupt, Busy, emitterVars, timeVars, mainVars, history
  <2>15. CASE OnTLSVerifyError(w)
    BY <1>0, <2>15 DEF OnTLSVerifyError, Busy, emitterVars, timeVars, mainVars, history
  <2>16. CASE OnSuccess(w)
    BY <1>0, <2>16 DEF OnSuccess, Busy, emitterVars, timeVars, mainVars, history
  <2> QED
    BY <1>1, <2>1, <2>2, <2>3, <2>4, <2>5, <2>6, <2>7, <2>8, <2>9, <2>10, <2>11, <2>12, <2>13, <2>14, <2>15, <2>16 DEF Worker, Dial
<1>2. CASE BadEndpoint \/ SpawnWorkers \/ Return
  BY <1>0, <1>2 DEF BadEndpoint, SpawnWorkers, Return, emitterVars, timeVars, history
<1>3. CASE CloseEmitter \/ CallerCancels \/ Tick \/ UNCHANGED vars
  BY <1>0, <1>3 DEF CloseEmitter, CallerCancels, Tick, vars, mainVars, emitterVars, timeVars, history
<1> QED
  BY <1>1, <1>2, <1>3 DEF Next, Terminated

\* A tactic that the context interrupted is never reported as failed, for any
\* interleaving of cancellations and callbacks.
THEOREM InterruptIsNotFailureAlways == Spec => []InterruptIsNotFailure
<1>1. Init => Blame
  BY DEF Init, Blame, InterruptIsNotFailure
<1>2. IInv /\ IInv' /\ Blame /\ [Next]_vars => Blame'
  BY BlameStep
<1>3. Blame => InterruptIsNotFailure
  BY DEF Blame
<1> QED
  BY <1>1, <1>2, <1>3, IInvAlways, PTL DEF Spec

\* The delays of the schedule are natural numbers, each longer than the last.
LEMMA DelayIncreases ==
  ASSUME NEW i \in Nat
  PROVE  /\ HappyEyeballsDelay(i) \in Nat
         /\ HappyEyeballsDelay(i) < HappyEyeballsDelay(i + 1)
  BY DEF HappyEyeballsDelay

\* The zero time is not before the first tactic was received, and a tactic that
\* is about to start has waited for its delay from the zero time.
Spacing ==
  /\ firstRecv # NoTime => firstRecv <= now
  /\ t0 # NoTime => firstRecv # NoTime /\ firstRecv <= t0
  /\ \A w \in Workers : pc[w] \in Busy => firstRecv # NoTime
  /\ \A w \in Workers :
       pc[w] = "starting" => t0 # NoTime /\ now >= t0 + InitialDelay(tactic[w])
  /\ \A t \in Tactics : startedAt[t] # NoTime => firstRecv # NoTime
  /\ AttemptsAreSpaced

\* Every step preserves Spacing.
LEMMA SpacingStep ==
  ASSUME IInv, Spacing, [Next]_vars
  PROVE  Spacing'
<1> USE NoTimeAssumption DEF TypeOK, Spacing, AttemptsAreSpaced, Step
<1>0. /\ TypeOK
      /\ \A w \in Workers : pc[w] \in Busy => tactic[w] \in Tactics
      /\ \A t \in Tactics : InitialDelay(t) \in Nat
      /\ \A w \in Workers : pc[w] \in Busy => InitialDelay(tactic[w]) \in Nat
  <2>1. \A t \in Tactics : t - 1 \in Nat
    BY MaxTacticsAssumption DEF Tactics
  <2>2. \A t \in Tactics : InitialDelay(t) \in Nat
    BY <2>1, DelayIncreases DEF InitialDelay
  <2> QED
    BY <2>2, MaxTacticsAssumption DEF IInv, Ownership, Tactics
<1>1. ASSUME NEW w \in Workers, Worker(w) PROVE Spacing'
  <2>1. CASE Receive(w)
    BY <1>0, <2>1 DEF Receive, Busy, emitterVars, timeVars, mainVars, history
  <2>2. CASE ReceiveEOF(w)
    BY <1>0, <2>2 DEF ReceiveEOF, Busy, emitterVars, timeVars, mainVars, history
  <2>3. CASE Collect(w)
    BY <1>0, <2>3 DEF Collect, CollectorReady, Busy, emitterVars, timeVars, mainVars, history
  <2>4. CASE Join(w)
    BY <1>0, <2>4 DEF Join, Busy, emitterVars, timeVars, mainVars, history
  <2>5. CASE WaitReady(w)
    BY <1>0, <2>5 DEF WaitReady, Get, Busy, emitterVars, timeVars, mainVars, history
  <2>6. CASE TimerFires(w)
    BY <1>0, <2>6 DEF TimerFires, Busy, emitterVars, timeVars, mainVars, history
  <2>7. CASE WaitCancelled(w)
    BY <1>0, <2>7 DEF WaitCancelled, Busy, emitterVars, timeVars, mainVars, history
  <2>8. CASE OnStarting(w)
    BY <1>0, <2>8 DEF OnStarting, Busy, emitterVars, timeVars, mainVars, history
  <2>9. CASE TCPConnect(w)
    BY <1>0, <2>9 DEF TCPConnect, Busy, emitterVars, timeVars, mainVars, history
  <2>10. CASE TCPConnectFails(w)
    BY <1>0, <2>10 DEF TCPConnectFails, FailureCause, Busy, emitterVars, timeVars, mainVars, history
  <2>11. CASE OnTCPConnectError(w)
    BY <1>0, <2>11 DEF OnTCPConnectError, ErrorOrInterrupt, Busy, emitterVars, timeVars, mainVars, history
  <2>12. CASE TLSHandshake(w)
    BY <1>0, <2>12 DEF TLSHandshake, Busy, emitterVars, timeVars, mainVars, history
  <2>13. CASE TLSHandshakeFails(w)
    BY <1>0, <2>13 DEF TLSHandshakeFails, FailureCause, Busy, emitterVars, timeVars, mainVars, history
  <2>14. CASE OnTLSHandshakeError(w)
    BY <1>0, <2>14 DEF OnTLSHandshakeError, ErrorOrInterrupt, Busy, emitterVars, timeVars, mainVars, history
  <2>15. CASE OnTLSVerifyError(w)
    BY <1>0, <2>15 DEF OnTLSVerifyError, Busy, emitterVars, timeVars, mainVars, history
  <2>16. CASE OnSuccess(w)
    BY <1>0, <2>16 DEF OnSuccess, Busy, emitterVars, timeVars, mainVars, history
  <2> QED
    BY <1>1, <2>1, <2>2, <2>3, <2>4, <2>5, <2>6, <2>7, <2>8, <2>9, <2>10, <2>11, <2>12, <2>13, <2>14, <2>15, <2>16 DEF Worker, Dial
<1>2. CASE BadEndpoint \/ SpawnWorkers \/ Return
  BY <1>0, <1>2 DEF BadEndpoint, SpawnWorkers, Return, Busy, emitterVars, timeVars, history
<1>3. CASE CloseEmitter \/ CallerCancels \/ UNCHANGED vars
  BY <1>0, <1>3 DEF CloseEmitter, CallerCancels, vars, mainVars, emitterVars, timeVars, history
<1>4. CASE Tick
  BY <1>0, <1>4 DEF Tick, Busy, mainVars, emitterVars, history
<1> QED
  BY <1>1, <1>2, <1>3, <1>4 DEF Next, Terminated

\* No tactic starts before its delay has passed since the first tactic arrived.
THEOREM AttemptsAreSpacedAlways == Spec => []AttemptsAreSpaced
<1>1. Init => Spacing
  BY DEF Init, Spacing, AttemptsAreSpaced, Busy
<1>2. IInv /\ Spacing /\ [Next]_vars => Spacing'
  BY SpacingStep
<1>3. Spacing => AttemptsAreSpaced
  BY DEF Spacing
<1> QED
  BY <1>1, <1>2, <1>3, IInvAlways, PTL DEF Spec
=============================================================================
