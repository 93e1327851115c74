---------------------------- MODULE HTTPSDialer ----------------------------
(***************************************************************************)
(* One call of DialTLSContext of httpsDialer, pkg/enginenetx/              *)
(* httpsdialer.go: the calling goroutine ("main"), its parallel workers,   *)
(* the channel of filtered tactics they range over, the collector and      *)
(* joiner channels, and the context that the first success cancels.        *)
(*                                                                         *)
(* A tactic is its position (1, 2, ...) in the filtered stream: the stream *)
(* has no duplicates and position n waits HappyEyeballsDelay(n - 1), see   *)
(* TacticsPolicy. When the policy has nothing left it closes the channel;  *)
(* how many tactics it finds, and when, is left open here.                 *)
(*                                                                         *)
(* The channels are unbuffered: a send and its receive are one step.       *)
(***************************************************************************)
EXTENDS HappyEyeballs, Sequences, FiniteSets

CONSTANTS
  Workers,      \* the worker goroutines (const parallelism = 16)
  MaxTactics,   \* bound: tactics the policy may emit
  MaxIdle,      \* bound: time that may pass before the first attempt
  NoTime        \* the zero time.Time of httpsDialerWorkerZeroTime

ASSUME WorkersAssumption == IsFiniteSet(Workers) /\ Workers # {}
ASSUME MaxTacticsAssumption == MaxTactics \in Nat
ASSUME MaxIdleAssumption == MaxIdle \in Nat
ASSUME NoTimeAssumption == NoTime \notin Nat

VARIABLES
  main,       \* where DialTLSContext is: "start", "collect" or "returned"
  ctxDone,    \* the cancellable context is done
  emitted,    \* number of tactics received from the emitter
  closed,     \* the emitter channel is closed
  now,        \* current time
  t0,         \* httpsDialerWorkerZeroTime
  pc,         \* where each worker is
  tactic,     \* the tactic each worker handles
  sock,       \* the connection dialled for each tactic
  connv,      \* successful results collected so far, in order
  errorv,     \* tactics whose error was collected
  numJoined,  \* workers that have joined
  conn, err,  \* what DialTLSContext returned (conn = 0: nil)
  stat,       \* last callback invoked on the stats handler for each tactic
  cause,      \* history: why the dial of each tactic failed
  firstRecv,  \* history: when the first tactic reached a worker
  startedAt   \* history: when each tactic was started

vars == <<main, ctxDone, emitted, closed, now, t0, pc, tactic, sock, connv, errorv,
          numJoined, conn, err, stat, cause, firstRecv, startedAt>>
emitterVars == <<emitted, closed>>
timeVars == <<now, t0>>
mainVars == <<main, connv, errorv, numJoined, conn, err>>
history == <<cause, firstRecv, startedAt>>

Tactics == 1..MaxTactics
InitialDelay(t) == HappyEyeballsDelay(t - 1)

Parallelism == Cardinality(Workers)

Init ==
  /\ main = "start" /\ ctxDone = FALSE
  /\ emitted = 0 /\ closed = FALSE
  /\ now = 0 /\ t0 = NoTime
  /\ pc = [w \in Workers |-> "new"]
  /\ tactic = [w \in Workers |-> 0]
  /\ sock = [t \in Tactics |-> "none"]
  /\ connv = <<>> /\ errorv = {} /\ numJoined = 0
  /\ conn = 0 /\ err = "nil"
  /\ stat = [t \in Tactics |-> "none"]
  /\ cause = [t \in Tactics |-> "none"]
  /\ firstRecv = NoTime
  /\ startedAt = [t \in Tactics |-> NoTime]

----------------------------------------------------------------------------
(* The goroutine that runs DialTLSContext.                                 *)

\* net.SplitHostPort fails: nothing is spawned.
BadEndpoint ==
  /\ main = "start"
  /\ main' = "returned" /\ err' = "bad_endpoint"
  /\ UNCHANGED <<ctxDone, emitterVars, timeVars, pc, tactic, sock, connv, errorv,
                 numJoined, conn, stat, history>>

\* Create the context and the channels, start the emitter and the workers.
SpawnWorkers ==
  /\ main = "start"
  /\ main' = "collect"
  /\ pc' = [w \in Workers |-> "read"]
  /\ UNCHANGED <<ctxDone, emitterVars, timeVars, tactic, sock, connv, errorv, numJoined,
                 conn, err, stat, history>>

\* A mutant: the loop stops serving the collector once it has a connection.
CollectorReadyUntilWinner == main = "collect" /\ connv = <<>>

\* The select of the loop serves the collector until every worker has joined.
CollectorReady == main = "collect"

\* case result := <-collector: keep the error, or keep the conn and cancel.
Collect(w) ==
  /\ CollectorReady /\ pc[w] \in {"send_conn", "send_error"}
  /\ IF pc[w] = "send_conn"
       THEN /\ connv' = Append(connv, tactic[w])
            /\ ctxDone' = TRUE
            /\ UNCHANGED errorv
       ELSE /\ errorv' = errorv \union {tactic[w]}
            /\ UNCHANGED <<connv, ctxDone>>
  /\ pc' = [pc EXCEPT ![w] = "read"]
  /\ UNCHANGED <<main, emitterVars, timeVars, tactic, sock, numJoined, conn, err, stat,
                 history>>

\* case <-joiner: the deferred send of a worker that is done.
Join(w) ==
  /\ main = "collect" /\ pc[w] = "join"
  /\ numJoined' = numJoined + 1
  /\ pc' = [pc EXCEPT ![w] = "done"]
  /\ UNCHANGED <<main, ctxDone, emitterVars, timeVars, tactic, sock, connv, errorv, conn,
                 err, stat, history>>

\* A mutant: leave the loop as soon as there is a connection.
AllJoinedOrWinner == numJoined = Parallelism \/ connv # <<>>

\* The condition on which the loop ends.
AllJoined == numJoined = Parallelism

\* A mutant: the errors win over the connections.
ReturnsConnUnlessErrors == connv # <<>> /\ errorv = {}

\* The first case of httpsDialerReduceResult.
ReturnsConn == connv # <<>>

\* A mutant: the losing connections start one position late.
LosersOffByOne == {connv[i] : i \in 3..Len(connv)}

\* connv[1:], which httpsDialerReduceResult closes.
Losers == {connv[i] : i \in 2..Len(connv)}

\* The end of DialTLSContext: httpsDialerReduceResult returns connv[0], or the
\* joined errors, or errDNSNoAnswer; the deferred cancel runs.
Return ==
  /\ main = "collect" /\ AllJoined
  /\ main' = "returned" /\ ctxDone' = TRUE
  /\ IF ReturnsConn
       THEN /\ conn' = Head(connv) /\ err' = "nil"
            /\ sock' = [t \in Tactics |-> IF t \in Losers THEN "closed" ELSE sock[t]]
       ELSE /\ conn' = 0
            /\ err' = IF errorv # {} THEN "joined_errors" ELSE "dns_no_answer"
            /\ UNCHANGED sock
  /\ UNCHANGED <<emitterVars, timeVars, pc, tactic, connv, errorv, numJoined, stat, history>>

----------------------------------------------------------------------------
(* The environment: the policy, the clock, the caller's context.           *)

\* The policy has no more tactics and its channel is closed.
CloseEmitter ==
  /\ main = "collect" /\ ~closed
  /\ closed' = TRUE
  /\ UNCHANGED <<mainVars, ctxDone, emitted, timeVars, pc, tactic, sock, stat, history>>

\* The caller's context, the parent of ours, is cancelled or expires.
CallerCancels ==
  /\ main = "collect" /\ ~ctxDone
  /\ ctxDone' = TRUE
  /\ UNCHANGED <<mainVars, emitterVars, timeVars, pc, tactic, sock, stat, history>>

\* Time matters until the last delay has expired.
Tick ==
  /\ main = "collect"
  /\ now < IF t0 = NoTime THEN MaxIdle ELSE t0 + InitialDelay(MaxTactics)
  /\ now' = now + 1
  /\ UNCHANGED <<mainVars, ctxDone, emitterVars, t0, pc, tactic, sock, stat, history>>

----------------------------------------------------------------------------
(* A worker: for tactic := range reader { dialTLS; writer <- result }.     *)

Step(w, from, to) == pc[w] = from /\ pc' = [pc EXCEPT ![w] = to]

Receive(w) ==
  /\ ~closed /\ emitted < MaxTactics
  /\ Step(w, "read", "received")
  /\ emitted' = emitted + 1
  /\ tactic' = [tactic EXCEPT ![w] = emitted + 1]
  /\ firstRecv' = IF firstRecv = NoTime THEN now ELSE firstRecv
  /\ UNCHANGED <<mainVars, ctxDone, closed, timeVars, sock, stat, cause, startedAt>>

ReceiveEOF(w) ==
  /\ closed
  /\ Step(w, "read", "join")
  /\ UNCHANGED <<mainVars, ctxDone, emitterVars, timeVars, tactic, sock, stat, history>>

\* A mutant: the zero time is when the workers were spawned, as in the earlier
\* version of the code that the comment of httpsDialerWorkerZeroTime recalls.
GetSpawnTime == 0

\* httpsDialerWorkerZeroTime.Get: the first caller sets the zero time.
Get == IF t0 = NoTime THEN now ELSE t0

\* httpsDialerTacticWaitReady up to its select: a tactic whose deadline is past
\* does not look at the context.
WaitReady(w) ==
  /\ t0' = Get
  /\ Step(w, "received", IF now >= t0' + InitialDelay(tactic[w]) THEN "starting" ELSE "waiting")
  /\ UNCHANGED <<mainVars, ctxDone, emitterVars, now, tactic, sock, stat, history>>

\* case <-timer.C
TimerFires(w) ==
  /\ t0 # NoTime /\ now >= t0 + InitialDelay(tactic[w])
  /\ Step(w, "waiting", "starting")
  /\ UNCHANGED <<mainVars, ctxDone, emitterVars, timeVars, tactic, sock, stat, history>>

\* A mutant: the wait only ends with the timer.
WaitNeverCancelled(w) == FALSE

\* case <-ctx.Done(): the tactic fails without having been started.
WaitCancelled(w) ==
  /\ ctxDone
  /\ Step(w, "waiting", "send_error")
  /\ UNCHANGED <<mainVars, ctxDone, emitterVars, timeVars, tactic, sock, stat, history>>

OnStarting(w) ==
  /\ Step(w, "starting", "connect")
  /\ stat' = [stat EXCEPT ![tactic[w]] = "started"]
  /\ startedAt' = [startedAt EXCEPT ![tactic[w]] = now]
  /\ UNCHANGED <<mainVars, ctxDone, emitterVars, timeVars, tactic, sock, cause, firstRecv>>

\* dialer.DialContext succeeds; it may win the race with a cancellation.
TCPConnect(w) ==
  /\ Step(w, "connect", "handshake")
  /\ sock' = [sock EXCEPT ![tactic[w]] = "tcp"]
  /\ UNCHANGED <<mainVars, ctxDone, emitterVars, timeVars, tactic, stat, history>>

\* Why an operation with a context may fail: the network, a timeout of its own,
\* or the context.
FailureCause == {"network"} \union (IF ctxDone THEN {"context"} ELSE {})

TCPConnectFails(w) ==
  /\ Step(w, "connect", "tcp_failed")
  /\ \E why \in FailureCause : cause' = [cause EXCEPT ![tactic[w]] = why]
  /\ UNCHANGED <<mainVars, ctxDone, emitterVars, timeVars, tactic, sock, stat, firstRecv,
                 startedAt>>

\* A mutant: the callbacks do not look at the context.
ErrorNeverInterrupt(error, interrupt) == error

\* The callbacks of the stats handler read ctx.Err() when they run, some time
\* after the operation failed.
ErrorOrInterrupt(error, interrupt) == IF ctxDone THEN interrupt ELSE error

OnTCPConnectError(w) ==
  /\ Step(w, "tcp_failed", "send_error")
  /\ stat' = [stat EXCEPT ![tactic[w]] = ErrorOrInterrupt("tcp_error", "tcp_interrupt")]
  /\ UNCHANGED <<mainVars, ctxDone, emitterVars, timeVars, tactic, sock, history>>

TLSHandshake(w) ==
  /\ Step(w, "handshake", "verify")
  /\ sock' = [sock EXCEPT ![tactic[w]] = "tls"]
  /\ UNCHANGED <<mainVars, ctxDone, emitterVars, timeVars, tactic, stat, history>>

TLSHandshakeFails(w) ==
  /\ Step(w, "handshake", "handshake_failed")
  /\ \E why \in FailureCause : cause' = [cause EXCEPT ![tactic[w]] = why]
  /\ UNCHANGED <<mainVars, ctxDone, emitterVars, timeVars, tactic, sock, stat, firstRecv,
                 startedAt>>

\* The callback, then tcpConn.Close().
OnTLSHandshakeError(w) ==
  /\ Step(w, "handshake_failed", "send_error")
  /\ stat' = [stat EXCEPT ![tactic[w]] = ErrorOrInterrupt("tls_error", "tls_interrupt")]
  /\ sock' = [sock EXCEPT ![tactic[w]] = "closed"]
  /\ UNCHANGED <<mainVars, ctxDone, emitterVars, timeVars, tactic, history>>

\* httpsDialerVerifyCertificateChain fails (empty hostname, no certificate, bad
\* chain): the callback, which takes no context, then tlsConn.Close().
OnTLSVerifyError(w) ==
  /\ Step(w, "verify", "send_error")
  /\ cause' = [cause EXCEPT ![tactic[w]] = "network"]
  /\ stat' = [stat EXCEPT ![tactic[w]] = "verify_error"]
  /\ sock' = [sock EXCEPT ![tactic[w]] = "closed"]
  /\ UNCHANGED <<mainVars, ctxDone, emitterVars, timeVars, tactic, firstRecv, startedAt>>

\* The chain verifies: the callback, and dialTLS returns the connection.
OnSuccess(w) ==
  /\ Step(w, "verify", "send_conn")
  /\ stat' = [stat EXCEPT ![tactic[w]] = "success"]
  /\ UNCHANGED <<mainVars, ctxDone, emitterVars, timeVars, tactic, sock, history>>

----------------------------------------------------------------------------
Dial(w) ==
  \/ WaitReady(w) \/ TimerFires(w) \/ WaitCancelled(w) \/ OnStarting(w)
  \/ TCPConnect(w) \/ TCPConnectFails(w) \/ OnTCPConnectError(w)
  \/ TLSHandshake(w) \/ TLSHandshakeFails(w) \/ OnTLSHandshakeError(w)
  \/ OnTLSVerifyError(w) \/ OnSuccess(w)

Worker(w) == Receive(w) \/ ReceiveEOF(w) \/ Dial(w) \/ Collect(w) \/ Join(w)

Terminated == main = "returned" /\ UNCHANGED vars

Next ==
  \/ BadEndpoint \/ SpawnWorkers \/ Return
  \/ CloseEmitter \/ CallerCancels \/ Tick
  \/ \E w \in Workers : Worker(w)
  \/ Terminated

Spec == Init /\ [][Next]_vars

\* The Go scheduler runs every goroutine that can run; policies finish; a TCP
\* connect and a TLS handshake end because netxlite gives each a timeout.
UntimedFairness ==
  /\ WF_vars(BadEndpoint \/ SpawnWorkers \/ Return)
  /\ WF_vars(CloseEmitter)
  /\ \A w \in Workers : WF_vars(Worker(w))

\* Time may stop: what happens then needs no timer to fire.
UntimedSpec == Spec /\ UntimedFairness
TimePasses == WF_vars(Tick)

----------------------------------------------------------------------------
(* Properties.                                                             *)

WorkerStates ==
  {"new", "read", "received", "waiting", "starting", "connect", "tcp_failed", "handshake",
   "handshake_failed", "verify", "send_conn", "send_error", "join", "done"}

\* The type of the state of one dial.
TypeOK ==
  /\ main \in {"start", "collect", "returned"}
  /\ ctxDone \in BOOLEAN
  /\ emitted \in 0..MaxTactics /\ closed \in BOOLEAN
  /\ now \in Nat /\ t0 \in Nat \union {NoTime}
  /\ pc \in [Workers -> WorkerStates]
  /\ tactic \in [Workers -> 0..MaxTactics]
  /\ sock \in [Tactics -> {"none", "tcp", "tls", "closed"}]
  /\ connv \in Seq(Tactics) /\ errorv \in SUBSET Tactics /\ numJoined \in Nat
  /\ conn \in 0..MaxTactics
  /\ err \in {"nil", "bad_endpoint", "joined_errors", "dns_no_answer"}
  /\ stat \in [Tactics -> {"none", "started", "tcp_error", "tcp_interrupt", "tls_error",
                           "tls_interrupt", "verify_error", "success"}]
  /\ cause \in [Tactics -> {"none", "network", "context"}]
  /\ firstRecv \in Nat \union {NoTime}
  /\ startedAt \in [Tactics -> Nat \union {NoTime}]

\* When DialTLSContext has returned, the only connection still open is the one
\* it returned: whatever the workers had established when the winner was found,
\* or established afterwards, has been closed.
NoConnLeak ==
  main = "returned" => \A t \in Tactics : sock[t] \in {"tcp", "tls"} <=> (t = conn)

\* When DialTLSContext has returned, no goroutine of the dial is left, and the
\* tactics channel has been drained to its end, so that the goroutines of the
\* policies that feed it can end as well.
NoGoroutineLeak ==
  main = "returned" /\ err # "bad_endpoint" => closed /\ \A w \in Workers : pc[w] = "done"

\* The returned value agrees with what happened to the tactics: an error means
\* that no tactic was reported as successful, no_answer that there was none, and
\* every tactic taken from the policy has its result collected exactly once.
ResultAgrees ==
  main = "returned" /\ err # "bad_endpoint" =>
    /\ (conn # 0) <=> (err = "nil")
    /\ (conn # 0) <=> (\E t \in Tactics : stat[t] = "success")
    /\ conn # 0 => stat[conn] = "success"
    /\ err = "dns_no_answer" <=> emitted = 0
    /\ {connv[i] : i \in DOMAIN connv} \union errorv = 1..emitted
    /\ {connv[i] : i \in DOMAIN connv} \intersect errorv = {}
    /\ \A i, j \in DOMAIN connv : connv[i] = connv[j] => i = j

\* A tactic whose dial the context interrupted is never reported to the stats as
\* a failure: the callbacks "MUST NOT consider the tactic failed".
InterruptIsNotFailure ==
  \A t \in Tactics :
    cause[t] = "context" => stat[t] \notin {"tcp_error", "tls_error", "verify_error"}

\* Attempts are spaced from the moment the first tactic reached a worker, however
\* long the policy took to come up with it.
AttemptsAreSpaced ==
  \A t \in Tactics :
    startedAt[t] # NoTime => startedAt[t] >= firstRecv + InitialDelay(t)

\* If time passes, a dial returns, whatever the network and the policy do.  Once
\* there is a winner, or the caller gives up, it does so even if time stops: without
\* waiting for the delays of the tactics still to come.
ReturnsInTime ==
  /\ TimePasses => <>(main = "returned")
  /\ ctxDone ~> (main = "returned")

\* DialTLSContext keeps the promise of DialPromise: losing and late connections
\* are closed before it returns, and it does nothing after it has returned.
OpenConns == {t \in Tactics : sock[t] \in {"tcp", "tls"}}
UsedConns == {t \in Tactics : sock[t] # "none"}
Promise == INSTANCE DialPromise WITH
  Conns <- Tactics,
  pending <- main # "returned",
  open <- OpenConns,
  used <- UsedConns,
  result <- IF conn = 0 THEN {} ELSE {conn}
KeepsPromise == Promise!Spec
=============================================================================
