----------------------------- MODULE Overlapped -----------------------------
(***************************************************************************)
(* One call of Overlapped.Run, pkg/httpclientx/overlapped.go: the loop of  *)
(* Map, one goroutine per endpoint running transact, the ticker, and the   *)
(* context with the watchdog timeout that the first success cancels.       *)
(*                                                                         *)
(* An endpoint is its position 1..NumEndpoints. The output channel is      *)
(* unbuffered: a send and its receive are one step. The channel of the     *)
(* ticker has room for one tick, which stays there when the ticker stops.  *)
(***************************************************************************)
EXTENDS Integers, Sequences, FiniteSets

CONSTANTS
  NumEndpoints,
  ScheduleInterval,
  WatchdogTimeout,
  MaxTime,         \* bound: how long time passes
  NoTime

ASSUME NumEndpointsAssumption == NumEndpoints \in Nat
ASSUME IntervalAssumption == ScheduleInterval \in Nat \ {0}
ASSUME TimesAssumption == WatchdogTimeout \in Nat /\ MaxTime \in Nat /\ NoTime \notin Nat

VARIABLES
  main,       \* where Run is: "loop", "select" or "returned"
  idx,        \* number of endpoints tried so far
  results,    \* the endpoints whose result was collected, in order
  ticking,    \* the ticker has not been stopped
  tick,       \* there is a tick in the channel of the ticker
  ctxDone,    \* the context is done
  pc,         \* the goroutine of each endpoint
  outcome,    \* what RunFunc returned for each endpoint
  index, err, \* what Run returned
  now,
  startedAt   \* history: when each endpoint was started

vars == <<main, idx, results, ticking, tick, ctxDone, pc, outcome, index, err, now, startedAt>>
loopVars == <<main, idx, results, ticking, index, err, startedAt>>

Endpoints == 1..NumEndpoints

Init ==
  /\ main = "loop" /\ idx = 0 /\ results = <<>>
  /\ ticking = TRUE /\ tick = FALSE /\ ctxDone = FALSE
  /\ pc = [e \in Endpoints |-> "new"]
  /\ outcome = [e \in Endpoints |-> "none"]
  /\ index = 0 /\ err = "nil"
  /\ now = 0 /\ startedAt = [e \in Endpoints |-> NoTime]

----------------------------------------------------------------------------
(* Map: the loop, which has two positions, and its select.                 *)

\* A mutant: the loop ends with the first success.
WantsResultsUntilSuccess ==
  Len(results) < NumEndpoints /\ \A i \in DOMAIN results : outcome[results[i]] # "success"

\* The condition of the loop.
WantsResults == Len(results) < NumEndpoints

MoreEndpoints == idx < NumEndpoints

\* There are more endpoints: start a goroutine for the next one.
Spawn ==
  /\ main = "loop" /\ WantsResults /\ MoreEndpoints
  /\ idx' = idx + 1
  /\ pc' = [pc EXCEPT ![idx + 1] = "spawned"]
  /\ startedAt' = [startedAt EXCEPT ![idx + 1] = now]
  /\ main' = "select"
  /\ UNCHANGED <<results, ticking, tick, ctxDone, outcome, index, err, now>>

\* There are no more endpoints: ticker.Stop().
StopTicker ==
  /\ main = "loop" /\ WantsResults /\ ~MoreEndpoints
  /\ ticking' = FALSE
  /\ main' = "select"
  /\ UNCHANGED <<idx, results, tick, ctxDone, pc, outcome, index, err, now, startedAt>>

\* A mutant: a success does not cancel the context.
CancelsOnNothing(e) == FALSE

\* res.Err == nil
CancelsOn(e) == outcome[e] = "success"

\* case res := <-output: keep the result; a success stops the ticker and cancels.
Collect(e) ==
  /\ main = "select" /\ pc[e] = "sending"
  /\ results' = Append(results, e)
  /\ pc' = [pc EXCEPT ![e] = "done"]
  /\ IF CancelsOn(e)
       THEN ticking' = FALSE /\ ctxDone' = TRUE
       ELSE UNCHANGED <<ticking, ctxDone>>
  /\ main' = "loop"
  /\ UNCHANGED <<idx, tick, outcome, index, err, now, startedAt>>

\* A mutant: a received tick is seen again.
TickedTwice ==
  /\ main = "select" /\ tick
  /\ main' = "loop"
  /\ UNCHANGED <<idx, results, ticking, tick, ctxDone, pc, outcome, index, err, now, startedAt>>

\* case <-ticker.C
Ticked ==
  /\ main = "select" /\ tick
  /\ tick' = FALSE
  /\ main' = "loop"
  /\ UNCHANGED <<idx, results, ticking, ctxDone, pc, outcome, index, err, now, startedAt>>

\* A mutant: the reduction only looks at the first result.
FirstSuccessIfFirst ==
  IF results # <<>> /\ outcome[Head(results)] = "success" THEN {Head(results)} ELSE {}

\* OverlappedReduce: the first result without error, if any.
FirstSuccess ==
  {results[i] : i \in {j \in DOMAIN results :
     /\ outcome[results[j]] = "success"
     /\ \A k \in 1..j - 1 : outcome[results[k]] # "success"}}

\* The end of Map, its deferred cancel and Stop, and OverlappedReduce.
Return ==
  /\ main = "loop" /\ ~WantsResults
  /\ IF FirstSuccess # {}
       THEN index' \in FirstSuccess /\ err' = "nil"
       ELSE index' = 0 /\ err' = IF results = <<>> THEN "generic_failure" ELSE "joined_errors"
  /\ ticking' = FALSE /\ ctxDone' = TRUE
  /\ main' = "returned"
  /\ UNCHANGED <<idx, results, tick, pc, outcome, now, startedAt>>

----------------------------------------------------------------------------
(* transact. RunFunc is an HTTP call: it does not start when the context   *)
(* is done, and otherwise may win the race with a cancellation.            *)

Begin(e) ==
  /\ pc[e] = "spawned"
  /\ IF ctxDone
       THEN /\ pc' = [pc EXCEPT ![e] = "sending"]
            /\ outcome' = [outcome EXCEPT ![e] = "canceled"]
       ELSE pc' = [pc EXCEPT ![e] = "running"] /\ UNCHANGED outcome
  /\ UNCHANGED <<loopVars, tick, ctxDone, now>>

Finish(e, result) ==
  /\ pc[e] = "running"
  /\ pc' = [pc EXCEPT ![e] = "sending"]
  /\ outcome' = [outcome EXCEPT ![e] = result]
  /\ UNCHANGED <<loopVars, tick, ctxDone, now>>

RunFunc(e) == Finish(e, "success") \/ Finish(e, "error")

\* RunFunc returns the error of the context.
RunInterrupted(e) == ctxDone /\ Finish(e, "canceled")

----------------------------------------------------------------------------
(* Time and the caller.                                                    *)

\* A mutant: context.WithCancel instead of context.WithTimeout.
NeverExpired(t) == FALSE

\* The watchdog timeout of the context.
Expired(t) == t >= WatchdogTimeout

\* The ticker drops a tick when there is one in its channel already.
Tick ==
  /\ main # "returned" /\ now < MaxTime
  /\ now' = now + 1
  /\ tick' = (tick \/ (ticking /\ now' % ScheduleInterval = 0))
  /\ ctxDone' = (ctxDone \/ Expired(now'))
  /\ UNCHANGED <<loopVars, pc, outcome>>

CallerCancels ==
  /\ main # "returned" /\ ~ctxDone
  /\ ctxDone' = TRUE
  /\ UNCHANGED <<loopVars, tick, pc, outcome, now>>

----------------------------------------------------------------------------
Loop == Spawn \/ StopTicker \/ Ticked \/ Return \/ \E e \in Endpoints : Collect(e)

Transact(e) == Begin(e) \/ RunFunc(e) \/ RunInterrupted(e)

Terminated == main = "returned" /\ UNCHANGED vars

Next == Loop \/ Tick \/ CallerCancels \/ (\E e \in Endpoints : Transact(e)) \/ Terminated

Spec == Init /\ [][Next]_vars

\* Goroutines that can run do run. A call only has to end when its context is
\* done: a server may answer so slowly that, without that, it never ends.
UntimedFairness ==
  /\ WF_vars(Loop)
  /\ \A e \in Endpoints : WF_vars(Begin(e)) /\ WF_vars(RunInterrupted(e))

\* Time may stop: what happens then needs neither the ticker nor the watchdog.
UntimedSpec == Spec /\ UntimedFairness
TimePasses == WF_vars(Tick)

----------------------------------------------------------------------------
(* Properties.                                                             *)

\* The type of the state of one call.
TypeOK ==
  /\ main \in {"loop", "select", "returned"} /\ idx \in 0..NumEndpoints
  /\ results \in Seq(Endpoints)
  /\ ticking \in BOOLEAN /\ tick \in BOOLEAN /\ ctxDone \in BOOLEAN
  /\ pc \in [Endpoints -> {"new", "spawned", "running", "sending", "done"}]
  /\ outcome \in [Endpoints -> {"none", "success", "error", "canceled"}]
  /\ index \in 0..NumEndpoints /\ err \in {"nil", "generic_failure", "joined_errors"}
  /\ now \in Nat /\ startedAt \in [Endpoints -> Nat \union {NoTime}]

\* transact writes to its channel unconditionally, which "REQUIRES that we keep
\* reading": when Run has returned, no goroutine is left, and each endpoint gave
\* exactly one result.
AllCollected ==
  main = "returned" =>
    /\ \A e \in Endpoints : pc[e] = "done" /\ \E i \in DOMAIN results : results[i] = e
    /\ \A i, j \in DOMAIN results : results[i] = results[j] => i = j

\* Run returns an error only when no endpoint succeeded, not even one that did so
\* after the watchdog or the caller interrupted the calls; otherwise the result is
\* that of the first success it collected.
FirstSuccessWins ==
  main = "returned" =>
    /\ (err = "nil") <=> (\E e \in Endpoints : outcome[e] = "success")
    /\ (err = "generic_failure") <=> (NumEndpoints = 0)
    /\ err = "nil" =>
         \E i \in DOMAIN results :
           /\ results[i] = index /\ outcome[index] = "success"
           /\ \A k \in 1..i - 1 : outcome[results[k]] # "success"

InFlight == {e \in Endpoints : pc[e] \in {"spawned", "running", "sending"}}

\* Calls overlap because of elapsed intervals only: there is never more than one
\* call for each interval, also counting a tick that was left in the channel.
OverlapIsPaced == Cardinality(InFlight) <= 1 + now \div ScheduleInterval

Running == {e \in Endpoints : pc[e] = "running"}
Succeeded == \E i \in DOMAIN results : outcome[results[i]] = "success"

\* "we do not waste network resources by performing other attempts": the endpoints
\* that the loop still starts after a success do not get to make their call.
NoCallAfterSuccess == [][Succeeded => Running' \subseteq Running]_vars

\* If time passes, Run returns, even if no server ever answers.  After a success it
\* does so even if time stops: without waiting for a tick or the watchdog.
ReturnsInTime ==
  /\ TimePasses => <>(main = "returned")
  /\ Succeeded ~> (main = "returned")
=============================================================================
