---------------------------- MODULE StatsManager ----------------------------
(***************************************************************************)
(* The statsManager of pkg/enginenetx/statsmanager.go over several runs of *)
(* the process: the callbacks that the dialers invoke on it concurrently,  *)
(* the goroutine that trims the statistics, Close, which saves them in the *)
(* key-value store, crashes, and the load at the next start. Every         *)
(* callback, and every prune, runs under the mutex and is one step.        *)
(*                                                                         *)
(* The two-level map (domain endpoint, then tactic summary) is a function  *)
(* whose domain is the set of tactics that have a record; EndpointOf gives *)
(* the endpoint of a tactic (its VerifyHostname and port).                 *)
(*                                                                         *)
(* The initial predicate and the specification have the prefix Stats: one  *)
(* module of proofs extends this one and TacticsPolicy, the other half of  *)
(* the dialing policies, which has an Init and a Spec of its own.          *)
(***************************************************************************)
EXTENDS StatsSort

CONSTANTS
  Tactics, EndpointOf,
  Attempts,     \* the dials that may be going on at once
  MaxEntries,   \* const maxEntriesPerDomainEndpoint = 10
  OneWeek,      \* const oneWeek, in clock ticks
  MaxTime,      \* bound: clock ticks
  MaxStarts,    \* bound: calls to OnStarting
  MaxRestarts,  \* bound: restarts of the process
  Reported,     \* bound: the outcomes that attempts may have
  Nil, Unreadable

ASSUME StatsAssumption ==
  /\ MaxEntries \in Nat \ {0} /\ OneWeek \in Nat \ {0}
  /\ Nil \notin Tactics /\ Nil \notin [count : [Counters -> Nat], updated : Nat, tactic : Tactics]
  /\ Reported \subseteq Outcomes
  /\ IsFiniteSet(Attempts)

VARIABLES
  container,  \* mt.container
  disk,       \* the file in the key-value store: a container, or Unreadable
  run,        \* "up", "cancelled", "saved", "closed" (Close), or "down"
  trimmer,    \* the trim goroutine: "loop" or "exited"
  attempt,    \* the tactic each attempt is dialling, or Nil
  now,
  starts, restarts,  \* progress towards the bounds
  base,       \* history: attempts of each record that never ended, at load time
  orphaned,   \* history: tactics whose record was dropped under an attempt
  edited      \* history: the file is not as Close left it

statsVars == <<container, disk, run, trimmer, attempt, now, starts, restarts, base, orphaned, edited>>
processVars == <<run, trimmer>>
bounds == <<now, starts, restarts>>
history == <<base, orphaned, edited>>

Empty == [t \in {} |-> Nil]
\* The attempts counted in a record that have not been given an outcome in it.
Unended(r) ==
  r.count["started"] - (r.count["tcp_error"] + r.count["tcp_interrupt"] + r.count["tls_error"]
                        + r.count["tls_interrupt"] + r.count["verify_error"] + r.count["success"])
InFlight(t) == {a \in Attempts : attempt[a] = t}

----------------------------------------------------------------------------
(* Pruning.                                                                *)

\* The records that are not malformed; all others are dropped first.
WellFormed(c) == {t \in DOMAIN c : c[t] # Nil}

\* The acceptance predicate of statsDomainEndpointPruneEntries.
NotOld(r) == now - r.updated < OneWeek

\* A mutant: one entry too few is kept.
CutExcessOffByOne(s) == SubSeq(s, 1, IF Len(s) > MaxEntries THEN MaxEntries - 1 ELSE Len(s))

CutExcess(s) == SubSeq(s, 1, IF Len(s) > MaxEntries THEN MaxEntries ELSE Len(s))

\* statsDomainEndpointPruneEntries: sort the entries that are not malformed, drop
\* the old ones, cut the excess. `order` is the order in which Go happens to
\* iterate over the map; the result is the set of tactics that survive.
PruneEndpoint(c, order, e) ==
  LET input == Accepted(order, {i \in DOMAIN order : EndpointOf[order[i]] = e})
      work == SortStats([i \in DOMAIN input |-> c[input[i]]])
      kept == CutExcess(Accepted(work, {i \in DOMAIN work : NotOld(work[i])}))
  IN  {kept[i].tactic : i \in DOMAIN kept}

\* A mutant: the copy of a record counts as an update of it.
PruneTouches(c, order) ==
  LET kept == {t \in WellFormed(c) : t \in PruneEndpoint(c, order, EndpointOf[t])}
  IN  [t \in kept |-> [c[t] EXCEPT !.updated = now]]

\* statsContainerPruneEntries: a new container with the survivors.
Prune(c, order) ==
  LET kept == {t \in WellFormed(c) : t \in PruneEndpoint(c, order, EndpointOf[t])}
  IN  [t \in kept |-> c[t]]

----------------------------------------------------------------------------
(* The life of a process.                                                  *)

StatsInit ==
  /\ container = Empty /\ disk = Unreadable
  /\ run = "up" /\ trimmer = "loop"
  /\ attempt = [a \in Attempts |-> Nil]
  /\ now = 0 /\ starts = 0 /\ restarts = 0
  /\ base = [t \in Tactics |-> 0] /\ orphaned = {} /\ edited = FALSE

Tick ==
  /\ now < MaxTime
  /\ now' = now + 1
  /\ UNCHANGED <<container, disk, processVars, attempt, starts, restarts, history>>

\* newStatsManager: load and prune the file; an absent or unreadable file, or one
\* with the wrong version, gives an empty container.
NewStatsManager ==
  /\ run = "down" /\ restarts < MaxRestarts
  /\ IF disk = Unreadable
       THEN container' = Empty
       ELSE \E order \in SetToSeqs(WellFormed(disk)) : container' = Prune(disk, order)
  /\ run' = "up" /\ trimmer' = "loop"
  /\ restarts' = restarts + 1
  /\ base' = [t \in Tactics |-> IF t \in DOMAIN container'
                                  THEN Unended(container'[t]) ELSE 0]
  /\ orphaned' = {}
  /\ UNCHANGED <<disk, attempt, now, starts, edited>>

\* The process ends, in an orderly way after Close or not: its memory is gone.
Exit ==
  /\ run # "down"
  /\ run' = "down" /\ trimmer' = "exited"
  /\ container' = Empty
  /\ attempt' = [a \in Attempts |-> Nil]
  /\ base' = [t \in Tactics |-> 0] /\ orphaned' = {}
  /\ UNCHANGED <<disk, bounds, edited>>

\* While the process is down a user may edit, damage or remove the file.
EditFile ==
  /\ run = "down" /\ disk # Unreadable /\ edited' = TRUE
  /\ \/ disk' = Unreadable
     \/ \E t \in DOMAIN disk : disk' = [disk EXCEPT ![t] = Nil]
  /\ UNCHANGED <<container, processVars, attempt, bounds, base, orphaned>>

----------------------------------------------------------------------------
(* The callbacks. They work on mt.container also after Close.              *)

NewRecord(t) == [count |-> [k \in Counters |-> 0], updated |-> 0, tactic |-> t]

\* GetStatsTacticLocked
Found(t) == t \in DOMAIN container

\* Count one more event, and remember when it happened.
Update(t, r, k) == [r EXCEPT !.count[k] = @ + 1, !.updated = now]

OnStarting(a, t) ==
  /\ run # "down" /\ attempt[a] = Nil /\ starts < MaxStarts
  /\ LET r == IF Found(t) THEN container[t] ELSE NewRecord(t)
     IN  container' = [u \in DOMAIN container \union {t} |->
                         IF u = t THEN Update(t, r, "started") ELSE container[u]]
  /\ attempt' = [attempt EXCEPT ![a] = t]
  /\ starts' = starts + 1
  /\ UNCHANGED <<disk, processVars, now, restarts, history>>

\* A mutant: an outcome is recorded as a new start.
OnOutcomeAsStart(a, k) ==
  /\ run # "down" /\ attempt[a] # Nil
  /\ LET t == attempt[a]
     IN  IF Found(t)
           THEN container' = [container EXCEPT ![t] = Update(t, @, "started")]
           ELSE UNCHANGED container
  /\ attempt' = [attempt EXCEPT ![a] = Nil]
  /\ UNCHANGED <<disk, processVars, bounds, history>>

\* OnTCPConnectError, OnTLSHandshakeError (an error, or an interrupt when the
\* context is done), OnTLSVerifyError, OnSuccess: nothing if there is no record.
OnOutcome(a, k) ==
  /\ run # "down" /\ attempt[a] # Nil
  /\ LET t == attempt[a]
     IN  IF Found(t)
           THEN container' = [container EXCEPT ![t] = Update(t, @, k)]
           ELSE UNCHANGED container
  /\ attempt' = [attempt EXCEPT ![a] = Nil]
  /\ UNCHANGED <<disk, processVars, bounds, history>>

----------------------------------------------------------------------------
(* The trim goroutine and Close.                                           *)

\* case <-t.C: replace the container by its pruned copy. The select may take
\* this case also when the context is already cancelled.
Trim ==
  /\ run # "down" /\ trimmer = "loop"
  /\ \E order \in SetToSeqs(WellFormed(container)) : container' = Prune(container, order)
  /\ orphaned' = orphaned \union {t \in DOMAIN container \ DOMAIN container' : InFlight(t) # {}}
  /\ base' = [t \in Tactics |-> IF t \in DOMAIN container' THEN base[t] ELSE 0]
  /\ UNCHANGED <<disk, processVars, attempt, bounds, edited>>

\* A mutant: the goroutine does not watch its context.
TrimNeverExits == FALSE

\* case <-ctx.Done()
TrimExit ==
  /\ run # "down" /\ trimmer = "loop" /\ run # "up"
  /\ trimmer' = "exited"
  /\ UNCHANGED <<container, disk, run, attempt, bounds, history>>

\* Close runs once: cancel the context of the trim goroutine, ...
CloseCancel ==
  /\ run = "up"
  /\ run' = "cancelled"
  /\ UNCHANGED <<container, disk, trimmer, attempt, bounds, history>>

\* ... prune a copy and write it under the mutex (the write may fail), ...
CloseSave ==
  /\ run = "cancelled"
  /\ run' = "saved"
  /\ \/ UNCHANGED <<disk, edited>>
     \/ \E order \in SetToSeqs(WellFormed(container)) : disk' = Prune(container, order) /\ edited' = FALSE
  /\ UNCHANGED <<container, trimmer, attempt, bounds, base, orphaned>>

\* ... and wait for the goroutine.
CloseWait ==
  /\ run = "saved" /\ trimmer = "exited"
  /\ run' = "closed"
  /\ UNCHANGED <<container, disk, trimmer, attempt, bounds, history>>

----------------------------------------------------------------------------
StatsNext ==
  \/ Tick \/ NewStatsManager \/ Exit \/ EditFile
  \/ \E a \in Attempts : \/ \E t \in Tactics : OnStarting(a, t)
                         \/ \E k \in Reported : OnOutcome(a, k)
  \/ Trim \/ TrimExit \/ CloseCancel \/ CloseSave \/ CloseWait

StatsSpec == StatsInit /\ [][StatsNext]_statsVars

\* The goroutines of the process, and the caller of Close, keep running.
Fairness == WF_statsVars(TrimExit) /\ WF_statsVars(CloseSave) /\ WF_statsVars(CloseWait)
FairSpec == StatsSpec /\ Fairness

----------------------------------------------------------------------------
(* Properties.                                                             *)

Records == [count : [Counters -> 0..MaxStarts], updated : 0..MaxTime, tactic : Tactics]

\* The type of the state of the manager and its file.
StatsTypeOK ==
  /\ DOMAIN container \subseteq Tactics /\ \A t \in DOMAIN container : container[t] \in Records
  /\ disk = Unreadable \/ /\ DOMAIN disk \subseteq Tactics
                          /\ \A t \in DOMAIN disk : disk[t] \in Records \union {Nil}
  /\ run \in {"up", "cancelled", "saved", "closed", "down"} /\ trimmer \in {"loop", "exited"}
  /\ attempt \in [Attempts -> Tactics \union {Nil}]
  /\ now \in 0..MaxTime /\ starts \in 0..MaxStarts /\ restarts \in 0..MaxRestarts
  /\ base \in [Tactics -> Int] /\ orphaned \subseteq Tactics /\ edited \in BOOLEAN

\* As long as no prune has dropped a record under a running attempt, the counters
\* of a record add up: what was started and has no outcome is in flight, or never
\* ended because the process that had started it was gone. No interleaving of the
\* callbacks with the trim goroutine and Close loses or repeats an update.
CountersBalance ==
  \A t \in DOMAIN container \ orphaned :
    Unended(container[t]) = base[t] + Cardinality(InFlight(t))

Fresh(r) == now - r.updated < OneWeek

EntriesOf(c, e) == {t \in WellFormed(c) : EndpointOf[t] = e}

\* While the process runs, a record only disappears because it is a week old or
\* because its endpoint has too many; and the endpoint is left full in that case.
DropsOnlyOldOrExcess ==
  [][run # "down" /\ run' # "down" =>
       \A t \in DOMAIN container \ DOMAIN container' :
         LET e == EndpointOf[t]
         IN  Fresh(container[t]) => Cardinality(EntriesOf(container', e)) = MaxEntries]_statsVars

\* What Close saved is what the next process starts from: unless the file was
\* edited, each record comes back as it was, except those that are a week old.
ReloadIsFaithful ==
  [][run = "down" /\ run' = "up" /\ disk # Unreadable /\ ~edited =>
       /\ \A t \in DOMAIN container' : container'[t] = disk[t]
       /\ \A t \in DOMAIN disk : Fresh(disk[t]) => t \in DOMAIN container']_statsVars

\* Close returns: the goroutine it waits for sees the cancelled context.
CloseReturns == (run = "cancelled") ~> (run \in {"closed", "down"})

\* DESIGN.md, "sorts entries and only keeps the top 10 entries": a prune never
\* drops a record and keeps, in the same endpoint, one that the documented order
\* puts after it.
PruneKeepsTheBest ==
  [][run = "up" /\ run' = "up" =>
       \A t \in DOMAIN container \ DOMAIN container' : \A u \in DOMAIN container' :
         Fresh(container[t]) /\ EndpointOf[t] = EndpointOf[u] =>
           ~DocumentedBefore(container[t], container[u])]_statsVars
=============================================================================
