# TLA+ specifications of the OONI Probe engine

This directory models the parts of the engine (`pkg/` of this repository) in which
goroutines, timers, cancellation and persistent state meet, checks the models with TLC
and proves the central results with TLAPS. `PROJECT.json` is the index: which definition
stands for which lines of code, which run checks which property, and the hazards the
properties are aimed at.

## 1. Inventory

The engine is what the OONI Probe applications embed. A *session* finds out where it is
and which backend to use, an *experiment* measures inputs and a *submitter* sends the
measurements to the backend. All communication with the backend goes through the
*engine network* (`pkg/enginenetx`), which must work where the direct path is blocked.

| component | state | operations | hard behaviour |
|---|---|---|---|
| HTTPS dialer (`enginenetx/httpsdialer.go`, `happyeyeballs.go`) | 16 workers, tactics channel, collector and joiner channels, zero time, cancellable context | `DialTLSContext`, `worker`, `dialTLS`, `httpsDialerTacticWaitReady`, `httpsDialerReduceResult` | late and losing connections, goroutines blocked on unbuffered channels, cancellation racing success |
| dialing policies (`mixpolicy.go`, `dnspolicy.go`, `testhelperspolicy.go`, `bridgespolicy.go`, `userpolicy.go`, `statspolicy.go`, `stream.go`, `filter.go`) | one goroutine and one channel per policy | `LookupTactics` of each policy, the three filters | order must not depend on goroutine speed; nobody looks at the context, so the consumer must drain |
| dialing statistics (`statsmanager.go`) | container under a mutex, trim goroutine, file in the key-value store | `OnStarting`, `OnTCPConnectError`, `OnTLSHandshakeError`, `OnTLSVerifyError`, `OnSuccess`, `trim`, `Close`, `newStatsManager` | prune under a running attempt, crash before Close, stale or edited file |
| engine network (`network.go`) | transport, resolver, statistics | `NewNetwork`, `newHTTPSDialerPolicy`, `Close` | order of closing, dials that outlive `Close` |
| session resolver (`pkg/engineresolver`) | scores in the key-value store, cache of child resolvers, `sync.Once` | `LookupHost`, `CloseIdleConnections` | read-modify-write of scores by concurrent lookups, cancellation blamed on resolvers |
| HTTP API client (`pkg/httpclientx`) | loop of `Map`, a goroutine per endpoint, ticker, watchdog context | `Run`, `Map`, `transact`, `OverlappedReduce` | stale ticks, results after the first success, blocking writes |
| session (`engine/session.go`) | mutex, memoised backend and location, tunnel, temporary directory | `CheckIn`, `FetchTorTargets`, `FetchOpenVPNConfig`, `MaybeLookup...`, `Close` | a mutex taken several times by one operation and held during a request, values read outside it |
| probe services (`pkg/probeservices`) | state file (account, token), report channel | `TryAll`, `SelectBest`, `MaybeRegister`, `MaybeLogin`, `OpenReport`, `SubmitMeasurement`, `Submitter.Submit` | read-modify-write over a network call, lost replies, partial failure of a submission |
| OONI Run (`pkg/oonirun`), experiment (`engine/experiment.go`), `cmd/oonireport` | cache of accepted descriptors, position in nettests and inputs, report file | `v2MeasureHTTPS`, `V2MeasureDescriptor`, `InputProcessor.Run`, `submitAll` | overlapping runs and crashes over the cache; measurement, submission and saving fail independently |
| DNS over UDP, parallel resolver (`pkg/netxlite`), trace (`pkg/measurexlite`) | socket ownership, bounded buffers | `RoundTrip`, `ownConnAndSendRecvLoop`, `LookupHost`, `On...` callbacks, `DelayedDNSResponseWithTimeout` | the socket outlives the call; full buffers; a timeout racing a late reply |
| Web Connectivity LTE (`experiment/webconnectivitylte`) | task tree under one `WaitGroup`, priority selector of each hop, DNS cache, redirect budget | `Measurer.Run`, `DNSResolvers.Run`, `Control.Run`, `CleartextFlow.Run`, `SecureFlow.Run`, `permissionToFetch`, `selector` | `Add` racing `Wait`, a grant racing a timeout, flows started late by the control task |
| throttling sampler, pluggable transports, tunnels, test helper, DSL machine, target loading, geolocation, registry, database, key-value store, minipipeline | see `PROJECT.json` | | |

How they interact: an API call is an `Overlapped` run whose calls use the transport of the
engine network; the transport asks the HTTPS dialer for a connection; the dialer reads
tactics from the composed policy, which reads the statistics and asks the session resolver;
each attempt reports to the statistics manager, which ranks the tactics of the next dial.
A run of a link drives experiments through the input processor; what they measure goes to the
collector through the submitter, whose client the session makes. Web Connectivity, the largest
experiment, resolves names through the parallel resolver and DNS over UDP, and records what
happens in traces.

What makes each correct:

* dialer: no connection and no goroutine outlives a dial, except the returned connection;
  the result agrees with the attempts; attempts are spaced; a cancelled attempt does not
  count as a failure; a dial returns, and promptly when it is cancelled;
* policies: the stream is the composition of what each policy documents, whatever the
  scheduling, and all goroutines end;
* statistics: counters add up, pruning drops what it should, a saved file comes back;
* HTTP client: one result per endpoint, the first success wins, calls are paced, none begins
  after a success;
* resolver: every supported resolver is considered exactly once, an error means that all
  failed, cancellation does not spoil the scores;
* Web Connectivity: nothing is analysed before every task has ended, a page is fetched once by
  the connection with the best claim, and nothing is left running;
* DNS over UDP: a socket has one owner and is closed once, late replies are complete up to a
  point and in order, the saved queries explain the result;
* OONI Run: only what the user accepted is run, a report holds measurements of one kind, what
  is acknowledged is stored and what is measured is saved;
* session and probe services: account and token in the state file belong together, a login
  lasts until something undoes it, all clients use the best backend, every call returns.

## 2. Modules

| module | models | role |
|---|---|---|
| `HappyEyeballs` | `happyeyeballs.go` | the delay schedule, in units of the base delay |
| `HTTPSDialer` | one `DialTLSContext` | workers, collector loop, clock, caller, callbacks |
| `DialPromise` | - | abstract specification: what a dial promises its caller about connections |
| `HTTPSDialer_proofs` | - | proofs about `HTTPSDialer` and that it implements `DialPromise` |
| `TacticStreams` | comments and types of the policies | reference: the promised stream as a function of what the sources offer |
| `TacticsPolicy` | one `LookupTactics` of the policy of `network.go` | a stage per goroutine, a slot per channel |
| `StatsSort` | the sort of `statsmanager.go` | the comparator with `sort.SliceStable`'s insertion sort |
| `StatsManager` | `statsmanager.go` over several runs of the process | callbacks, trim, Close, crash, load |
| `DialingPolicies_proofs` | - | proofs about `TacticsPolicy` and `StatsManager` |
| `Overlapped` | one `Overlapped.Run` | loop, goroutines, ticker, watchdog |
| `Overlapped_proofs` | - | proofs about `Overlapped` |
| `EngineResolver` | `pkg/engineresolver` | concurrent lookups over scores and cache |
| `EngineResolver_proofs` | - | proofs about `EngineResolver`, its merge and its sort included |
| `ConnPriority` | the pure part of `priority.go` | which request has highest priority, which one is granted |
| `WebConnectivity` | one `Measurer.Run` | a hop of the redirect chain has a `DNSResolvers` task, a selector and a flow per address; the control task; the WaitGroup; timers in ticks of 500 ms |
| `WebConnectivity_proofs` | - | proofs about `WebConnectivity` |
| `DNSOverUDP` | one `lookupHostUDP` | the wrapped resolver's answers without a query, two round trips, the two reader goroutines that outlive them, the two DNS buffers of the trace, the wait for late replies |
| `DNSOverUDP_proofs` | - | proofs about `DNSOverUDP` |
| `OONIRun` | `oonirun` v2, `probeservices/collector.go`, `cmd/oonireport` | overlapping runs of a link, the collector and the uploader |
| `OONIRun_proofs` | - | proofs about `OONIRun` |
| `BenchSelect` | `benchselect.go` | choice of the backend as operators, with the reference `IsBest` |
| `Session` | `engine/session.go`, registration and login of `probeservices` | callers that go through the steps of their operations |
| `Session_proofs` | - | proofs about the state file |
| `MC...` | - | values of constants for TLC |

Conventions. A channel without buffer makes a send and its receive one step; a goroutine
blocked in a send keeps its item visible (`pc[w] = "send_conn"`, `pc[e] = "sending"`,
`slot[s]`). A section under a mutex is one step. What is read before and used after a
blocking operation is two steps: the failure of a connect and the callback that reads
`ctx.Err()` are separate, and so are the read of the scores by `LookupHost` and the deferred
write. The network is an outcome chosen freely; an operation with a context can fail
because of it only when it is done, and may also succeed then. Variables whose comment
says *history* record what a property needs and are read by no guard.
Definitions whose comment begins with "A mutant" are variants that a plausible
mistake would give; they are not used by any action, and serve to show that each
property can fail.

Composition. `HTTPSDialer` takes the stream of tactics as an environment that emits up to
`MaxTactics` distinct positions and then closes; `TacticsPolicy` shows what that stream
is, that it has no duplicates, that position *n* has the delay of *n*, and that it ends if
it is drained. `HTTPSDialer` in turn shows that the workers drain it (`NoGoroutineLeak`)
and what callbacks the statistics get; `StatsManager` takes the callbacks from any number
of dials.

`WebConnectivity` takes a lookup as a set of addresses and the task that waits for late
replies as one step; `DNSOverUDP` details the UDP lookup and this task, down to the sockets.
`Session` ends where a client is made; `OONIRun` starts from a client and treats its requests
as done, refused or done with the reply lost. `BenchSelect` is the choice `Session` makes.

What these modules abstract:

* `EngineResolver`. The list that `readstatedefault` sorts is the file, without the entries of
  resolvers that are no longer supported, followed by the makers it lacks. `sort.SliceStable` is
  an insertion sort on so short a list and its comparison holds of equal scores too, so that
  the place of an entry is one more than the number of entries with a greater score, or with the
  same score and a later position. A file that could not be read is empty; one that was read is
  what some version of the program wrote, and lists no URL twice (`ResolverAssumption`).
* `WebConnectivity`. The three resolvers answer any of the sets in `Answers`; the order in which
  the code receives them is kept. The flows that may fetch and those that only do a handshake
  (`plain`, a set of hops with addresses: TLS for an http URL) are told apart, because only the former ask the selector. The
  flows of one task start in one step: a `WaitGroup.Add` comes before each, and the task holds
  the group meanwhile. `permissionToFetch`'s 10 ms are less than a tick: the send may time out
  at any moment. The test keys are not part of the state, nor is the fundamental failure that
  a task may record there: `Run` finalises them in any case before it looks at it, and only a
  context that was done when `Wait` returned ends a measurement without. A flow whose SNI or
  request cannot be made ends as one whose connection failed. `hasty` records that a timer ran out while a goroutine could have run; it is
  read by `SomeoneFetches` only.
* `TacticsPolicy`. An entry of the user's list may be nil: `userPolicyRemoveNilEntries` is
  `UserTactics`, and a list of nil entries counts as none. A domain without an entry is the
  empty list.
* `DNSOverUDP`. A domain is a name, an IP address, which `ResolverShortCircuitIPAddr` answers
  with itself, or something `idnax.ToASCII` fails on: the last two send nothing and leave no
  query. A datagram has addresses, has none, or is not a reply. The five seconds of the
  deadline and the half second of the wait pass at any time, and a socket may have an error
  at any time (`SocketFails` stands for it and for the deadline). `MaxReplies` bounds datagrams.
* `OONIRun`. Each run is a process of its own. A report is its number at the collector; the
  fields `NewReportTemplate` takes identify the experiment instance (its start time is one of
  them). `Submitter.Submit` uses the open report or opens a new one, and posts in a step of
  its own (`"post"`), which checks nothing: that the report is the measurement's is the
  property. A saved measurement is a whole line: a failed save leaves none, where the code
  could leave a part of one, on which a later `oonireport` panics; `NextLinePanics` has the
  panic. `readLines` ignores the error of its scanner, so the uploader may read only the
  first lines of the file (`ReadLines`). The report file is enabled. `Fault` bounds crashes and
  failures together. `SubmitMeasurement` cannot fail to build the URL, which `OpenReport` has
  parsed before.
* `Session`. A caller does one operation, at any time. A section under the mutex is two steps,
  because the network is used inside; the check-in takes the mutex twice more to read the
  location (`ReadLocation`), unless the caller has configured it (`Configured`). A context that
  is done fails a call before it asks for the mutex (`Cancelled`), also when what it wants is
  known. `selected` stands for the test helpers too, which are set with it. A failed read of the key-value store is an empty state, as
  `StateFile.Get` makes it. A request that the server carried out although the caller saw an
  error changes nothing that any caller can see, and is not told apart.

## 3. Runs

Nine runs pass; three show that the code differs from what a comment or a document says of it.
Every property of a passing run has at least one mutant of the model that violates it. Type
invariants (`TypeOK`, in `StatsManager` `StatsTypeOK`) are stated in every module; section 5 says for which they are proved.

### HTTPS dialer
* `HTTPSDialer` (2 workers, 2 tactics, up to one tick before the first; the delays are 0 and 1):
  a worker may handle both tactics or each worker one, so that a success and a failure
  can come late. `NoGoroutineLeak`, `ResultAgrees`, `InterruptIsNotFailure`,
  `AttemptsAreSpaced` hold, and `KeepsPromise`, the refinement of `DialPromise`, where a
  connection is a tactic whose socket is open. `ReturnsInTime`: a dial returns if time passes,
  and after a success or a cancellation it returns although time stands still. The safety
  properties are proved for any number of workers and tactics (section 5), so that the run
  can be small.

### Policies
* `TacticsPolicy`: all combinations of the source lists of `MCTacticsPolicy` (empty,
  duplicates across sources, test helper or not, user policy or not, proxy, factors 0 to
  2) under every interleaving, with a cancellation at any time. `StreamIsReference`,
  `UserPolicyExcludes` and `PipelineEnds` hold. The factor of the code is 3; with lists of
  up to three tactics the factors 1 and 2 exercise full, partial and exhausted batches.
  The reference is what the comments of the policies, and DESIGN.md where it lists them
  (131-152), say of each. DESIGN.md contradicts this list where it discusses bridges
  (539-541): "we try bridge based strategies after we have tried all the DNS based
  strategies". With the factor 3 of `network.go` and four addresses from the DNS, the stream
  is three addresses, up to three bridges, then the fourth address. That sentence seems
  to be left from the linear policy before the mixers (150-152), and does not hold of this code.

### Statistics
* `StatsManager` (3 tactics over 2 endpoints, room for one entry per endpoint, concurrent
  attempts, a week of two ticks, one restart): `CountersBalance`, `DropsOnlyOldOrExcess`,
  `ReloadIsFaithful` and `CloseReturns` hold. One entry per endpoint makes a prune drop a
  record after two starts; two ticks make records expire.
* `StatsManager_order` (violated): DESIGN.md says that pruning keeps the best entries in the
  order "by decreasing success rate; then by decreasing number of successes; then by
  decreasing last update time". The comparator returns true when *any* of the three is
  greater, so that a prune drops a record with the better success rate.

### HTTP API client
* `Overlapped` (3 endpoints, interval 2, watchdog 5): `AllCollected`,
  `FirstSuccessWins`, `OverlapIsPaced`, `NoCallAfterSuccess` hold. The watchdog expires
  before the third interval, so that the cases of a timeout with one, two and three calls
  in flight all happen. So does `ReturnsInTime`: if time passes `Run` returns, where a call has
  to end only once its context is done (the watchdog is what makes `Run` return), and after a
  success it returns even if time stops.

### Session resolver
* `EngineResolver` (2 concurrent lookups, 4 resolvers, one of which cannot be made
  and one that the proxy skips together with the system one, two sets of first scores,
  with and without a file that has a removed resolver and a tie): `EachResolverOnce`,
  `ErrorMeansAllFailed`, `CancelBlamesAtMostOne`, `WinnerOutranksLosers` and `LookupReturns`
  hold. Four resolvers are one more than `maybeConfusion` reaches.

Scores are decimal fractions in units of 1/1000: the moving average with weight 0.9 shifts
the digits, so that three digits tell apart every history of up to three samples.

### Web Connectivity
* `WebConnectivity` (an http URL that may redirect once to https, two addresses of which the
  system resolver finds the first or none, UDP the second, and the test helper both, so that
  there are late flows when the system resolver found nothing; the selector collects for one
  tick, flows wait for two, as 500 ms and a second). `WaitGroupBalance`, `JoinedBeforeFinalize`
  and `AtMostOneFetch` hold however late a goroutine is; `SomeoneFetches` holds when none is
  late; `EventuallyJoins` holds, and includes the selectors, which no WaitGroup counts.
* `WebConnectivity_priority` (violated; three addresses, one from each resolver): the comment
  of `priority.go` announces an order of four priorities. When no connection of the highest
  one asks, the first request is granted, whatever its priority.
* `WebConnectivity_late` (violated): `Finalize` "must be called from the measurer after all the
  tasks have completed", but the task that waits for late replies is added to the WaitGroup
  after its parent was given the result, and the parent and all flows may end before.

### DNS over UDP
* `DNSOverUDP` (three datagrams for the A query, two for AAAA, a buffer of one late reply):
  `OneOwner`, `LateRepliesFollowAnswer`, `QueriesExplainResult` and `EverythingEnds` hold. With
  one reply as the answer and two late ones a buffer of one is full before anybody reads it, so
  that the reader gives up; the second query competes for the same buffer. The real sizes are
  8 and 8; a DNS lookup buffer of two is the least that two queries need.

### OONI Run and submission
* `OONIRun` (two overlapping runs of one link, a second version of the descriptor with three
  nettests, one of them without a name, two faults): `RunsOnlyAccepted`,
  `ReportsAreHomogeneous`, `AcknowledgedIsStored` and `SavesAllItMeasured` hold. Two runs are
  the least that write the cache over each other's; two faults let a lost reply be followed by
  a failure to open the next report, or a crash.

### Session
* `Session` (two callers, each of the three operations, an onion service and two services of
  each other type with two durations, two expirations, the four state files an earlier process can
  leave): `StateIsOneAccount`, `LoggedInUnlessUndone`, `SelectsTheBest` and `EveryCallReturns`
  hold. That a caller's login can be undone by another caller that writes an older view
  of the state file is what the code does; `LoggedInUnlessUndone` says that nothing else
  undoes it.

## 4. Fairness

* Weak fairness of each goroutine: the Go scheduler runs what can run. In `HTTPSDialer` it
  also stands for the end of a TCP connect and a TLS handshake, to which `netxlite` gives
  timeouts of their own, and of the policy, whose only wait besides the consumer is the
  DNS lookup, bounded by the resolver's timeouts.
* In `Overlapped` a call has no timeout of its own: fairness makes it end only when the
  context is done (`RunInterrupted`), never otherwise (`RunFunc`).
* In `EngineResolver` a lookup of a child ends because of the timeout of 4 seconds that
  `timeLimitedLookup` gives it. In `StatsManager` nothing makes the trim ticker fire: only
  the exit of the goroutine and the steps of Close are fair.
* `WebConnectivity`: every goroutine, and the clock. Lookups, connects, handshakes and round
  trips end because `netxlite` and the flows give each a timeout.
* `DNSOverUDP`: every goroutine, the deadline of the socket and the half second of the wait;
  datagrams may stay away for ever.
* `Session`: a call that was made goes on, requests end. The mutex is granted with strong
  fairness, because a Go mutex in starvation mode is handed to the waiter that has waited
  longest; a caller need not call anything.
* `OONIRun` has safety properties only.
* `TacticsPolicy` assumes that some goroutine that can run does; each has finitely many
  steps to take, so that this is enough.
* `UntimedSpec` has no fairness of the clock: what holds under it needs no timer. The
  properties that need time to pass say so (`TimePasses`).

## 5. Proofs

`HTTPSDialer_proofs`, for every finite nonempty set of workers, every number of tactics and
every idle time (assumptions `WorkersAssumption`, `MaxTacticsAssumption`,
`MaxIdleAssumption`, `NoTimeAssumption`):

* the inductive invariant `IInv` is `TypeOK` and: `Phases` (which states workers are in
  before, during and after the collector loop), `Ownership` (a tactic is handled by one worker
  only), `Accounting` (the tactics taken so far are those being handled and those in the
  result lists, each in one place), `WorkerLedger` (the state of a worker says what socket
  its tactic has), `ResultLedger` (collected connections are open until the return, collected
  errors have none), `JoinCount` (`numJoined` counts the workers that are done) and
  `Finished` (the properties of a dial that has returned). `NoConnLeak` alone is not
  inductive: it needs to know, at the return, that every socket ever opened is in a result
  list, which is what ownership and accounting say, and that no worker is still busy, which
  is the join count;
* from it: `TypeCorrect`, `NoConnLeakAlways`, `NoGoroutineLeakAlways`, `ResultAgreesAlways`;
* `Implements`: `Spec => KeepsPromise`, step by step: connect opens, the error paths close,
  `Return` is a return of one connection with the losers closed or an error return with
  nothing open, everything else stutters;
* `InterruptIsNotFailureAlways` with the invariant `Blame` (a failure caused by the
  context implies that the context is done, and it stays so until the callback reads it);
* `AttemptsAreSpacedAlways` with the invariant `Spacing` (the zero time is never before the
  first reception, and a worker that is about to start has waited from it); `DelayIncreases`.

`Overlapped_proofs`, for every number of endpoints, *zero included* (which no run
explores), every interval and every watchdog timeout: `IInv` is `TypeOK`, `Goroutines`
(which endpoints have a goroutine), `Ledger` (the results are exactly the goroutines that
are done, each once), `Pace` (calls in flight and the tick in the channel are covered by
elapsed intervals, plus one for the call that the loop has just started), `SuccessSeen` and
`Finished`. From it `TypeCorrect`, `AllCollectedAlways`, `FirstSuccessWinsAlways`,
`OverlapIsPacedAlways` and the action property `NoCallAfterSuccessAlways`. `OverlapIsPaced`
is not inductive: a tick left in the channel is a call that may be started later without any
time passing, and must be counted already.

`EngineResolver_proofs`, for any makers, any file (assumption `ResolverAssumption`), any number
of concurrent calls and any scale of the scores that is a multiple of ten:

* reading the state (`MergedURLs`, `PlacesAreAllTaken`, `ReadStateDefaultIsFair`,
  `MaybeConfusionIsFair`): the merged list has each supported resolver once; being placed ahead
  is a strict total order, so that `Place` is injective, and an injection between finite sets
  of the same size is onto: the sorted list is a permutation, and so is the swapped one;
* `IInv` is `TypeOK`, a file without duplicates and, for each call, `Complete` (its list),
  `Located` (where the loop stands), `Tallied` (what failed is among the usable resolvers
  that the loop has passed, and is all of them if the context is not done), `Scored` (what failed
  has at most a tenth of the scale, what answered at least nine tenths) and `Blamed` (the
  context is blamed only once it is done, and no lookup begins after that).
  `ErrorMeansAllFailed` needs `Tallied` and `Complete`: at the end of the loop all
  that was passed is all that is supported. `WinnerOutranksLosers` needs `Complete` too: if a
  resolver could be listed twice, its second entry might have kept a high score;
* from it: `TypeCorrect`, `EachResolverOnceAlways`, `ErrorMeansAllFailedAlways`,
  `CancelBlamesAtMostOneAlways`, `WinnerOutranksLosersAlways`.

`WebConnectivity_proofs`, for any finite set of addresses, any number of redirects, any answers
of the resolvers and the test helper, and any two timeouts of which the selector's is the shorter
(`ExtraTime < RecvTimeout`: 500 ms and one second in `priority.go`). `IInv` is `TypeOK` and:

* `Started`, `Asked`, `Chain`: the order in which a hop's tasks start, which flows can have a
  request at the selector, and that the control task adds only addresses that have no flow yet.
  Without `Chain` an `Add` for a flow that exists already would not be excluded, and
  `WaitGroupBalance`, the equality of a counter and the number of running tasks, would not be
  inductive; `JoinedBeforeFinalize` then follows, because `Wait` returns at zero and only a task
  that is running can start another;
* `Granted`: a selector gives one permission, as its last step. It implies `AtMostOneFetch`;
* `Left` and `Timely`: as long as no timer has overtaken a goroutine that could run, a flow
  that a selector has collected still has more time left than the selector, so the granted one
  is still waiting. This gives `SomeoneFetches`, and is where `ExtraTime < RecvTimeout` is needed.

`DNSOverUDP_proofs`, for any number of datagrams and any size of the buffers (two entries at
least in that of the queries). `IInv` is `TypeOK` and `Owned` (who may use and close the socket,
by where `RoundTrip` and the reader are), `Answered`, `Numbered` (there is a number *m* such that
the replies seen so far are 1 to *m*: the answer, the late replies that were posted, the one
in the reader's hands; and what follows is in the receive queue), `Posted` and `Recorded` (which
entries are in the buffer and in the test keys, given how far the two queries are). The properties
speak of the end; *m* is what makes them inductive. From it: `TypeCorrect`, `OneOwnerAlways`,
`LateRepliesFollowAnswerAlways`, `QueriesExplainResultAlways`, which also covers the domains
without a query.

`OONIRun_proofs`, for any number of runs, versions, nettests, inputs and faults. `IInv` is
`Types`, `Accepted` (what is in the cache, and every copy of it, was accepted), `Collected` (a
channel is a report that the collector knows, a report holds what its template says, and while
a post is under way the channel is a report of that measurement),
`Acknowledged` (at each step, what a process believes to be submitted is stored) and `Saved`
(what a run measured is what it saved and the measurement at hand, and its position is beyond
all that it saved). From it: `RunsOnlyAcceptedAlways`, `ReportsAreHomogeneousAlways`,
`AcknowledgedIsStoredAlways`, `SavesAllItMeasuredAlways`.

`Session_proofs`, for any list of services and any answers, any number of callers, operations
and expired tokens. `IInv` is `Types`, `Copies` (the file *and every caller's copy* are
consistent with the server: this is what keeps an old copy harmless when it is written back),
`Progress` (where a caller is says whether its copy has credentials) and `Undisturbed` (a
caller that nobody disturbed has a valid token, first in its copy, then in the file). From it:
`TypeCorrect`, `StateIsOneAccountAlways`, `LoggedInUnlessUndoneAlways`. `SelectsTheBestAlways`
rests on lemmas about the loops of `BenchSelect`: the list of a type has its services once and
in order (`OnlyTypeLists`), only one candidate of `TryAll` can work when no https service does
(`TryAllFallbacks`), and `SelectBest` finds the fastest candidate (`BestOfIsFastest`).

`DialingPolicies_proofs` has the two halves of the dialing policies.

* The pipeline, for any inputs that satisfy `PolicyAssumption`: any sequences of tactics, any
  factor of the mixers and any shuffles of the SNIs, at least as many as there are tactics to
  extend. `IInv` is `TypeOK`, `Carries` (what has gone through the channel of a stage is a prefix
  of the stage's stream, and all of it once the channel is closed), `Started`, and for each
  kind of stage where it is in its own loop: `Extending`, `Mixing` (what a mixer has taken from
  either side is what the rounds so far ask for), `Choosing`, `Filtering`. The streams of `TacticStreams` are
  defined position by position, and the lemmas `NextOfPrimary` and `NextOfFallback` say which
  position a mixer is about to fill. From it: `PolicyTypeCorrect`, `StreamIsReferenceAlways`,
  `UserPolicyExcludesAlways`.
* The statistics, for any set of tactics, any finite set of concurrent attempts, any limit of
  entries and any number of starts, restarts and ticks. `StatsIInv` is `StatsTypes`,
  `NoneWhenDown`, `Absent` (a tactic without a record has no attempt that will report to it,
  unless it is orphaned: otherwise the record that the next start makes would be wrong from its
  first day) and `CountersBalance` itself; hence `CountersBalanceAlways`.
* What pruning keeps: the comparator of `StatsSort` is not an order, so the result of the
  sort is not known, but the sort loses no record and repeats none (`SortStatsEnumerates`), and
  neither do the loops that accept records, whatever the order in which Go iterates over the map
  (`PruneEndpointKeeps`). With the invariant `Files` (records are those of their tactics, and a file
  that nobody edited has no malformed record and no endpoint with too many) this gives the
  action properties `DropsOnlyOldOrExcessAlways` and `ReloadIsFaithfulAlways`. The argument uses of
  `sort.SliceStable` only that it permutes its input, so that it also covers lists of more than
  20 records, for which Go does not insert but merges.

Loops of the code are recursive functions of the number of iterations, `f[k \in 0..n]`. That such
a function exists and has the values that the loop computes is shown in both modules by the
least number for which it fails (`LoopInduction`, `LoopResults`, `LoopSolved`), which is an instance of a
theorem about well-founded relations that has no operator as a parameter; the provers could not
use the library's induction theorems.

Only model-checked:

* liveness (`ReturnsInTime`, `CloseReturns`, `PipelineEnds`, `LookupReturns`,
  `EventuallyJoins`, `EverythingEnds`, `EveryCallReturns`), which rests on fairness and `ENABLED`;
* the type invariants of `OONIRun` and `StatsManager` (`StatsTypeOK`) as far as they bound the
  counters of the run; `Types` and `StatsTypes` have what the proofs need.

Every invariant and every action property that a passing run checks is also proved.

`NoConnLeak` and the type invariants are proved and in no run: `KeepsPromise` says the same of
connections, step by step.

## 6. Not modelled, and the plan

The engine is some 80,000 lines in about 680 files, of which the modules stand for the part in
which concurrency, failure and persistent state meet. Left out for good, because a state machine
has nothing to add to them:

* data and declarations: the certificate bundle (`netxlite/certifi.go`), the types of
  `pkg/model`, mocks, the experiment registry, bridge and test helper lists;
* parsing and formatting (JSON, XML, gzip, URLs, DNS messages), archival formats, logging, byte
  counting, the histograms of error strings;
* TLS itself and certificate chains, QUIC, tunnels and other external processes: outcomes;
* the analysis of measurements (`minipipeline`, `webconnectivityqa`): pure functions whose
  correctness is that of their heuristics;
* SQL (`pkg/database`), the command line tools other than `oonireport`;
* the legacy libraries (`pkg/legacy`), tutorials, and test environments (`netemx`);
* the other experiments, each a sequence or a fan-out of network operations joined by a
  `WaitGroup` and the parsing of their outcome.

Of modelled components, left out: `NewSession` and `Close`, the report that `engine.experiment`
keeps for callers that open it themselves, OONI Run v1, the buffers of the trace other than
DNS. The filter of the dialing policies writes the delay of a user's tactic through a pointer
that concurrent dials share; all of them write the same value, as the position in the user's
list is fixed, and the model of one dial does not show it.

To do, in this order:

1. `EngineNetwork`: concurrent dials, the policy and the statistics manager composed:
   tactics that a dial learns are offered to the next, `Network.Close` while dials are
   running. Abstract specification: an endpoint for which some tactic works is reached.
2. `ThrottlingSampler`, `PTX`, `DSLVM`, `TargetLoading`.

## 7. Running

    tlc -config HTTPSDialer.cfg HTTPSDialer
    tlapm HTTPSDialer_proofs.tla

Each entry of `runs` in `PROJECT.json` gives the module and the configuration. `CHECK_DEADLOCK
FALSE` is set where the system may stop: a process that is down for good, and lookups, runs and
callers that have all returned.
