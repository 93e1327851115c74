--------------------------- MODULE WebConnectivity ---------------------------
(***************************************************************************)
(* The goroutines of one Web Connectivity LTE measurement                   *)
(* (pkg/experiment/webconnectivitylte): Measurer.Run and its WaitGroup, one *)
(* DNSResolvers task for each hop of the redirect chain, the flows it starts *)
(* for each address, the control task that asks the test helper for more    *)
(* addresses, and the selector that permits one flow of a hop to fetch.      *)
(*                                                                         *)
(* A tick is 500 ms.  Time may pass while a goroutine that could run is not *)
(* scheduled; hasty remembers that it did, so that what depends on the      *)
(* timeouts being long enough can be stated apart from what never does.     *)
(*                                                                         *)
(* What the tasks add to the test keys is left out, and so is the error      *)
(* fundamentalFailure among them: nothing reads it before Run, which has     *)
(* finalized the test keys by then, returns it.                             *)
(***************************************************************************)
EXTENDS Integers, FiniteSets, Sequences, ConnPriority

CONSTANTS
  Addr,          \* the IP addresses
  Domain,        \* the domains of the URLs
  MaxRedirects,  \* NewNumRedirects(10)
  InputURLs,     \* the URLs to measure: a kind of URL and a domain
  RedirectURLs,  \* the URLs a redirect may lead to
  ExtraTime,     \* ticks the selector collects requests for
  RecvTimeout,   \* ticks a flow waits for the answer of the selector
  Answers,       \* for each resolver, the sets of addresses it may return
  THAnswers      \* the sets of addresses the test helper may return

\* The kinds of URL startCleartextFlows and startSecureFlows tell apart: an http
\* URL may name a port, and then there is no port to measure TLS on.
Scheme == {"http", "http_port", "https"}

ASSUME WebConnectivityAssumption ==
  /\ IsFiniteSet(Addr)
  /\ InputURLs \cup RedirectURLs \subseteq [scheme : Scheme, domain : Domain]
  /\ MaxRedirects \in Nat
  /\ ExtraTime \in Nat /\ RecvTimeout \in Nat /\ ExtraTime < RecvTimeout
  /\ Answers \in [Source -> SUBSET SUBSET Addr]
  /\ THAnswers \subseteq SUBSET Addr

\* The hops of the chain, and one more that must never be started.
Hop == 0 .. MaxRedirects + 1

VARIABLES
  main,         \* Measurer.Run
  ctx,          \* its context: live, canceled by the caller, or by the return
  wg,           \* the WaitGroup's counter
  dns,          \* program counter of DNSResolvers.Run, for each hop
  url,          \* scheme and domain of the hop's URL
  cache,        \* DNSCache: the entries of a domain, or no entries
  flags,        \* DNSEntry.Flags of each address of the hop ({}: not an entry)
  late,         \* the goroutine of lookupHostUDP, then waitForLateReplies
  ctrl,         \* Control.Run
  sel,          \* prioritySelector.selector of each hop
  requests,     \* the requests it collected, in order
  selTimer,     \* what is left of extraTime
  resp,         \* the buffered answer channel of each flow
  flow,         \* the flows that may fetch
  flowTimer,    \* what is left of the flow's second
  plain,        \* the TLS flows that run beside the cleartext ones
  redirects,    \* NumRedirects.count
  hasty         \* a timer overtook a goroutine that could run

measurerVars == <<main, ctx>>
dnsVars == <<dns, url, cache, flags, late>>
selVars == <<sel, requests, selTimer, resp>>
flowVars == <<flow, flowTimer, plain, redirects>>
vars == <<measurerVars, wg, dnsVars, ctrl, selVars, flowVars, hasty>>

NoEntries == [a \in Addr |-> {}]
NotCached == [a \in Addr |-> {"not found"}]

Ended == {"failed", "denied", "fetched"}
Running(pc) == pc \notin ({"off"} \cup Ended)

TypeOK ==
  /\ main \in {"start", "wait", "invalid", "canceled", "finalized"}
  /\ ctx \in {"live", "canceled", "returned"}
  /\ wg \in Int
  /\ dns \in [Hop -> {"off", "cache", "system", "udp", "https", "whoami",
                      "flows", "control", "done"}]
  /\ url \in [Hop -> InputURLs \cup RedirectURLs]
  /\ cache \in [Domain -> [Addr -> SUBSET Source] \cup {NotCached}]
  /\ flags \in [Hop -> [Addr -> SUBSET Source]]
  /\ late \in [Hop -> {"off", "lookup", "add", "wait", "done"}]
  /\ ctrl \in {"none", "off", "run", "done"}
  /\ sel \in [Hop -> {"off", "first", "collect", "done"}]
  /\ requests \in [Hop -> Seq(Addr)]
  /\ selTimer \in [Hop -> 0 .. ExtraTime]
  /\ resp \in [Hop -> [Addr -> {"empty", "yes", "no"}]]
  /\ flow \in [Hop -> [Addr -> {"off", "connect", "ask", "wait", "fetch"} \cup Ended]]
  /\ flowTimer \in [Hop -> [Addr -> 0 .. RecvTimeout]]
  /\ plain \subseteq Hop \X Addr
  /\ redirects \in Int
  /\ hasty \in BOOLEAN

-----------------------------------------------------------------------------
\* Measurer.Run.  ctrl is "none" when the session has no test helper.

Init ==
  /\ main = "start" /\ ctx = "live"
  /\ wg = 0
  /\ dns = [h \in Hop |-> "off"]
  /\ \E u \in InputURLs : url = [h \in Hop |-> u]
  /\ cache = [d \in Domain |-> NotCached]
  /\ flags = [h \in Hop |-> NoEntries]
  /\ late = [h \in Hop |-> "off"]
  /\ ctrl \in {"none", "off"}
  /\ sel = [h \in Hop |-> "off"]
  /\ requests = [h \in Hop |-> <<>>]
  /\ selTimer = [h \in Hop |-> 0]
  /\ resp = [h \in Hop |-> [a \in Addr |-> "empty"]]
  /\ flow = [h \in Hop |-> [a \in Addr |-> "off"]]
  /\ flowTimer = [h \in Hop |-> [a \in Addr |-> 0]]
  /\ plain = {}
  /\ redirects = MaxRedirects
  /\ hasty = FALSE

\* Up to resos.Start(ctx); an invalid input ends the measurement here.
StartMeasurement ==
  /\ main = "start"
  /\ \/ /\ main' = "invalid" /\ ctx' = "returned"
        /\ UNCHANGED <<wg, dns>>
     \/ /\ main' = "wait"
        /\ wg' = wg + 1
        /\ dns' = [dns EXCEPT ![0] = "cache"]
        /\ UNCHANGED ctx
  /\ UNCHANGED <<url, cache, flags, late, ctrl, selVars, flowVars, hasty>>

\* From wg.Wait() to the return, which cancels the context.  Unless the caller has
\* cancelled it before, the test keys are finalized, whatever Run returns then.
FinishMeasurement ==
  /\ main = "wait" /\ wg = 0
  /\ main' = IF ctx = "canceled" THEN "canceled" ELSE "finalized"
  /\ ctx' = IF ctx = "live" THEN "returned" ELSE ctx
  /\ UNCHANGED <<wg, dnsVars, ctrl, selVars, flowVars, hasty>>

\* The caller of the measurement cancels the context.
Cancel ==
  /\ main = "wait" /\ ctx = "live"
  /\ ctx' = "canceled"
  /\ UNCHANGED <<main, wg, dnsVars, ctrl, selVars, flowVars, hasty>>

-----------------------------------------------------------------------------
\* DNSResolvers.Run and run.

\* The cache is asked first; the lookups start when it has no entry.
AskCache(h) ==
  LET entries == cache[url[h].domain]
  IN  /\ dns[h] = "cache"
      /\ IF entries = NotCached
           THEN /\ dns' = [dns EXCEPT ![h] = "system"]
                /\ late' = [late EXCEPT ![h] = "lookup"]
                /\ UNCHANGED flags
           ELSE /\ dns' = [dns EXCEPT ![h] = "flows"]
                /\ flags' = [flags EXCEPT ![h] = entries]
                /\ UNCHANGED late
      /\ UNCHANGED <<measurerVars, wg, url, cache, ctrl, selVars, flowVars, hasty>>

\* merged[addr].Flags |= source, for what the resolver answered.
Merge(h, source, addrs) ==
  flags' = [flags EXCEPT ![h] =
              [a \in Addr |-> @[a] \cup (IF a \in addrs THEN {source} ELSE {})]]

ReceiveSystem(h) ==
  /\ dns[h] = "system"
  /\ \E addrs \in Answers["system"] : Merge(h, "system", addrs)
  /\ dns' = [dns EXCEPT ![h] = "udp"]
  /\ UNCHANGED <<measurerVars, wg, url, cache, late, ctrl, selVars, flowVars, hasty>>

\* The rendezvous on udpOut: lookupHostUDP goes on on its own after it.
ReceiveUDP(h) ==
  /\ dns[h] = "udp" /\ late[h] = "lookup"
  /\ \E addrs \in Answers["udp"] : Merge(h, "udp", addrs)
  /\ dns' = [dns EXCEPT ![h] = "https"]
  /\ late' = [late EXCEPT ![h] = "add"]
  /\ UNCHANGED <<measurerVars, wg, url, cache, ctrl, selVars, flowVars, hasty>>

ReceiveHTTPS(h) ==
  /\ dns[h] = "https"
  /\ \E addrs \in Answers["https"] : Merge(h, "https", addrs)
  /\ dns' = [dns EXCEPT ![h] = "whoami"]
  /\ UNCHANGED <<measurerVars, wg, url, cache, late, ctrl, selVars, flowVars, hasty>>

\* The whoami lookups only add to the test keys; then the cache is set.
ReceiveWhoami(h) ==
  /\ dns[h] = "whoami"
  /\ cache' = [cache EXCEPT ![url[h].domain] = flags[h]]
  /\ dns' = [dns EXCEPT ![h] = "flows"]
  /\ UNCHANGED <<measurerVars, wg, url, flags, late, ctrl, selVars, flowVars, hasty>>

\* The addresses that get a TLS flow without a selector as well.
PlainAddrs(h, addrs) == IF url[h].scheme = "http" THEN addrs ELSE {}

\* A mutant: flows without a selector are not counted.
M_FlowCount(h, addrs) == Cardinality(addrs)

\* How much the flows add to the WaitGroup.
FlowCount(h, addrs) == Cardinality(addrs) + Cardinality(PlainAddrs(h, addrs))

\* startCleartextFlows and startSecureFlows for a set of addresses: WaitGroup.Add
\* for each flow, then its goroutine.  With an http URL the TLS flows have no
\* selector, and there is none when the URL names a port.
StartFlows(h, addrs) ==
  /\ flow' = [flow EXCEPT ![h] =
                [a \in Addr |-> IF a \in addrs THEN "connect" ELSE @[a]]]
  /\ plain' = plain \cup ({h} \X PlainAddrs(h, addrs))

Entries(h) == {a \in Addr : flags[h][a] # {}}

\* newPrioritySelector starts the selector; then the flows start.
StartEndpoints(h) ==
  /\ dns[h] = "flows"
  /\ dns' = [dns EXCEPT ![h] = "control"]
  /\ sel' = [sel EXCEPT ![h] = "first"]
  /\ StartFlows(h, Entries(h))
  /\ wg' = wg + FlowCount(h, Entries(h))
  /\ UNCHANGED <<measurerVars, url, cache, flags, late, ctrl,
                 requests, selTimer, resp, flowTimer, redirects, hasty>>

\* maybeStartControlFlow; then Run returns and the task is done.
StartControl(h) ==
  /\ dns[h] = "control"
  /\ dns' = [dns EXCEPT ![h] = "done"]
  /\ IF h = 0 /\ ctrl = "off"
       THEN ctrl' = "run" /\ wg' = wg + 1 - 1
       ELSE ctrl' = ctrl /\ wg' = wg - 1
  /\ UNCHANGED <<measurerVars, url, cache, flags, late, selVars, flowVars, hasty>>

\* Start of the goroutine that waits for late replies, after udpOut was received.
AddLateReplies(h) ==
  /\ late[h] = "add"
  /\ wg' = wg + 1
  /\ late' = [late EXCEPT ![h] = "wait"]
  /\ UNCHANGED <<measurerVars, dns, url, cache, flags, ctrl, selVars, flowVars, hasty>>

\* DelayedDNSResponseWithTimeout returns within half a second.
WaitForLateReplies(h) ==
  /\ late[h] = "wait"
  /\ wg' = wg - 1
  /\ late' = [late EXCEPT ![h] = "done"]
  /\ UNCHANGED <<measurerVars, dns, url, cache, flags, ctrl, selVars, flowVars, hasty>>

-----------------------------------------------------------------------------
\* Control.Run.

\* The test helper failed or the context was canceled.
ControlFails ==
  /\ ctrl = "run"
  /\ ctrl' = "done"
  /\ wg' = wg - 1
  /\ UNCHANGED <<measurerVars, dnsVars, selVars, flowVars, hasty>>

\* A mutant: a control task that does not count the flows it starts.
M_ControlSucceeds ==
  /\ ctrl = "run"
  /\ ctrl' = "done"
  /\ \E addrs \in THAnswers : StartFlows(0, addrs \ Entries(0))
  /\ wg' = wg - 1
  /\ UNCHANGED <<measurerVars, dnsVars, selVars, flowTimer, redirects, hasty>>

\* maybeStartExtraMeasurements starts flows for the addresses only the test
\* helper knows, with the selector of the first hop; then the task is done.
ControlSucceeds ==
  /\ ctrl = "run"
  /\ ctrl' = "done"
  /\ \E addrs \in THAnswers :
       LET thOnly == addrs \ Entries(0)
       IN  /\ StartFlows(0, thOnly)
           /\ wg' = wg + FlowCount(0, thOnly) - 1
  /\ UNCHANGED <<measurerVars, dnsVars, selVars, flowTimer, redirects, hasty>>

-----------------------------------------------------------------------------
\* prioritySelector.selector.

Receiving(h) == sel[h] \in {"first", "collect"}

\* findHighestPriority, then the answers to all the collected requests.
Expire(h) ==
  /\ sel[h] = "collect" /\ selTimer[h] = 0
  /\ sel' = [sel EXCEPT ![h] = "done"]
  /\ LET highPrio == FindHighestPriority(flags[h], requests[h])
     IN  resp' = [resp EXCEPT ![h] =
                    [a \in Addr |->
                       CASE a = highPrio -> "yes"
                         [] a # highPrio /\ Contains(requests[h], a) -> "no"
                         [] OTHER -> @[a]]]
  /\ requests' = [requests EXCEPT ![h] = <<>>]
  /\ UNCHANGED <<measurerVars, wg, dnsVars, ctrl, selTimer, flowVars, hasty>>

\* A mutant: the first request is awaited whatever happens to the context.
M_SelectorCanceled(h) ==
  /\ sel[h] = "collect" /\ ctx # "live"
  /\ sel' = [sel EXCEPT ![h] = "done"]
  /\ requests' = [requests EXCEPT ![h] = <<>>]
  /\ selTimer' = [selTimer EXCEPT ![h] = 0]
  /\ UNCHANGED <<measurerVars, wg, dnsVars, ctrl, resp, flowVars, hasty>>

\* The selector returns without an answer when the context is done.
SelectorCanceled(h) ==
  /\ Receiving(h) /\ ctx # "live"
  /\ sel' = [sel EXCEPT ![h] = "done"]
  /\ requests' = [requests EXCEPT ![h] = <<>>]
  /\ selTimer' = [selTimer EXCEPT ![h] = 0]
  /\ UNCHANGED <<measurerVars, wg, dnsVars, ctrl, resp, flowVars, hasty>>

-----------------------------------------------------------------------------
\* CleartextFlow.Run and SecureFlow.Run.

\* The deferred Done.
FlowEnds(h, a, how) ==
  /\ flow' = [flow EXCEPT ![h][a] = how]
  /\ flowTimer' = [flowTimer EXCEPT ![h][a] = 0]
  /\ wg' = wg - 1

\* allowedToConnect, the TCP connect and, for a secure flow, the SNI, without which it
\* ends as well, and the handshake.
Connect(h, a) ==
  /\ flow[h][a] = "connect"
  /\ \/ FlowEnds(h, a, "failed")
     \/ /\ flow' = [flow EXCEPT ![h][a] = "ask"]
        /\ UNCHANGED <<wg, flowTimer>>
  /\ UNCHANGED <<measurerVars, dnsVars, ctrl, selVars, plain, redirects, hasty>>

\* A flow without selector stops after the connection, which may have failed.
ConnectPlain(h, a) ==
  /\ <<h, a>> \in plain
  /\ plain' = plain \ {<<h, a>>}
  /\ wg' = wg - 1
  /\ UNCHANGED <<measurerVars, dnsVars, ctrl, selVars, flow, flowTimer, redirects, hasty>>

\* A mutant: a selector that stays when it has granted the first request.
M_SendRequest(h, a) ==
  /\ flow[h][a] = "ask" /\ Receiving(h)
  /\ flow' = [flow EXCEPT ![h][a] = "wait"]
  /\ flowTimer' = [flowTimer EXCEPT ![h][a] = RecvTimeout]
  /\ IF sel[h] = "first" /\ IsHighestPriority(flags[h], a)
       THEN /\ resp' = [resp EXCEPT ![h][a] = "yes"]
            /\ UNCHANGED <<requests, selTimer, sel>>
       ELSE /\ requests' = [requests EXCEPT ![h] = Append(@, a)]
            /\ sel' = [sel EXCEPT ![h] = "collect"]
            /\ selTimer' = IF sel[h] = "first" THEN [selTimer EXCEPT ![h] = ExtraTime]
                                               ELSE selTimer
            /\ UNCHANGED resp
  /\ UNCHANGED <<measurerVars, wg, dnsVars, ctrl, plain, redirects, hasty>>

\* permissionToFetch: the request is sent to a selector that receives, which
\* answers at once when the first request is highest priority.
SendRequest(h, a) ==
  /\ flow[h][a] = "ask" /\ Receiving(h)
  /\ flow' = [flow EXCEPT ![h][a] = "wait"]
  /\ flowTimer' = [flowTimer EXCEPT ![h][a] = RecvTimeout]
  /\ IF sel[h] = "first" /\ IsHighestPriority(flags[h], a)
       THEN /\ resp' = [resp EXCEPT ![h][a] = "yes"]
            /\ sel' = [sel EXCEPT ![h] = "done"]
            /\ UNCHANGED <<requests, selTimer>>
       ELSE /\ requests' = [requests EXCEPT ![h] = Append(@, a)]
            /\ sel' = [sel EXCEPT ![h] = "collect"]
            /\ selTimer' = IF sel[h] = "first" THEN [selTimer EXCEPT ![h] = ExtraTime]
                                               ELSE selTimer
            /\ UNCHANGED resp
  /\ UNCHANGED <<measurerVars, wg, dnsVars, ctrl, plain, redirects, hasty>>

\* Ten milliseconds without a selector that receives: permission is denied.
SendTimesOut(h, a) ==
  /\ flow[h][a] = "ask"
  /\ FlowEnds(h, a, "denied")
  /\ hasty' = (hasty \/ Receiving(h))
  /\ UNCHANGED <<measurerVars, dnsVars, ctrl, selVars, plain, redirects>>

ReceiveAnswer(h, a) ==
  /\ flow[h][a] = "wait"
  /\ \/ /\ resp[h][a] = "yes"
        /\ flow' = [flow EXCEPT ![h][a] = "fetch"]
        /\ flowTimer' = [flowTimer EXCEPT ![h][a] = 0]
        /\ UNCHANGED wg
     \/ /\ resp[h][a] = "no"
        /\ FlowEnds(h, a, "denied")
  /\ UNCHANGED <<measurerVars, dnsVars, ctrl, selVars, plain, redirects, hasty>>

\* A mutant: the wait for an answer ends before the selector has had its time.
M_ReceiveTimesOut(h, a) ==
  /\ flow[h][a] = "wait"
  /\ FlowEnds(h, a, "denied")
  /\ UNCHANGED <<measurerVars, dnsVars, ctrl, selVars, plain, redirects, hasty>>

ReceiveTimesOut(h, a) ==
  /\ flow[h][a] = "wait" /\ flowTimer[h][a] = 0
  /\ FlowEnds(h, a, "denied")
  /\ UNCHANGED <<measurerVars, dnsVars, ctrl, selVars, plain, redirects, hasty>>

\* The page was fetched, or the request could not be built or the transaction failed.
Fetch(h, a) ==
  /\ flow[h][a] = "fetch"
  /\ FlowEnds(h, a, "fetched")
  /\ UNCHANGED <<measurerVars, dnsVars, ctrl, selVars, plain, redirects, hasty>>

\* A valid redirect: CanFollowOneMoreRedirect, then DNSResolvers.Start of the
\* next hop (WaitGroup.Add) before this flow is done.
Redirect(h, a) ==
  /\ flow[h][a] = "fetch" /\ h <= MaxRedirects
  /\ flow' = [flow EXCEPT ![h][a] = "fetched"]
  /\ redirects' = redirects - 1
  /\ IF redirects' >= 0
       THEN /\ dns' = [dns EXCEPT ![h + 1] = "cache"]
            /\ \E u \in RedirectURLs : url' = [url EXCEPT ![h + 1] = u]
            /\ wg' = wg + 1 - 1
       ELSE dns' = dns /\ url' = url /\ wg' = wg - 1
  /\ UNCHANGED <<measurerVars, cache, flags, late, ctrl, selVars,
                 flowTimer, plain, hasty>>

-----------------------------------------------------------------------------
\* Time.

\* A goroutine of a selector or of a flow that asks it could run now.
Due ==
  \E h \in Hop :
    \/ sel[h] = "collect" /\ selTimer[h] = 0
    \/ Receiving(h) /\ ctx # "live"
    \/ \E a \in Addr :
         \/ flow[h][a] = "ask"
         \/ flow[h][a] = "wait" /\ (resp[h][a] # "empty" \/ flowTimer[h][a] = 0)

TimerRuns(h) ==
  \/ sel[h] = "collect" /\ selTimer[h] > 0
  \/ \E a \in Addr : flow[h][a] = "wait" /\ flowTimer[h][a] > 0

\* What is left of a timer a tick later.
Less(n) == IF n = 0 THEN 0 ELSE n - 1

Tick ==
  /\ \E h \in Hop : TimerRuns(h)
  /\ selTimer' = [h \in Hop |-> Less(selTimer[h])]
  /\ flowTimer' = [h \in Hop |-> [a \in Addr |-> Less(flowTimer[h][a])]]
  /\ hasty' = (hasty \/ Due)
  /\ UNCHANGED <<measurerVars, wg, dnsVars, ctrl, sel, requests, resp,
                 flow, plain, redirects>>

-----------------------------------------------------------------------------
DNSStep(h) ==
  \/ AskCache(h)
  \/ ReceiveSystem(h)
  \/ ReceiveUDP(h)
  \/ ReceiveHTTPS(h)
  \/ ReceiveWhoami(h)
  \/ StartEndpoints(h)
  \/ StartControl(h)

LateStep(h) == AddLateReplies(h) \/ WaitForLateReplies(h)

SelectorStep(h) == Expire(h) \/ SelectorCanceled(h)

FlowStep(h, a) ==
  \/ Connect(h, a)
  \/ SendRequest(h, a)
  \/ SendTimesOut(h, a)
  \/ ReceiveAnswer(h, a)
  \/ ReceiveTimesOut(h, a)
  \/ Fetch(h, a)
  \/ Redirect(h, a)

\* The measurement has returned; goroutines it left behind may still end.
Returned ==
  /\ main \notin {"start", "wait"}
  /\ UNCHANGED vars

Next ==
  \/ StartMeasurement
  \/ FinishMeasurement
  \/ Cancel
  \/ ControlFails
  \/ ControlSucceeds
  \/ \E h \in Hop : DNSStep(h) \/ LateStep(h) \/ SelectorStep(h)
  \/ \E h \in Hop, a \in Addr : FlowStep(h, a) \/ ConnectPlain(h, a)
  \/ Tick
  \/ Returned

Spec == Init /\ [][Next]_vars

\* Every goroutine is scheduled and time passes; lookups, connections and round
\* trips end because each has a timeout of its own.
FairSpec ==
  /\ Spec
  /\ WF_vars(StartMeasurement) /\ WF_vars(FinishMeasurement)
  /\ WF_vars(ControlFails \/ ControlSucceeds)
  /\ WF_vars(Tick)
  /\ \A h \in Hop :
       WF_vars(DNSStep(h)) /\ WF_vars(LateStep(h)) /\ WF_vars(SelectorStep(h))
  /\ \A h \in Hop, a \in Addr : WF_vars(FlowStep(h, a)) /\ WF_vars(ConnectPlain(h, a))

-----------------------------------------------------------------------------
\* Properties.

\* The WaitGroup counts the tasks that hold it (Add before the goroutine, Done
\* when it ends): it is never negative, and never zero while one of them runs.
WaitGroupBalance ==
  wg = Cardinality({h \in Hop : dns[h] \notin {"off", "done"}})
       + Cardinality({h \in Hop : late[h] = "wait"})
       + (IF ctrl = "run" THEN 1 ELSE 0)
       + Cardinality({p \in Hop \X Addr : Running(flow[p[1]][p[2]])})
       + Cardinality(plain)

\* When Measurer.Run analyses the test keys, no flow, no control task and no
\* DNSResolvers task is left that could still append to them, the flows that
\* redirects and the test helper started included.
JoinedBeforeFinalize ==
  main \in {"canceled", "finalized"} =>
    /\ \A h \in Hop : dns[h] \in {"off", "done"}
    /\ ctrl # "run"
    /\ plain = {} /\ \A h \in Hop, a \in Addr : ~Running(flow[h][a])

\* "This function must be called from the measurer after all the tasks have
\* completed" (Finalize in testkeys.go): the task that waits for late DNS replies
\* has ended as well.
LateRepliesJoined ==
  main = "finalized" => \A h \in Hop : late[h] \in {"off", "done"}

\* There is a single fetch for each hop, whatever the timers do: also when a
\* granted flow had given up, or the test helper's flows come to a selector that
\* has already returned.
AtMostOneFetch ==
  \A h \in Hop : \A a, b \in Addr :
    flow[h][a] \in {"fetch", "fetched"} /\ flow[h][b] \in {"fetch", "fetched"} => a = b

\* When every goroutine runs within the margin of the timers (half a second) and
\* the caller does not cancel, a hop with an established connection that asked for
\* permission is fetched: the flow that was granted permission is still waiting,
\* and no flow is turned away before some flow was granted.
SomeoneFetches ==
  \A h \in Hop :
    (/\ ~hasty /\ ctx # "canceled"
     /\ \A a \in Addr : ~Running(flow[h][a])
     /\ \E a \in Addr : flow[h][a] = "denied")
    => \E a \in Addr : flow[h][a] = "fetched"

\* "by giving higher priority to the system resolver, then to the UDP resolver,
\* then to the DoH resolver, then to the TH" (priority.go): among the requests the
\* selector answers, the granted one comes from the first of these.
PriorityOrder ==
  \A h \in Hop : \A a, b \in Addr :
    resp[h][a] = "yes" /\ resp[h][b] = "no" => Rank(flags[h], a) <= Rank(flags[h], b)

\* The measurement returns and leaves no selector behind: it waits for tasks that
\* all end, and the context it cancels ends the selectors nobody asked.
EventuallyJoins ==
  <>[](main \notin {"start", "wait"} /\ \A h \in Hop : sel[h] \in {"off", "done"})
=============================================================================
