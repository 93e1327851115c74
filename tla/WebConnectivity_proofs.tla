----------------------- MODULE WebConnectivity_proofs -----------------------
(***************************************************************************)
(* Proofs about WebConnectivity: the goroutines of a measurement, for any    *)
(* number of addresses and redirects, any answers of the resolvers and of    *)
(* the test helper, and any timeouts of which the selector's is the shorter. *)
(***************************************************************************)
EXTENDS WebConnectivity, SequenceTheorems, FiniteSetTheorems, WellFoundedInduction, TLAPS

\* The hop's flows and their selector have not been started.
Before(h) == dns[h] \notin {"control", "done"}

\* The tasks of a hop start in order: the lookups, then the selector with the
\* flows, and the wait for late replies between the two.
Started ==
  \A h \in Hop :
    /\ sel[h] = "off" <=> Before(h)
    /\ Before(h) => \A a \in Addr : flow[h][a] = "off" /\ <<h, a>> \notin plain
    /\ dns[h] \in {"off", "cache"} => late[h] = "off"

\* A flow that has not asked has no request at the selector and no answer, and the
\* selector collects only after a first request.
Asked ==
  \A h \in Hop :
    /\ sel[h] = "collect" <=> requests[h] # <<>>
    /\ \A a \in Addr :
         /\ flow[h][a] \in {"off", "connect", "ask"} =>
              resp[h][a] = "empty" /\ ~Contains(requests[h], a)
         /\ sel[h] \in {"off", "first"} => flow[h][a] # "wait"

\* A selector grants one permission, as the last thing it does, and a flow fetches
\* only with a permission.
Granted ==
  \A h \in Hop :
    /\ sel[h] # "done" => \A a \in Addr : resp[h][a] = "empty"
    /\ \A a, b \in Addr : resp[h][a] = "yes" /\ resp[h][b] = "yes" => a = b
    /\ \A a \in Addr : flow[h][a] \in {"fetch", "fetched"} => resp[h][a] = "yes"

\* A hop is reached through a fetch of the hop before it; the test helper's
\* addresses are new because every flow started so far is of an address that the
\* resolvers returned.
Chain ==
  /\ main \in {"start", "invalid"} => \A h \in Hop : dns[h] = "off"
  /\ ctrl = "run" => dns[0] = "done"
  /\ ctrl # "done" =>
       \A a \in Addr : flow[0][a] # "off" \/ <<0, a>> \in plain => a \in Entries(0)
  /\ \A h \in 0 .. MaxRedirects :
       dns[h + 1] # "off" => \E a \in Addr : flow[h][a] = "fetched"

\* A context that was canceled by the return of Run.
Left == ctx = "returned" => main \notin {"start", "wait"}

\* A flow of the hop has been granted permission.
HasGrant(h) == \E a \in Addr : resp[h][a] = "yes"

\* As long as no timer has overtaken a goroutine that could run: the flows a
\* selector has collected outlast it, the granted one waits for the answer, and
\* whoever is turned away has lost to a granted flow.
Timely ==
  ~hasty =>
    \A h \in Hop : \A a \in Addr :
      /\ sel[h] = "collect" /\ Contains(requests[h], a) =>
           flow[h][a] = "wait" /\ flowTimer[h][a] > selTimer[h]
      /\ sel[h] = "collect" /\ flow[h][a] = "wait" => Contains(requests[h], a)
      /\ resp[h][a] = "yes" =>
           \/ flow[h][a] \in {"fetch", "fetched"}
           \/ flow[h][a] = "wait" /\ flowTimer[h][a] > 0
      /\ resp[h][a] = "no" => HasGrant(h)
      /\ ctx = "live" /\ sel[h] = "done" => HasGrant(h)
      /\ ctx # "canceled" /\ flow[h][a] = "denied" => HasGrant(h)

IInv ==
  /\ TypeOK /\ Started /\ Asked /\ Granted /\ Chain /\ Left /\ Timely
  /\ WaitGroupBalance /\ JoinedBeforeFinalize

-----------------------------------------------------------------------------
\* Every set of natural numbers has a least element.
LEMMA LeastElement ==
  ASSUME NEW T \in SUBSET Nat, T # {} PROVE Min(T) \in T
<1>1. PICK x \in T : \A y \in T : ~(<<y, x>> \in OpToRel(<, Nat))
  BY WFMin, NatLessThanWellFounded
<1>2. ASSUME NEW y \in T PROVE x <= y
  <2>1. x \in Nat /\ y \in Nat /\ <<y, x>> \in Nat \X Nat
    OBVIOUS
  <2>2. ~(y < x)
    BY <1>1, <2>1, Zenon DEF OpToRel
  <2> QED
    BY <2>1, <2>2
<1> QED
  BY <1>2 DEF Min

\* The selector grants one of the requests it has collected.
LEMMA GrantsARequest ==
  ASSUME NEW fl, NEW rs \in Seq(Addr), rs # <<>>
  PROVE  /\ FindHighestPriority(fl, rs) \in Addr
         /\ Contains(rs, FindHighestPriority(fl, rs))
<1> DEFINE I == {i \in 1 .. Len(rs) : IsHighestPriority(fl, rs[i])}
           best == SelectInSeq(rs, LAMBDA r : IsHighestPriority(fl, r))
           i == IF best = 0 THEN 1 ELSE best
<1>1. Len(rs) \in Nat \ {0}
  OBVIOUS
<1>2. I # {} => Min(I) \in I
  <2>1. I \in SUBSET Nat
    BY <1>1
  <2> QED
    BY <2>1, LeastElement
<1>3. best = IF I # {} THEN Min(I) ELSE 0
  BY DEF SelectInSeq
<1>4. i \in 1 .. Len(rs)
  BY <1>1, <1>2, <1>3
<1>5. FindHighestPriority(fl, rs) = rs[i]
  BY DEF FindHighestPriority
<1> HIDE DEF i
<1> QED
  BY <1>4, <1>5 DEF Contains

\* The tasks that hold the WaitGroup are finitely many.
LEMMA FiniteTasks ==
  /\ IsFiniteSet(Hop) /\ IsFiniteSet(Hop \X Addr)
  /\ \A S : S \subseteq Hop \/ S \subseteq Hop \X Addr \/ S \subseteq Addr =>
       IsFiniteSet(S) /\ Cardinality(S) \in Nat
<1>1. IsFiniteSet(Hop)
  BY WebConnectivityAssumption, FS_Interval DEF Hop
<1>2. IsFiniteSet(Hop \X Addr)
  BY <1>1, WebConnectivityAssumption, FS_Product
<1> QED
  BY <1>1, <1>2, WebConnectivityAssumption, FS_Subset, FS_CardinalityType

\* Nothing has been started.
LEMMA InitIInv == Init => IInv
<1> SUFFICES ASSUME Init PROVE IInv
  OBVIOUS
<1> USE DEF Init
<1>1. TypeOK
  <2>1. PICK u \in InputURLs : url = [h \in Hop |-> u]
    OBVIOUS
  <2>2. url \in [Hop -> InputURLs \cup RedirectURLs]
    BY <2>1
  <2>3. cache \in [Domain -> [Addr -> SUBSET Source] \cup {NotCached}]
    OBVIOUS
  <2>4. flags \in [Hop -> [Addr -> SUBSET Source]]
    BY DEF NoEntries
  <2>5. selTimer \in [Hop -> 0 .. ExtraTime] /\ flowTimer \in [Hop -> [Addr -> 0 .. RecvTimeout]]
    BY WebConnectivityAssumption
  <2>6. requests \in [Hop -> Seq(Addr)] /\ redirects \in Int
    BY WebConnectivityAssumption
  <2>7. hasty \in BOOLEAN
    BY Zenon
  <2>8. /\ main \in {"start", "wait", "invalid", "canceled", "finalized"}
        /\ ctx \in {"live", "canceled", "returned"} /\ wg \in Int
        /\ ctrl \in {"none", "off", "run", "done"}
        /\ plain \subseteq Hop \X Addr
    OBVIOUS
  <2>9. /\ dns \in [Hop -> {"off", "cache", "system", "udp", "https", "whoami",
                            "flows", "control", "done"}]
        /\ late \in [Hop -> {"off", "lookup", "add", "wait", "done"}]
        /\ sel \in [Hop -> {"off", "first", "collect", "done"}]
        /\ resp \in [Hop -> [Addr -> {"empty", "yes", "no"}]]
        /\ flow \in [Hop -> [Addr -> {"off", "connect", "ask", "wait", "fetch"} \cup Ended]]
    OBVIOUS
  <2> QED
    BY <2>2, <2>3, <2>4, <2>5, <2>6, <2>7, <2>8, <2>9, Zenon DEF TypeOK
<1>2. Started
  BY DEF Started, Before
<1>3. Asked
  BY DEF Asked, Contains
<1>4. Granted
  BY DEF Granted
<1>5. Chain
  BY WebConnectivityAssumption DEF Chain, Hop
<1>6. Left
  BY DEF Left
<1>7. Timely
  BY DEF Timely, HasGrant
<1>8. WaitGroupBalance
  <2>1. /\ {h \in Hop : dns[h] \notin {"off", "done"}} = {}
        /\ {h \in Hop : late[h] = "wait"} = {}
        /\ {p \in Hop \X Addr : Running(flow[p[1]][p[2]])} = {}
    BY DEF Running
  <2> QED
    BY <2>1, FS_EmptySet, 0 + 0 + 0 + 0 + 0 = 0 DEF WaitGroupBalance
<1>9. JoinedBeforeFinalize
  BY DEF JoinedBeforeFinalize
<1> QED
  BY <1>1, <1>2, <1>3, <1>4, <1>5, <1>6, <1>7, <1>8, <1>9 DEF IInv

\* The invariant says what the runs check.
LEMMA IInvImplies == IInv => AtMostOneFetch /\ SomeoneFetches
<1> SUFFICES ASSUME IInv PROVE AtMostOneFetch /\ SomeoneFetches
  OBVIOUS
<1>1. AtMostOneFetch
  BY DEF IInv, Granted, AtMostOneFetch
<1>2. SomeoneFetches
  <2> SUFFICES ASSUME NEW h \in Hop, ~hasty, ctx # "canceled",
                      \A a \in Addr : ~Running(flow[h][a]),
                      NEW b \in Addr, flow[h][b] = "denied"
               PROVE  \E a \in Addr : flow[h][a] = "fetched"
    BY DEF SomeoneFetches
  <2>1. PICK a \in Addr : resp[h][a] = "yes"
    BY DEF IInv, Timely, HasGrant
  <2> QED
    BY <2>1 DEF IInv, Timely, Running, Ended
<1> QED
  BY <1>1, <1>2

-----------------------------------------------------------------------------
\* The next-state relation, one action at a time.
LEMMA NextCases ==
  ASSUME [Next]_vars
  PROVE  \/ StartMeasurement \/ FinishMeasurement \/ Cancel
         \/ ControlFails \/ ControlSucceeds \/ Tick \/ UNCHANGED vars
         \/ \E h \in Hop :
              \/ AskCache(h) \/ ReceiveSystem(h) \/ ReceiveUDP(h) \/ ReceiveHTTPS(h)
              \/ ReceiveWhoami(h) \/ StartEndpoints(h) \/ StartControl(h)
              \/ AddLateReplies(h) \/ WaitForLateReplies(h)
              \/ Expire(h) \/ SelectorCanceled(h)
         \/ \E h \in Hop, a \in Addr :
              \/ Connect(h, a) \/ ConnectPlain(h, a) \/ SendRequest(h, a)
              \/ SendTimesOut(h, a) \/ ReceiveAnswer(h, a) \/ ReceiveTimesOut(h, a)
              \/ Fetch(h, a) \/ Redirect(h, a)
  BY Zenon DEF Next, DNSStep, LateStep, SelectorStep, FlowStep, Returned

\* The answers of the resolvers and of the test helper are sets of addresses.
LEMMA AnswerTypes ==
  /\ \A source \in Source : \A addrs \in Answers[source] : addrs \subseteq Addr
  /\ \A addrs \in THAnswers : addrs \subseteq Addr
  /\ Source = {"system", "udp", "https"}
  BY WebConnectivityAssumption DEF Source

\* What a resolver answered is merged into the entries of its hop.
LEMMA MergeTypes ==
  ASSUME TypeOK, NEW h \in Hop, NEW source \in Source, NEW addrs, Merge(h, source, addrs)
  PROVE  flags' \in [Hop -> [Addr -> SUBSET Source]]
<1> DEFINE G == [a \in Addr |-> flags[h][a] \cup (IF a \in addrs THEN {source} ELSE {})]
<1>1. G \in [Addr -> SUBSET Source]
  BY DEF TypeOK
<1>2. flags' = [flags EXCEPT ![h] = G]
  BY DEF Merge
<1> HIDE DEF G
<1> QED
  BY <1>1, <1>2 DEF TypeOK

\* The flows that are started are of one hop.
LEMMA StartFlowsTypes ==
  ASSUME TypeOK, NEW h \in Hop, NEW addrs \in SUBSET Addr, StartFlows(h, addrs)
  PROVE  /\ flow' \in [Hop -> [Addr -> {"off", "connect", "ask", "wait", "fetch"} \cup Ended]]
         /\ plain' \subseteq Hop \X Addr
         /\ \A k \in Hop, a \in Addr :
              flow'[k][a] = IF k = h /\ a \in addrs THEN "connect" ELSE flow[k][a]
         /\ \A k \in Hop, a \in Addr :
              <<k, a>> \in plain' => <<k, a>> \in plain \/ (k = h /\ a \in addrs)
<1> DEFINE G == [a \in Addr |-> IF a \in addrs THEN "connect" ELSE flow[h][a]]
<1>1. G \in [Addr -> {"off", "connect", "ask", "wait", "fetch"} \cup Ended]
  BY DEF TypeOK
<1>2. flow' = [flow EXCEPT ![h] = G]
  BY DEF StartFlows
<1>3. PlainAddrs(h, addrs) \subseteq addrs
  BY DEF PlainAddrs
<1>4. /\ plain' \subseteq Hop \X Addr
      /\ \A k \in Hop, a \in Addr :
           <<k, a>> \in plain' => <<k, a>> \in plain \/ (k = h /\ a \in addrs)
  BY <1>3 DEF StartFlows, TypeOK
<1>5. \A a \in Addr : G[a] = IF a \in addrs THEN "connect" ELSE flow[h][a]
  OBVIOUS
<1> HIDE DEF G
<1> QED
  BY <1>1, <1>2, <1>4, <1>5 DEF TypeOK

\* A flow that ends is no longer running.
LEMMA FlowEndsTypes ==
  ASSUME TypeOK, NEW h \in Hop, NEW a \in Addr, NEW how \in Ended, FlowEnds(h, a, how)
  PROVE  /\ flow' \in [Hop -> [Addr -> {"off", "connect", "ask", "wait", "fetch"} \cup Ended]]
         /\ flowTimer' \in [Hop -> [Addr -> 0 .. RecvTimeout]]
         /\ wg' \in Int
  BY WebConnectivityAssumption DEF FlowEnds, TypeOK

\* The types.
LEMMA TypeStep == IInv /\ [Next]_vars => TypeOK'
<1> SUFFICES ASSUME TypeOK, Asked, [Next]_vars PROVE TypeOK'
  BY DEF IInv
<1> USE DEF measurerVars, dnsVars, selVars, flowVars
<1>1. CASE StartMeasurement
  BY <1>1 DEF StartMeasurement, TypeOK
<1>2. CASE FinishMeasurement
  BY <1>2 DEF FinishMeasurement, TypeOK
<1>3. CASE Cancel
  BY <1>3 DEF Cancel, TypeOK
<1>4. CASE ControlFails
  BY <1>4 DEF ControlFails, TypeOK
<1>5. CASE ControlSucceeds
  <2>1. PICK addrs \in THAnswers :
          /\ StartFlows(0, addrs \ Entries(0))
          /\ wg' = wg + FlowCount(0, addrs \ Entries(0)) - 1
    BY <1>5 DEF ControlSucceeds
  <2>2. addrs \ Entries(0) \in SUBSET Addr /\ 0 \in Hop
    BY AnswerTypes, WebConnectivityAssumption DEF Hop
  <2>3. FlowCount(0, addrs \ Entries(0)) \in Int
    BY <2>2, FiniteTasks DEF FlowCount, PlainAddrs
  <2> QED
    BY <1>5, <2>1, <2>2, <2>3, StartFlowsTypes DEF ControlSucceeds, TypeOK
<1>6. CASE Tick
  <2>1. \A n \in 0 .. ExtraTime : Less(n) \in 0 .. ExtraTime
    BY WebConnectivityAssumption DEF Less
  <2>2. \A n \in 0 .. RecvTimeout : Less(n) \in 0 .. RecvTimeout
    BY WebConnectivityAssumption DEF Less
  <2>3. /\ selTimer' \in [Hop -> 0 .. ExtraTime]
        /\ flowTimer' \in [Hop -> [Addr -> 0 .. RecvTimeout]]
    BY <1>6, <2>1, <2>2 DEF Tick, TypeOK
  <2>4. hasty' \in BOOLEAN
    BY <1>6, Zenon DEF Tick
  <2> QED
    BY <1>6, <2>3, <2>4 DEF Tick, TypeOK
<1>7. ASSUME NEW h \in Hop, AskCache(h) PROVE TypeOK'
  <2>1. cache[url[h].domain] \in [Addr -> SUBSET Source] \cup {NotCached}
    BY WebConnectivityAssumption DEF TypeOK
  <2> QED
    BY <1>7, <2>1 DEF AskCache, TypeOK
<1>8. ASSUME NEW h \in Hop, ReceiveSystem(h) \/ ReceiveHTTPS(h) PROVE TypeOK'
  <2>1. flags' \in [Hop -> [Addr -> SUBSET Source]]
    <3>1. PICK source \in Source, addrs \in Answers["system"] \cup Answers["https"] :
            Merge(h, source, addrs)
      BY <1>8 DEF ReceiveSystem, ReceiveHTTPS, Source
    <3> QED
      BY <3>1, MergeTypes
  <2>2. dns' \in [Hop -> {"off", "cache", "system", "udp", "https", "whoami", "flows",
                          "control", "done"}]
    <3>1. PICK pc \in {"udp", "whoami"} : dns' = [dns EXCEPT ![h] = pc]
      BY <1>8 DEF ReceiveSystem, ReceiveHTTPS
    <3> QED
      BY <3>1 DEF TypeOK
  <2>3. UNCHANGED <<measurerVars, wg, url, cache, late, ctrl, selVars, flowVars, hasty>>
    BY <1>8 DEF ReceiveSystem, ReceiveHTTPS
  <2> QED
    BY <2>1, <2>2, <2>3 DEF TypeOK
<1>9. ASSUME NEW h \in Hop, ReceiveUDP(h) PROVE TypeOK'
  BY <1>9, MergeTypes, AnswerTypes DEF ReceiveUDP, TypeOK
<1>10. ASSUME NEW h \in Hop, ReceiveWhoami(h) PROVE TypeOK'
  <2>1. cache' \in [Domain -> [Addr -> SUBSET Source] \cup {NotCached}]
    BY <1>10 DEF ReceiveWhoami, TypeOK
  <2> QED
    BY <1>10, <2>1 DEF ReceiveWhoami, TypeOK
<1>11. ASSUME NEW h \in Hop, StartEndpoints(h) PROVE TypeOK'
  <2>1. Entries(h) \in SUBSET Addr
    BY DEF Entries
  <2>2. FlowCount(h, Entries(h)) \in Int
    BY <2>1, FiniteTasks DEF FlowCount, PlainAddrs
  <2> QED
    <3>1. StartFlows(h, Entries(h)) /\ wg' = wg + FlowCount(h, Entries(h))
      BY <1>11 DEF StartEndpoints
    <3>2. /\ flow' \in [Hop -> [Addr -> {"off", "connect", "ask", "wait", "fetch"} \cup Ended]]
          /\ plain' \subseteq Hop \X Addr
      BY <3>1, <2>1, StartFlowsTypes
    <3>3. wg' \in Int
      BY <3>1, <2>2 DEF TypeOK
    <3>4. /\ dns' \in [Hop -> {"off", "cache", "system", "udp", "https", "whoami", "flows",
                               "control", "done"}]
          /\ sel' \in [Hop -> {"off", "first", "collect", "done"}]
      BY <1>11 DEF StartEndpoints, TypeOK
    <3>5. UNCHANGED <<measurerVars, url, cache, flags, late, ctrl, requests, selTimer, resp,
                      flowTimer, redirects, hasty>>
      BY <1>11 DEF StartEndpoints
    <3> QED
      BY <3>2, <3>3, <3>4, <3>5 DEF TypeOK
<1>12. ASSUME NEW h \in Hop, StartControl(h) PROVE TypeOK'
  BY <1>12 DEF StartControl, TypeOK
<1>13. ASSUME NEW h \in Hop, AddLateReplies(h) \/ WaitForLateReplies(h) PROVE TypeOK'
  <2>1. wg' \in Int /\ late' \in [Hop -> {"off", "lookup", "add", "wait", "done"}]
    <3>1. wg \in Int /\ late \in [Hop -> {"off", "lookup", "add", "wait", "done"}]
      BY DEF TypeOK
    <3>2. /\ wg' = wg + 1 \/ wg' = wg - 1
          /\ \E pc \in {"wait", "done"} : late' = [late EXCEPT ![h] = pc]
      BY <1>13 DEF AddLateReplies, WaitForLateReplies
    <3> QED
      BY <3>1, <3>2
  <2> QED
    BY <1>13, <2>1 DEF AddLateReplies, WaitForLateReplies, TypeOK
<1>14. ASSUME NEW h \in Hop, Expire(h) PROVE TypeOK'
  <2> DEFINE top == FindHighestPriority(flags[h], requests[h])
             G == [a \in Addr |-> CASE a = top -> "yes"
                                    [] a # top /\ Contains(requests[h], a) -> "no"
                                    [] OTHER -> resp[h][a]]
  <2>1. resp' = [resp EXCEPT ![h] = G]
    BY <1>14 DEF Expire
  <2>2. G \in [Addr -> {"empty", "yes", "no"}]
    BY DEF TypeOK
  <2> HIDE DEF G
  <2>3. resp' \in [Hop -> [Addr -> {"empty", "yes", "no"}]]
    BY <2>1, <2>2 DEF TypeOK
  <2>4. requests' \in [Hop -> Seq(Addr)] /\ sel' \in [Hop -> {"off", "first", "collect", "done"}]
    BY <1>14 DEF Expire, TypeOK
  <2> QED
    BY <1>14, <2>3, <2>4 DEF Expire, TypeOK
<1>15. ASSUME NEW h \in Hop, SelectorCanceled(h) PROVE TypeOK'
  BY <1>15, WebConnectivityAssumption DEF SelectorCanceled, TypeOK
<1>16. ASSUME NEW h \in Hop, NEW a \in Addr,
              Connect(h, a) \/ ReceiveAnswer(h, a) \/ ReceiveTimesOut(h, a)
       PROVE TypeOK'
  <2>1. CASE \E how \in Ended : FlowEnds(h, a, how)
    <3>1. /\ flow' \in [Hop -> [Addr -> {"off", "connect", "ask", "wait", "fetch"} \cup Ended]]
          /\ flowTimer' \in [Hop -> [Addr -> 0 .. RecvTimeout]]
          /\ wg' \in Int
      BY <2>1, FlowEndsTypes
    <3>2. UNCHANGED <<measurerVars, dnsVars, ctrl, selVars, plain, redirects, hasty>>
      BY <1>16 DEF Connect, ReceiveAnswer, ReceiveTimesOut
    <3> QED
      BY <3>1, <3>2 DEF TypeOK
  <2>2. CASE ~\E how \in Ended : FlowEnds(h, a, how)
    <3>1. \E pc \in {"ask", "fetch"} :
            /\ flow' = [flow EXCEPT ![h][a] = pc]
            /\ flowTimer' = flowTimer \/ flowTimer' = [flowTimer EXCEPT ![h][a] = 0]
            /\ wg' = wg
      BY <1>16, <2>2 DEF Connect, ReceiveAnswer, ReceiveTimesOut, Ended
    <3>2. /\ flow' \in [Hop -> [Addr -> {"off", "connect", "ask", "wait", "fetch"} \cup Ended]]
          /\ flowTimer' \in [Hop -> [Addr -> 0 .. RecvTimeout]]
          /\ wg' \in Int
      <4>1. /\ flow \in [Hop -> [Addr -> {"off", "connect", "ask", "wait", "fetch"} \cup Ended]]
            /\ flowTimer \in [Hop -> [Addr -> 0 .. RecvTimeout]]
            /\ wg \in Int /\ 0 \in 0 .. RecvTimeout
        BY WebConnectivityAssumption DEF TypeOK
      <4>2. PICK pc \in {"ask", "fetch"} : flow' = [flow EXCEPT ![h][a] = pc]
        BY <3>1
      <4>3. flow' \in [Hop -> [Addr -> {"off", "connect", "ask", "wait", "fetch"} \cup Ended]]
        BY <4>1, <4>2
      <4>4. flowTimer' \in [Hop -> [Addr -> 0 .. RecvTimeout]]
        <5>1. CASE flowTimer' = [flowTimer EXCEPT ![h][a] = 0]
          BY <4>1, <5>1
        <5> QED
          BY <3>1, <4>1, <5>1
      <4> QED
        BY <3>1, <4>1, <4>3, <4>4
    <3> QED
      BY <1>16, <3>2 DEF Connect, ReceiveAnswer, ReceiveTimesOut, TypeOK
  <2> QED
    BY <2>1, <2>2
<1>17. ASSUME NEW h \in Hop, NEW a \in Addr, ConnectPlain(h, a) PROVE TypeOK'
  BY <1>17 DEF ConnectPlain, TypeOK
<1>18. ASSUME NEW h \in Hop, NEW a \in Addr, SendRequest(h, a) PROVE TypeOK'
  <2>1. /\ flow' \in [Hop -> [Addr -> {"off", "connect", "ask", "wait", "fetch"} \cup Ended]]
        /\ flowTimer' \in [Hop -> [Addr -> 0 .. RecvTimeout]]
    BY <1>18, WebConnectivityAssumption DEF SendRequest, TypeOK
  <2>2. /\ requests' \in [Hop -> Seq(Addr)]
        /\ sel' \in [Hop -> {"off", "first", "collect", "done"}]
        /\ selTimer' \in [Hop -> 0 .. ExtraTime]
        /\ resp' \in [Hop -> [Addr -> {"empty", "yes", "no"}]]
    <3>1. /\ requests \in [Hop -> Seq(Addr)] /\ Append(requests[h], a) \in Seq(Addr)
          /\ sel \in [Hop -> {"off", "first", "collect", "done"}]
          /\ selTimer \in [Hop -> 0 .. ExtraTime] /\ ExtraTime \in 0 .. ExtraTime
          /\ resp \in [Hop -> [Addr -> {"empty", "yes", "no"}]]
      BY WebConnectivityAssumption DEF TypeOK
    <3>2. CASE /\ resp' = [resp EXCEPT ![h][a] = "yes"] /\ sel' = [sel EXCEPT ![h] = "done"]
               /\ UNCHANGED <<requests, selTimer>>
      BY <3>1, <3>2
    <3>3. CASE /\ requests' = [requests EXCEPT ![h] = Append(requests[h], a)]
               /\ sel' = [sel EXCEPT ![h] = "collect"]
               /\ selTimer' \in {selTimer, [selTimer EXCEPT ![h] = ExtraTime]}
               /\ UNCHANGED resp
      BY <3>1, <3>3
    <3> QED
      BY <1>18, <3>2, <3>3 DEF SendRequest
  <2> QED
    BY <1>18, <2>1, <2>2 DEF SendRequest, TypeOK
<1>19. ASSUME NEW h \in Hop, NEW a \in Addr, SendTimesOut(h, a) PROVE TypeOK'
  <2>1. hasty' \in BOOLEAN
    BY <1>19, Zenon DEF SendTimesOut
  <2> QED
    BY <1>19, <2>1, FlowEndsTypes DEF SendTimesOut, TypeOK, Ended
<1>20. ASSUME NEW h \in Hop, NEW a \in Addr, Fetch(h, a) PROVE TypeOK'
  BY <1>20, FlowEndsTypes DEF Fetch, TypeOK, Ended
<1>21. ASSUME NEW h \in Hop, NEW a \in Addr, Redirect(h, a) PROVE TypeOK'
  <2>1. flow' \in [Hop -> [Addr -> {"off", "connect", "ask", "wait", "fetch"} \cup Ended]]
    BY <1>21 DEF Redirect, TypeOK, Ended
  <2>2. url' \in [Hop -> InputURLs \cup RedirectURLs]
    <3>1. CASE redirects' >= 0
      <4>1. PICK u \in RedirectURLs : url' = [url EXCEPT ![h + 1] = u]
        BY <1>21, <3>1 DEF Redirect
      <4>2. url \in [Hop -> InputURLs \cup RedirectURLs]
        BY DEF TypeOK
      <4> QED
        BY <4>1, <4>2
    <3>2. CASE ~(redirects' >= 0)
      <4>1. url' = url
        BY <1>21, <3>2 DEF Redirect
      <4> QED
        BY <4>1 DEF TypeOK
    <3> QED
      BY <3>1, <3>2
  <2>3. redirects' \in Int /\ wg' \in Int
    BY <1>21 DEF Redirect, TypeOK
  <2> QED
    BY <1>21, <2>1, <2>2, <2>3 DEF Redirect, TypeOK
<1>22. CASE UNCHANGED vars
  BY <1>22 DEF vars, TypeOK
<1> QED
  BY <1>1, <1>2, <1>3, <1>4, <1>5, <1>6, <1>7, <1>8, <1>9, <1>10, <1>11, <1>12, <1>13,
     <1>14, <1>15, <1>16, <1>17, <1>18, <1>19, <1>20, <1>21, <1>22, NextCases, Zenon

-----------------------------------------------------------------------------
\* The states of a flow that is about to take the step.
Acting(h, a) == flow[h][a] \in {"connect", "ask", "wait", "fetch"}

\* A step of a flow moves this flow, and never back to where it has not begun.
LEMMA FlowEffect ==
  ASSUME TypeOK, NEW h \in Hop, NEW a \in Addr,
         \/ Connect(h, a) \/ SendRequest(h, a) \/ SendTimesOut(h, a) \/ ReceiveAnswer(h, a)
         \/ ReceiveTimesOut(h, a) \/ Fetch(h, a) \/ Redirect(h, a)
  PROVE  /\ Acting(h, a) /\ flow'[h][a] # "off"
         /\ \A k \in Hop, b \in Addr : <<k, b>> # <<h, a>> => flow'[k][b] = flow[k][b]
         /\ plain' = plain /\ late' = late /\ ctrl' = ctrl
<1>1. /\ Acting(h, a)
      /\ \E pc \in {"ask", "wait", "fetch", "failed", "denied", "fetched"} :
           flow' = [flow EXCEPT ![h][a] = pc]
  BY DEF Connect, SendRequest, SendTimesOut, ReceiveAnswer, ReceiveTimesOut, Fetch, Redirect,
         FlowEnds, Acting
<1>2. plain' = plain /\ late' = late /\ ctrl' = ctrl
  BY DEF Connect, SendRequest, SendTimesOut, ReceiveAnswer, ReceiveTimesOut, Fetch, Redirect,
         FlowEnds, dnsVars
<1>3. flow \in [Hop -> [Addr -> {"off", "connect", "ask", "wait", "fetch"} \cup Ended]]
  BY DEF TypeOK
<1> QED
  BY <1>1, <1>2, <1>3

\* The hop that a redirect leads to has not been started: the flow that started it
\* would have been the only one with a permission, and it has fetched.
LEMMA RedirectIsFirst ==
  ASSUME Granted, Chain, NEW h \in Hop, NEW a \in Addr, Redirect(h, a)
  PROVE  h \in 0 .. MaxRedirects /\ h + 1 \in Hop /\ dns[h + 1] = "off"
<1>1. h \in 0 .. MaxRedirects /\ h + 1 \in Hop
  BY WebConnectivityAssumption DEF Redirect, Hop
<1>2. flow[h][a] = "fetch"
  BY DEF Redirect
<1>3. \A b \in Addr : flow[h][b] # "fetched"
  BY <1>2 DEF Granted
<1> QED
  BY <1>1, <1>3 DEF Chain

\* The tasks of a hop start in order.
LEMMA StartedStep == IInv /\ [Next]_vars => Started'
<1> SUFFICES ASSUME TypeOK, Started, Asked, Granted, Chain, [Next]_vars PROVE Started'
  BY DEF IInv
<1> USE DEF measurerVars, dnsVars, selVars, flowVars
<1>0. ASSUME UNCHANGED <<dns, sel, flow, plain, late>> PROVE Started'
  BY <1>0 DEF Started, Before
<1>a. /\ dns \in [Hop -> {"off", "cache", "system", "udp", "https", "whoami",
                          "flows", "control", "done"}]
      /\ late \in [Hop -> {"off", "lookup", "add", "wait", "done"}]
      /\ sel \in [Hop -> {"off", "first", "collect", "done"}]
      /\ 0 \in Hop
  BY WebConnectivityAssumption DEF TypeOK, Hop
<1>1. CASE StartMeasurement
  BY <1>1, <1>a DEF StartMeasurement, Started, Before, Chain
<1>2. CASE FinishMeasurement \/ Cancel \/ ControlFails \/ Tick \/ UNCHANGED vars
  BY <1>2, <1>0 DEF FinishMeasurement, Cancel, ControlFails, Tick, vars
<1>3. CASE ControlSucceeds
  <2>1. PICK addrs \in THAnswers : StartFlows(0, addrs \ Entries(0))
    BY <1>3 DEF ControlSucceeds
  <2>2. addrs \ Entries(0) \in SUBSET Addr
    BY AnswerTypes
  <2>3. UNCHANGED <<dns, sel, late>> /\ dns[0] = "done"
    BY <1>3 DEF ControlSucceeds, Chain
  <2> QED
    BY <1>a, <2>1, <2>2, <2>3, StartFlowsTypes DEF Started, Before
<1>4. ASSUME NEW h \in Hop,
             AskCache(h) \/ ReceiveSystem(h) \/ ReceiveUDP(h) \/ ReceiveHTTPS(h) \/ ReceiveWhoami(h)
      PROVE  Started'
  BY <1>4, <1>a
  DEF AskCache, ReceiveSystem, ReceiveUDP, ReceiveHTTPS, ReceiveWhoami, Started, Before
<1>5. ASSUME NEW h \in Hop, StartEndpoints(h) PROVE Started'
  <2>1. Entries(h) \in SUBSET Addr
    BY DEF Entries
  <2> QED
    BY <1>5, <1>a, <2>1, StartFlowsTypes DEF StartEndpoints, Started, Before
<1>6. ASSUME NEW h \in Hop, StartControl(h) PROVE Started'
  BY <1>6, <1>a DEF StartControl, Started, Before
<1>7. ASSUME NEW h \in Hop, AddLateReplies(h) \/ WaitForLateReplies(h) PROVE Started'
  BY <1>7, <1>a DEF AddLateReplies, WaitForLateReplies, Started, Before
<1>8. ASSUME NEW h \in Hop, Expire(h) \/ SelectorCanceled(h) PROVE Started'
  BY <1>8, <1>a DEF Expire, SelectorCanceled, Receiving, Started, Before
<1>9. ASSUME NEW h \in Hop, NEW a \in Addr,
             \/ Connect(h, a) \/ SendTimesOut(h, a) \/ ReceiveAnswer(h, a)
             \/ ReceiveTimesOut(h, a) \/ Fetch(h, a)
      PROVE  Started'
  <2>1. UNCHANGED <<dns, sel>>
    BY <1>9 DEF Connect, SendTimesOut, ReceiveAnswer, ReceiveTimesOut, Fetch
  <2> QED
    BY <1>9, <2>1, FlowEffect DEF Started, Before, Acting
<1>10. ASSUME NEW h \in Hop, NEW a \in Addr, ConnectPlain(h, a) PROVE Started'
  BY <1>10 DEF ConnectPlain, Started, Before
<1>11. ASSUME NEW h \in Hop, NEW a \in Addr, SendRequest(h, a) PROVE Started'
  <2>1. dns' = dns /\ \E pc \in {"collect", "done"} : sel' = [sel EXCEPT ![h] = pc]
    BY <1>11 DEF SendRequest
  <2> QED
    BY <1>11, <1>a, <2>1, FlowEffect DEF SendRequest, Receiving, Started, Before, Acting
<1>12. ASSUME NEW h \in Hop, NEW a \in Addr, Redirect(h, a) PROVE Started'
  <2>1. /\ dns' = dns \/ dns' = [dns EXCEPT ![h + 1] = "cache"]
        /\ sel' = sel
    BY <1>12 DEF Redirect
  <2>2. h + 1 \in Hop /\ dns[h + 1] = "off"
    BY <1>12, RedirectIsFirst
  <2>3. \A k \in Hop : (Before(k)' <=> Before(k)) /\ (dns'[k] \in {"off", "cache"} => dns[k] \in {"off", "cache"})
    BY <1>a, <2>1, <2>2 DEF Before
  <2> QED
    BY <1>12, <2>1, <2>3, FlowEffect DEF Started, Acting
<1> QED
  BY <1>1, <1>2, <1>3, <1>4, <1>5, <1>6, <1>7, <1>8, <1>9, <1>10, <1>11, <1>12, NextCases, Zenon

\* What Contains says of an extended sequence.
LEMMA AppendContains ==
  ASSUME NEW rs \in Seq(Addr), NEW a \in Addr, NEW b \in Addr
  PROVE  /\ Contains(Append(rs, a), b) <=> Contains(rs, b) \/ a = b
         /\ Append(rs, a) # <<>> /\ ~Contains(<<>>, b)
<1> DEFINE s == Append(rs, a)
<1>1. /\ s \in Seq(Addr) /\ Len(rs) \in Nat /\ Len(s) = Len(rs) + 1 /\ s[Len(rs) + 1] = a
      /\ \A i \in 1 .. Len(rs) : s[i] = rs[i]
  BY AppendProperties
<1>2. s # <<>>
  BY <1>1
<1> HIDE DEF s
<1>3. Contains(s, b) => Contains(rs, b) \/ a = b
  BY <1>1 DEF Contains
<1>4. Contains(rs, b) => Contains(s, b)
  BY <1>1 DEF Contains
<1>5. a = b => Contains(s, b)
  BY <1>1 DEF Contains
<1>6. ~Contains(<<>>, b)
  BY DEF Contains
<1> QED
  BY <1>2, <1>3, <1>4, <1>5, <1>6 DEF s

\* The answers when the time of the selector is over: one is yes, for one of the
\* requests, and all the other requests get no.
LEMMA ExpireEffect ==
  ASSUME TypeOK, Asked, NEW h \in Hop, Expire(h)
  PROVE  \E top \in Addr :
           /\ Contains(requests[h], top)
           /\ \A k \in Hop, a \in Addr :
                resp'[k][a] = IF k = h
                                THEN IF a = top THEN "yes"
                                     ELSE IF Contains(requests[h], a) THEN "no" ELSE resp[k][a]
                                ELSE resp[k][a]
<1> DEFINE top == FindHighestPriority(flags[h], requests[h])
           G == [a \in Addr |-> CASE a = top -> "yes"
                                  [] a # top /\ Contains(requests[h], a) -> "no"
                                  [] OTHER -> resp[h][a]]
<1>1. resp' = [resp EXCEPT ![h] = G] /\ sel[h] = "collect"
  BY DEF Expire
<1>2. top \in Addr /\ Contains(requests[h], top)
  <2>1. requests[h] \in Seq(Addr) /\ requests[h] # <<>>
    BY <1>1 DEF TypeOK, Asked
  <2> QED
    BY <2>1, GrantsARequest
<1> HIDE DEF top
<1>3. \A a \in Addr : G[a] = IF a = top THEN "yes"
                              ELSE IF Contains(requests[h], a) THEN "no" ELSE resp[h][a]
  OBVIOUS
<1> HIDE DEF G
<1>4. resp \in [Hop -> [Addr -> {"empty", "yes", "no"}]]
  BY DEF TypeOK
<1>5. \A k \in Hop, a \in Addr :
        resp'[k][a] = IF k = h
                        THEN IF a = top THEN "yes"
                             ELSE IF Contains(requests[h], a) THEN "no" ELSE resp[k][a]
                        ELSE resp[k][a]
  BY <1>1, <1>3, <1>4
<1> QED
  BY <1>2, <1>5

\* A request, granted at once or collected.
LEMMA SendRequestEffect ==
  ASSUME TypeOK, NEW h \in Hop, NEW a \in Addr, SendRequest(h, a)
  PROVE  /\ flow[h][a] = "ask" /\ flow'[h][a] = "wait" /\ Receiving(h)
         /\ \A k \in Hop \ {h} :
              sel'[k] = sel[k] /\ requests'[k] = requests[k] /\ selTimer'[k] = selTimer[k]
         /\ \A k \in Hop, b \in Addr : <<k, b>> # <<h, a>> =>
              resp'[k][b] = resp[k][b] /\ flowTimer'[k][b] = flowTimer[k][b]
         /\ flowTimer'[h][a] = RecvTimeout
         /\ \/ /\ sel[h] = "first" /\ sel'[h] = "done"
               /\ resp'[h][a] = "yes" /\ requests'[h] = requests[h]
            \/ /\ sel'[h] = "collect" /\ resp'[h][a] = resp[h][a]
               /\ requests'[h] = Append(requests[h], a)
               /\ selTimer'[h] = IF sel[h] = "first" THEN ExtraTime ELSE selTimer[h]
<1>1. /\ requests \in [Hop -> Seq(Addr)] /\ sel \in [Hop -> {"off", "first", "collect", "done"}]
      /\ selTimer \in [Hop -> 0 .. ExtraTime]
      /\ resp \in [Hop -> [Addr -> {"empty", "yes", "no"}]]
      /\ flow \in [Hop -> [Addr -> {"off", "connect", "ask", "wait", "fetch"} \cup Ended]]
      /\ flowTimer \in [Hop -> [Addr -> 0 .. RecvTimeout]]
  BY DEF TypeOK
<1>2. /\ flow[h][a] = "ask" /\ Receiving(h)
      /\ flow' = [flow EXCEPT ![h][a] = "wait"]
      /\ flowTimer' = [flowTimer EXCEPT ![h][a] = RecvTimeout]
  BY DEF SendRequest
<1>3. CASE sel[h] = "first" /\ IsHighestPriority(flags[h], a)
  <2>1. /\ resp' = [resp EXCEPT ![h][a] = "yes"] /\ sel' = [sel EXCEPT ![h] = "done"]
        /\ requests' = requests /\ selTimer' = selTimer
    BY <1>3 DEF SendRequest
  <2> QED
    BY <1>1, <1>2, <1>3, <2>1
<1>4. CASE ~(sel[h] = "first" /\ IsHighestPriority(flags[h], a))
  <2>1. /\ requests' = [requests EXCEPT ![h] = Append(requests[h], a)]
        /\ sel' = [sel EXCEPT ![h] = "collect"] /\ resp' = resp
        /\ selTimer' = IF sel[h] = "first" THEN [selTimer EXCEPT ![h] = ExtraTime] ELSE selTimer
    BY <1>4 DEF SendRequest
  <2> QED
    BY <1>1, <1>2, <1>4, <2>1
<1> QED
  BY <1>3, <1>4

\* The flows that the control task starts are of addresses that have none.
LEMMA ControlIsNew ==
  ASSUME TypeOK, Chain, ControlSucceeds
  PROVE  \E addrs \in SUBSET Addr :
           /\ StartFlows(0, addrs) /\ wg' = wg + FlowCount(0, addrs) - 1
           /\ \A a \in addrs : flow[0][a] = "off" /\ <<0, a>> \notin plain
           /\ 0 \in Hop /\ dns[0] = "done" /\ ctrl = "run" /\ ctrl' = "done"
           /\ UNCHANGED <<measurerVars, dnsVars, selVars, flowTimer, redirects, hasty>>
<1>1. PICK addrs \in THAnswers :
        /\ StartFlows(0, addrs \ Entries(0))
        /\ wg' = wg + FlowCount(0, addrs \ Entries(0)) - 1
  BY DEF ControlSucceeds
<1>2. addrs \ Entries(0) \in SUBSET Addr
  BY AnswerTypes
<1>3. /\ 0 \in Hop /\ dns[0] = "done" /\ ctrl = "run" /\ ctrl' = "done"
      /\ UNCHANGED <<measurerVars, dnsVars, selVars, flowTimer, redirects, hasty>>
  BY WebConnectivityAssumption DEF Hop, ControlSucceeds, Chain
<1>4. \A a \in addrs \ Entries(0) : flow[0][a] = "off" /\ <<0, a>> \notin plain
  BY <1>2, <1>3 DEF Chain
<1> QED
  BY <1>1, <1>2, <1>3, <1>4

\* Requests and answers belong to flows that have asked.
LEMMA AskedStep == IInv /\ [Next]_vars => Asked'
<1> SUFFICES ASSUME TypeOK, Started, Asked, Granted, Chain, [Next]_vars PROVE Asked'
  BY DEF IInv
<1> USE DEF measurerVars, dnsVars, selVars, flowVars
<1>0. ASSUME UNCHANGED <<sel, requests, flow, resp>> PROVE Asked'
  BY <1>0 DEF Asked
<1>a. /\ requests \in [Hop -> Seq(Addr)] /\ sel \in [Hop -> {"off", "first", "collect", "done"}]
  BY DEF TypeOK
<1>1. CASE StartMeasurement \/ FinishMeasurement \/ Cancel \/ ControlFails \/ Tick \/ UNCHANGED vars
  BY <1>1, <1>0 DEF StartMeasurement, FinishMeasurement, Cancel, ControlFails, Tick, vars
<1>2. CASE ControlSucceeds
  <2>1. PICK addrs \in SUBSET Addr :
          /\ StartFlows(0, addrs) /\ 0 \in Hop /\ \A a \in addrs : flow[0][a] = "off"
          /\ UNCHANGED <<sel, requests, resp>>
    BY <1>2, ControlIsNew
  <2> QED
    BY <2>1, StartFlowsTypes DEF Asked
<1>3. ASSUME NEW h \in Hop,
             \/ AskCache(h) \/ ReceiveSystem(h) \/ ReceiveUDP(h) \/ ReceiveHTTPS(h)
             \/ ReceiveWhoami(h) \/ StartControl(h) \/ AddLateReplies(h) \/ WaitForLateReplies(h)
      PROVE  Asked'
  BY <1>3, <1>0 DEF AskCache, ReceiveSystem, ReceiveUDP, ReceiveHTTPS, ReceiveWhoami,
                    StartControl, AddLateReplies, WaitForLateReplies
<1>4. ASSUME NEW h \in Hop, StartEndpoints(h) PROVE Asked'
  <2>1. Entries(h) \in SUBSET Addr
    BY DEF Entries
  <2>2. sel[h] = "off" /\ \A a \in Addr : flow[h][a] = "off"
    BY <1>4 DEF StartEndpoints, Started, Before
  <2>3. StartFlows(h, Entries(h)) /\ sel' = [sel EXCEPT ![h] = "first"] /\ UNCHANGED <<requests, resp>>
    BY <1>4 DEF StartEndpoints
  <2> QED
    BY <1>a, <2>1, <2>2, <2>3, StartFlowsTypes DEF Asked
<1>5. ASSUME NEW h \in Hop, Expire(h) PROVE Asked'
  <2>1. PICK top \in Addr :
           /\ Contains(requests[h], top)
           /\ \A k \in Hop, a \in Addr :
                resp'[k][a] = IF k = h
                                THEN IF a = top THEN "yes"
                                     ELSE IF Contains(requests[h], a) THEN "no" ELSE resp[k][a]
                                ELSE resp[k][a]
    BY <1>5, ExpireEffect
  <2>2. /\ sel' = [sel EXCEPT ![h] = "done"] /\ requests' = [requests EXCEPT ![h] = <<>>]
        /\ flow' = flow
    BY <1>5 DEF Expire
  <2> QED
    BY <1>a, <2>1, <2>2, AppendContains DEF Asked
<1>6. ASSUME NEW h \in Hop, SelectorCanceled(h) PROVE Asked'
  BY <1>6, <1>a, AppendContains DEF SelectorCanceled, Receiving, Asked
<1>7. ASSUME NEW h \in Hop, NEW a \in Addr,
             \/ Connect(h, a) \/ SendTimesOut(h, a) \/ ReceiveAnswer(h, a)
             \/ ReceiveTimesOut(h, a) \/ Fetch(h, a) \/ Redirect(h, a)
      PROVE  Asked'
  <2>1. /\ UNCHANGED <<sel, requests, resp>>
        /\ \/ flow[h][a] = "connect" /\ flow'[h][a] = "ask"
           \/ flow'[h][a] \in {"fetch", "failed", "denied", "fetched"}
    BY <1>7 DEF Connect, SendTimesOut, ReceiveAnswer, ReceiveTimesOut, Fetch, Redirect,
                FlowEnds, TypeOK
  <2> QED
    BY <1>7, <2>1, FlowEffect DEF Asked
<1>8. ASSUME NEW h \in Hop, NEW a \in Addr, ConnectPlain(h, a) PROVE Asked'
  BY <1>8, <1>0 DEF ConnectPlain
<1>9. ASSUME NEW h \in Hop, NEW a \in Addr, SendRequest(h, a) PROVE Asked'
  <2>1. /\ flow[h][a] = "ask" /\ flow'[h][a] = "wait" /\ Receiving(h)
        /\ \A k \in Hop \ {h} : sel'[k] = sel[k] /\ requests'[k] = requests[k]
        /\ \A k \in Hop, b \in Addr : <<k, b>> # <<h, a>> =>
             resp'[k][b] = resp[k][b] /\ flow'[k][b] = flow[k][b]
    BY <1>9, SendRequestEffect, FlowEffect
  <2>2. \/ sel[h] = "first" /\ sel'[h] = "done" /\ requests'[h] = requests[h]
        \/ sel'[h] = "collect" /\ requests'[h] = Append(requests[h], a)
    BY <1>9, SendRequestEffect
  <2>3. \A b \in Addr \ {a} : Contains(requests'[h], b) <=> Contains(requests[h], b)
    <3>1. requests[h] \in Seq(Addr)
      BY <1>a
    <3>2. \A b \in Addr : Contains(Append(requests[h], a), b) <=> Contains(requests[h], b) \/ a = b
      BY <3>1, AppendContains
    <3> QED
      BY <2>2, <3>2
  <2>4. sel'[h] = "collect" <=> requests'[h] # <<>>
    BY <1>a, <2>2, AppendContains DEF Asked
  <2>5. sel'[h] \notin {"off", "first"}
    BY <2>2
  <2> QED
    BY <2>1, <2>3, <2>4, <2>5 DEF Asked
<1> QED
  BY <1>1, <1>2, <1>3, <1>4, <1>5, <1>6, <1>7, <1>8, <1>9, NextCases, Zenon

\* A selector grants one permission, and a flow fetches only with a permission.
LEMMA GrantedStep == IInv /\ [Next]_vars => Granted'
<1> SUFFICES ASSUME TypeOK, Started, Asked, Granted, Chain, [Next]_vars PROVE Granted'
  BY DEF IInv
<1> USE DEF measurerVars, dnsVars, selVars, flowVars
<1>0. ASSUME UNCHANGED <<sel, flow, resp>> PROVE Granted'
  BY <1>0 DEF Granted
<1>a. sel \in [Hop -> {"off", "first", "collect", "done"}]
  BY DEF TypeOK
<1>1. CASE StartMeasurement \/ FinishMeasurement \/ Cancel \/ ControlFails \/ Tick \/ UNCHANGED vars
  BY <1>1, <1>0 DEF StartMeasurement, FinishMeasurement, Cancel, ControlFails, Tick, vars
<1>2. CASE ControlSucceeds
  <2>1. PICK addrs \in SUBSET Addr :
          StartFlows(0, addrs) /\ 0 \in Hop /\ UNCHANGED <<sel, resp>>
    BY <1>2, ControlIsNew
  <2> QED
    BY <2>1, StartFlowsTypes DEF Granted
<1>3. ASSUME NEW h \in Hop,
             \/ AskCache(h) \/ ReceiveSystem(h) \/ ReceiveUDP(h) \/ ReceiveHTTPS(h)
             \/ ReceiveWhoami(h) \/ StartControl(h) \/ AddLateReplies(h) \/ WaitForLateReplies(h)
      PROVE  Granted'
  BY <1>3, <1>0 DEF AskCache, ReceiveSystem, ReceiveUDP, ReceiveHTTPS, ReceiveWhoami,
                    StartControl, AddLateReplies, WaitForLateReplies
<1>4. ASSUME NEW h \in Hop, StartEndpoints(h) PROVE Granted'
  <2>1. Entries(h) \in SUBSET Addr
    BY DEF Entries
  <2>2. /\ sel[h] = "off" /\ StartFlows(h, Entries(h)) /\ sel' = [sel EXCEPT ![h] = "first"]
        /\ resp' = resp
    BY <1>4 DEF StartEndpoints, Started, Before
  <2> QED
    BY <1>a, <2>1, <2>2, StartFlowsTypes DEF Granted
<1>5. ASSUME NEW h \in Hop, Expire(h) PROVE Granted'
  <2>1. PICK top \in Addr :
           /\ Contains(requests[h], top)
           /\ \A k \in Hop, a \in Addr :
                resp'[k][a] = IF k = h
                                THEN IF a = top THEN "yes"
                                     ELSE IF Contains(requests[h], a) THEN "no" ELSE resp[k][a]
                                ELSE resp[k][a]
    BY <1>5, ExpireEffect
  <2>2. sel[h] = "collect" /\ sel' = [sel EXCEPT ![h] = "done"] /\ flow' = flow
    BY <1>5 DEF Expire
  <2> QED
    BY <1>a, <2>1, <2>2 DEF Granted
<1>6. ASSUME NEW h \in Hop, SelectorCanceled(h) PROVE Granted'
  BY <1>6, <1>a DEF SelectorCanceled, Granted
<1>7. ASSUME NEW h \in Hop, NEW a \in Addr,
             \/ Connect(h, a) \/ SendTimesOut(h, a) \/ ReceiveAnswer(h, a)
             \/ ReceiveTimesOut(h, a) \/ Fetch(h, a) \/ Redirect(h, a)
      PROVE  Granted'
  <2>1. /\ UNCHANGED <<sel, resp>>
        /\ \/ flow'[h][a] \notin {"fetch", "fetched"}
           \/ flow'[h][a] = "fetch" /\ resp[h][a] = "yes"
           \/ flow'[h][a] = "fetched" /\ flow[h][a] = "fetch"
    BY <1>7 DEF Connect, SendTimesOut, ReceiveAnswer, ReceiveTimesOut, Fetch, Redirect,
                FlowEnds, TypeOK
  <2> QED
    BY <1>7, <2>1, FlowEffect DEF Granted
<1>8. ASSUME NEW h \in Hop, NEW a \in Addr, ConnectPlain(h, a) PROVE Granted'
  BY <1>8, <1>0 DEF ConnectPlain
<1>9. ASSUME NEW h \in Hop, NEW a \in Addr, SendRequest(h, a) PROVE Granted'
  BY <1>9, <1>a, SendRequestEffect, FlowEffect DEF Granted, Receiving
<1> QED
  BY <1>1, <1>2, <1>3, <1>4, <1>5, <1>6, <1>7, <1>8, <1>9, NextCases, Zenon

\* A hop is reached through a fetch of the hop before it.
LEMMA ChainStep == IInv /\ [Next]_vars => Chain'
<1> SUFFICES ASSUME TypeOK, Started, Granted, Chain, [Next]_vars PROVE Chain'
  BY DEF IInv
<1> USE DEF measurerVars, dnsVars, selVars, flowVars
<1>0. ASSUME UNCHANGED <<main, dns, ctrl, flow, plain, flags>> PROVE Chain'
  BY <1>0 DEF Chain, Entries
<1>a. /\ dns \in [Hop -> {"off", "cache", "system", "udp", "https", "whoami",
                          "flows", "control", "done"}]
      /\ 0 \in Hop /\ \A h \in 0 .. MaxRedirects : h \in Hop /\ h + 1 \in Hop /\ h + 1 # 0
  BY WebConnectivityAssumption DEF TypeOK, Hop
<1>1. CASE StartMeasurement
  <2>1. /\ \/ main' = "invalid" /\ dns' = dns
           \/ main' = "wait" /\ dns' = [dns EXCEPT ![0] = "cache"]
        /\ \A h \in Hop : dns[h] = "off"
        /\ UNCHANGED <<ctrl, flow, plain, flags>>
    BY <1>1 DEF StartMeasurement, Chain
  <2> QED
    BY <1>a, <2>1 DEF Chain, Entries
<1>2. CASE FinishMeasurement
  BY <1>2 DEF FinishMeasurement, Chain, Entries
<1>3. CASE Cancel \/ Tick \/ UNCHANGED vars
  BY <1>3, <1>0 DEF Cancel, Tick, vars
<1>4. CASE ControlFails
  BY <1>4 DEF ControlFails, Chain, Entries
<1>5. CASE ControlSucceeds
  <2>1. PICK addrs \in SUBSET Addr :
          /\ StartFlows(0, addrs) /\ \A a \in addrs : flow[0][a] = "off"
          /\ ctrl' = "done" /\ UNCHANGED <<main, dns>>
    BY <1>5, ControlIsNew
  <2>2. \A h \in Hop, a \in Addr : flow[h][a] = "fetched" => flow'[h][a] = "fetched"
    BY <1>a, <2>1, StartFlowsTypes
  <2> QED
    BY <1>a, <2>1, <2>2 DEF Chain
<1>6. ASSUME NEW h \in Hop,
             AskCache(h) \/ ReceiveSystem(h) \/ ReceiveUDP(h) \/ ReceiveHTTPS(h) \/ ReceiveWhoami(h)
      PROVE  Chain'
  <2>1. /\ dns[h] \in {"cache", "system", "udp", "https", "whoami"}
        /\ \E pc \in {"system", "udp", "https", "whoami", "flows"} : dns' = [dns EXCEPT ![h] = pc]
        /\ UNCHANGED <<main, ctrl, flow, plain>>
    BY <1>6 DEF AskCache, ReceiveSystem, ReceiveUDP, ReceiveHTTPS, ReceiveWhoami
  <2>2. \A k \in Hop : k # h => flags'[k] = flags[k]
    BY <1>6 DEF AskCache, ReceiveSystem, ReceiveUDP, ReceiveHTTPS, ReceiveWhoami, Merge, TypeOK
  <2>3. h = 0 => \A a \in Addr : flow[0][a] = "off" /\ <<0, a>> \notin plain
    BY <2>1 DEF Started, Before
  <2>4. \A k \in Hop : dns'[k] = "off" <=> dns[k] = "off"
    BY <1>a, <2>1
  <2>5. ctrl' = "run" => dns'[0] = "done"
    BY <1>a, <2>1 DEF Chain
  <2> QED
    BY <1>a, <2>1, <2>2, <2>3, <2>4, <2>5 DEF Chain, Entries
<1>7. ASSUME NEW h \in Hop, StartEndpoints(h) PROVE Chain'
  <2>1. Entries(h) \in SUBSET Addr
    BY DEF Entries
  <2>2. /\ dns[h] = "flows" /\ dns' = [dns EXCEPT ![h] = "control"] /\ StartFlows(h, Entries(h))
        /\ UNCHANGED <<main, ctrl, flags>>
    BY <1>7 DEF StartEndpoints
  <2>3. \A a \in Addr : flow[h][a] = "off"
    BY <2>2 DEF Started, Before
  <2>4. \A k \in Hop, a \in Addr : flow[k][a] = "fetched" => flow'[k][a] = "fetched"
    BY <2>1, <2>2, <2>3, StartFlowsTypes
  <2>5. \A a \in Addr : a \in Entries(0)' <=> a \in Entries(0)
    BY <2>2 DEF Entries
  <2>6. ctrl' # "done" =>
          \A a \in Addr : flow'[0][a] # "off" \/ <<0, a>> \in plain' => a \in Entries(0)
    BY <1>a, <2>1, <2>2, StartFlowsTypes DEF Chain
  <2> QED
    BY <1>a, <2>2, <2>4, <2>5, <2>6 DEF Chain
<1>8. ASSUME NEW h \in Hop, StartControl(h) PROVE Chain'
  <2>1. /\ dns[h] = "control" /\ dns' = [dns EXCEPT ![h] = "done"]
        /\ ctrl' = ctrl \/ (h = 0 /\ ctrl = "off" /\ ctrl' = "run")
        /\ UNCHANGED <<main, flow, plain, flags>>
    BY <1>8 DEF StartControl
  <2> QED
    BY <1>a, <2>1 DEF Chain, Entries
<1>9. ASSUME NEW h \in Hop,
             AddLateReplies(h) \/ WaitForLateReplies(h) \/ Expire(h) \/ SelectorCanceled(h)
      PROVE  Chain'
  BY <1>9, <1>0 DEF AddLateReplies, WaitForLateReplies, Expire, SelectorCanceled
<1>10. ASSUME NEW h \in Hop, NEW a \in Addr,
              \/ Connect(h, a) \/ SendRequest(h, a) \/ SendTimesOut(h, a) \/ ReceiveAnswer(h, a)
              \/ ReceiveTimesOut(h, a) \/ Fetch(h, a)
       PROVE  Chain'
  <2>1. UNCHANGED <<main, dns, flags>>
    BY <1>10 DEF Connect, SendRequest, SendTimesOut, ReceiveAnswer, ReceiveTimesOut, Fetch
  <2> QED
    BY <1>10, <1>a, <2>1, FlowEffect DEF Chain, Entries, Acting
<1>11. ASSUME NEW h \in Hop, NEW a \in Addr, ConnectPlain(h, a) PROVE Chain'
  BY <1>11 DEF ConnectPlain, Chain, Entries
<1>12. ASSUME NEW h \in Hop, NEW a \in Addr, Redirect(h, a) PROVE Chain'
  <2>1. /\ dns' = dns \/ dns' = [dns EXCEPT ![h + 1] = "cache"]
        /\ flow[h][a] = "fetch" /\ flow'[h][a] = "fetched"
        /\ UNCHANGED <<main, flags>>
    BY <1>12 DEF Redirect, TypeOK
  <2>2. h \in 0 .. MaxRedirects /\ h + 1 \in Hop /\ dns[h + 1] = "off"
    BY <1>12, RedirectIsFirst
  <2>3. dns[h] # "off" /\ main \notin {"start", "invalid"}
    BY <2>1 DEF Started, Before, Chain
  <2>4. \A k \in Hop, b \in Addr : flow[k][b] = "fetched" => flow'[k][b] = "fetched"
    BY <1>12, <2>1, FlowEffect
  <2>5. \A k \in Hop : k # h + 1 => dns'[k] = dns[k]
    BY <1>a, <2>1
  <2>6. \A k \in 0 .. MaxRedirects : dns'[k + 1] # "off" => \E b \in Addr : flow'[k][b] = "fetched"
    <3> SUFFICES ASSUME NEW k \in 0 .. MaxRedirects, dns'[k + 1] # "off"
                 PROVE  \E b \in Addr : flow'[k][b] = "fetched"
      OBVIOUS
    <3>1. CASE k = h
      BY <2>1, <3>1
    <3>2. CASE k # h
      BY <1>a, <2>2, <2>4, <2>5, <3>2 DEF Chain
    <3> QED
      BY <3>1, <3>2
  <2> QED
    BY <1>12, <1>a, <2>1, <2>2, <2>3, <2>5, <2>6, FlowEffect DEF Chain, Entries, Acting
<1> QED
  BY <1>1, <1>2, <1>3, <1>4, <1>5, <1>6, <1>7, <1>8, <1>9, <1>10, <1>11, <1>12, NextCases, Zenon

\* Run cancels the context when it returns.
LEMMA LeftStep == IInv /\ [Next]_vars => Left'
<1> SUFFICES ASSUME Left, [Next]_vars PROVE Left'
  BY DEF IInv
<1> USE DEF measurerVars, Left
<1>1. CASE StartMeasurement \/ FinishMeasurement \/ Cancel
  BY <1>1 DEF StartMeasurement, FinishMeasurement, Cancel
<1>2. CASE UNCHANGED <<main, ctx>>
  BY <1>2
<1>3. CASE ControlFails \/ ControlSucceeds \/ Tick \/ UNCHANGED vars
  BY <1>2, <1>3 DEF ControlFails, ControlSucceeds, Tick, vars
<1>4. ASSUME NEW h \in Hop,
             \/ AskCache(h) \/ ReceiveSystem(h) \/ ReceiveUDP(h) \/ ReceiveHTTPS(h)
             \/ ReceiveWhoami(h) \/ StartEndpoints(h) \/ StartControl(h)
             \/ AddLateReplies(h) \/ WaitForLateReplies(h) \/ Expire(h) \/ SelectorCanceled(h)
      PROVE  UNCHANGED <<main, ctx>>
  BY <1>4 DEF AskCache, ReceiveSystem, ReceiveUDP, ReceiveHTTPS, ReceiveWhoami, StartEndpoints,
              StartControl, AddLateReplies, WaitForLateReplies, Expire, SelectorCanceled
<1>5. ASSUME NEW h \in Hop, NEW a \in Addr,
             \/ Connect(h, a) \/ ConnectPlain(h, a) \/ SendRequest(h, a) \/ SendTimesOut(h, a)
             \/ ReceiveAnswer(h, a) \/ ReceiveTimesOut(h, a) \/ Fetch(h, a) \/ Redirect(h, a)
      PROVE  UNCHANGED <<main, ctx>>
  BY <1>5 DEF Connect, ConnectPlain, SendRequest, SendTimesOut, ReceiveAnswer,
              ReceiveTimesOut, Fetch, Redirect
<1> QED
  BY <1>1, <1>2, <1>3, <1>4, <1>5, NextCases, Zenon

-----------------------------------------------------------------------------
\* The tasks that hold the WaitGroup, by kind.
Resolving == {h \in Hop : dns[h] \notin {"off", "done"}}
Waiting == {h \in Hop : late[h] = "wait"}
Controlling == IF ctrl = "run" THEN 1 ELSE 0
Flowing == {p \in Hop \X Addr : Running(flow[p[1]][p[2]])}

\* WaitGroupBalance in these terms.
Counted ==
  wg = Cardinality(Resolving) + Cardinality(Waiting) + Controlling
         + Cardinality(Flowing) + Cardinality(plain)

\* A task is added to the ones that hold the WaitGroup.
LEMMA OneMore ==
  ASSUME NEW S, IsFiniteSet(S), NEW x, x \notin S
  PROVE  Cardinality(S \cup {x}) = Cardinality(S) + 1
  BY FS_AddElement

\* Several tasks are added.
LEMMA SeveralMore ==
  ASSUME NEW S, IsFiniteSet(S), NEW T, IsFiniteSet(T), S \cap T = {}
  PROVE  Cardinality(S \cup T) = Cardinality(S) + Cardinality(T)
<1>1. Cardinality(S \cup T) = Cardinality(S) + Cardinality(T) - Cardinality(S \cap T)
  BY FS_Union
<1>2. Cardinality(S) \in Nat /\ Cardinality(T) \in Nat /\ Cardinality(S \cap T) = 0
  BY FS_CardinalityType, FS_EmptySet
<1> QED
  BY <1>1, <1>2

\* A task ends.
LEMMA OneLess ==
  ASSUME NEW S, IsFiniteSet(S), NEW x, x \in S
  PROVE  Cardinality(S \ {x}) = Cardinality(S) - 1
  BY FS_RemoveElement

\* A step of a flow ends it or leaves it running.
LEMMA FlowingMoves ==
  ASSUME TypeOK, TypeOK', NEW h \in Hop, NEW a \in Addr, Acting(h, a),
         \A k \in Hop, b \in Addr : <<k, b>> # <<h, a>> => flow'[k][b] = flow[k][b]
  PROVE  /\ Running(flow'[h][a]) => Flowing' = Flowing
         /\ ~Running(flow'[h][a]) => Cardinality(Flowing') = Cardinality(Flowing) - 1
<1>1. \A p \in Hop \X Addr : p = <<p[1], p[2]>> /\ p[1] \in Hop /\ p[2] \in Addr
  OBVIOUS
<1>2. Running(flow[h][a]) /\ <<h, a>> \in Hop \X Addr
  BY DEF Acting, Running, Ended
<1>3. \A p \in (Hop \X Addr) \ {<<h, a>>} : flow'[p[1]][p[2]] = flow[p[1]][p[2]]
  BY <1>1
<1>4. ASSUME Running(flow'[h][a]) PROVE Flowing' = Flowing
  BY <1>2, <1>3, <1>4 DEF Flowing, Running
<1>5. ASSUME ~Running(flow'[h][a]) PROVE Flowing' = Flowing \ {<<h, a>>}
  BY <1>2, <1>3, <1>5 DEF Flowing, Running
<1>6. <<h, a>> \in Flowing /\ IsFiniteSet(Flowing)
  BY <1>2, FiniteTasks DEF Flowing
<1> QED
  BY <1>4, <1>5, <1>6, OneLess

\* New flows are counted, the ones without a selector as well.
LEMMA StartFlowsCount ==
  ASSUME TypeOK, NEW h \in Hop, NEW addrs \in SUBSET Addr, StartFlows(h, addrs),
         \A a \in addrs : flow[h][a] = "off" /\ <<h, a>> \notin plain
  PROVE  /\ Cardinality(Flowing') + Cardinality(plain')
              = Cardinality(Flowing) + Cardinality(plain) + FlowCount(h, addrs)
         /\ FlowCount(h, addrs) \in Nat
<1> DEFINE P == PlainAddrs(h, addrs)
<1>1. P \subseteq addrs /\ P \subseteq Addr
  BY DEF PlainAddrs
<1>2. \A S \in SUBSET Addr : Cardinality({h} \X S) = Cardinality(S) /\ IsFiniteSet({h} \X S)
  <2> SUFFICES ASSUME NEW S \in SUBSET Addr
               PROVE  Cardinality({h} \X S) = Cardinality(S) /\ IsFiniteSet({h} \X S)
    OBVIOUS
  <2>1. IsFiniteSet(S) /\ Cardinality(S) \in Nat
    BY FiniteTasks
  <2>2. IsFiniteSet({h}) /\ Cardinality({h}) = 1
    BY FS_Singleton
  <2>3. Cardinality({h} \X S) = 1 * Cardinality(S) /\ IsFiniteSet({h} \X S)
    BY <2>1, <2>2, FS_Product
  <2> QED
    BY <2>1, <2>3
<1>3. Flowing' = Flowing \cup ({h} \X addrs)
  <2>1. \A p \in Hop \X Addr : p = <<p[1], p[2]>> /\ p[1] \in Hop /\ p[2] \in Addr
    OBVIOUS
  <2>2. \A p \in Hop \X Addr :
          flow'[p[1]][p[2]] = IF p \in {h} \X addrs THEN "connect" ELSE flow[p[1]][p[2]]
    BY <2>1, StartFlowsTypes
  <2>3. Running("connect")
    BY DEF Running, Ended
  <2>4. {h} \X addrs \subseteq Hop \X Addr
    OBVIOUS
  <2> QED
    BY <2>2, <2>3, <2>4 DEF Flowing, Running
<1>4. Flowing \cap ({h} \X addrs) = {}
  BY DEF Flowing, Running
<1>5. plain' = plain \cup ({h} \X P) /\ plain \cap ({h} \X P) = {}
  BY <1>1 DEF StartFlows
<1>6. IsFiniteSet(Flowing) /\ IsFiniteSet(plain)
  BY FiniteTasks DEF Flowing, TypeOK
<1>7. /\ Cardinality(Flowing) \in Nat /\ Cardinality(plain) \in Nat
      /\ Cardinality(addrs) \in Nat /\ Cardinality(P) \in Nat
  BY <1>1, FiniteTasks DEF Flowing, TypeOK
<1>8. Cardinality(Flowing') = Cardinality(Flowing) + Cardinality(addrs)
  <2>1. IsFiniteSet({h} \X addrs) /\ Cardinality({h} \X addrs) = Cardinality(addrs)
    BY <1>2
  <2>2. Cardinality(Flowing \cup ({h} \X addrs)) = Cardinality(Flowing) + Cardinality({h} \X addrs)
    BY <1>4, <1>6, <2>1, SeveralMore
  <2> QED
    BY <1>3, <2>1, <2>2
<1>9. Cardinality(plain') = Cardinality(plain) + Cardinality(P)
  <2>1. IsFiniteSet({h} \X P) /\ Cardinality({h} \X P) = Cardinality(P)
    BY <1>1, <1>2
  <2>2. Cardinality(plain \cup ({h} \X P)) = Cardinality(plain) + Cardinality({h} \X P)
    BY <1>5, <1>6, <2>1, SeveralMore
  <2> QED
    BY <1>5, <2>1, <2>2
<1> QED
  BY <1>7, <1>8, <1>9 DEF FlowCount

\* The WaitGroup counts the tasks that hold it.
LEMMA BalanceStep == IInv /\ TypeOK' /\ [Next]_vars => WaitGroupBalance'
<1> SUFFICES ASSUME TypeOK, TypeOK', Started, Granted, Chain, Counted, [Next]_vars
             PROVE  Counted'
  BY DEF IInv, WaitGroupBalance, Counted, Resolving, Waiting, Controlling, Flowing
<1> USE DEF measurerVars, dnsVars, selVars, flowVars, Counted
<1>b. /\ Cardinality(Resolving) \in Nat /\ Cardinality(Waiting) \in Nat /\ Controlling \in Nat
      /\ Cardinality(Flowing) \in Nat /\ Cardinality(plain) \in Nat
      /\ IsFiniteSet(Resolving) /\ IsFiniteSet(Waiting) /\ IsFiniteSet(plain)
  BY FiniteTasks DEF TypeOK, Resolving, Waiting, Controlling, Flowing
<1>d. ASSUME dns' = dns PROVE Resolving' = Resolving
  BY <1>d DEF Resolving
<1>e. ASSUME late' = late PROVE Waiting' = Waiting
  BY <1>e DEF Waiting
<1>f. ASSUME ctrl' = ctrl PROVE Controlling' = Controlling
  BY <1>f DEF Controlling
<1>g. ASSUME flow' = flow PROVE Flowing' = Flowing
  BY <1>g DEF Flowing
<1>h. /\ dns \in [Hop -> {"off", "cache", "system", "udp", "https", "whoami",
                          "flows", "control", "done"}]
      /\ late \in [Hop -> {"off", "lookup", "add", "wait", "done"}]
      /\ 0 \in Hop
  BY WebConnectivityAssumption DEF TypeOK, Hop
<1>1. CASE StartMeasurement
  <2>1. dns[0] = "off" /\ 0 \notin Resolving
    BY <1>1, <1>h DEF StartMeasurement, Chain, Resolving
  <2>2. UNCHANGED <<late, ctrl, flow, plain>>
    BY <1>1 DEF StartMeasurement
  <2>3. CASE wg' = wg /\ dns' = dns
    BY <1>d, <1>e, <1>f, <1>g, <2>2, <2>3
  <2>4. CASE wg' = wg + 1 /\ dns' = [dns EXCEPT ![0] = "cache"]
    <3>1. Resolving' = Resolving \cup {0}
      BY <1>h, <2>4 DEF Resolving
    <3>2. Cardinality(Resolving') = Cardinality(Resolving) + 1
      BY <1>b, <2>1, <3>1, OneMore
    <3> QED
      BY <1>b, <1>e, <1>f, <1>g, <2>2, <2>4, <3>2
  <2> QED
    BY <1>1, <2>3, <2>4 DEF StartMeasurement
<1>2. CASE UNCHANGED <<wg, dns, late, ctrl, flow, plain>>
  BY <1>d, <1>e, <1>f, <1>g, <1>2
<1>3. CASE FinishMeasurement \/ Cancel \/ Tick \/ UNCHANGED vars
  BY <1>2, <1>3 DEF FinishMeasurement, Cancel, Tick, vars
<1>4. CASE ControlFails
  <2>1. Controlling = 1 /\ Controlling' = 0 /\ wg' = wg - 1
    BY <1>4 DEF ControlFails, Controlling
  <2>2. UNCHANGED <<dns, late, flow, plain>>
    BY <1>4 DEF ControlFails
  <2> QED
    BY <1>b, <1>d, <1>e, <1>g, <2>1, <2>2
<1>5. CASE ControlSucceeds
  <2>1. PICK addrs \in SUBSET Addr :
          /\ StartFlows(0, addrs) /\ wg' = wg + FlowCount(0, addrs) - 1
          /\ \A a \in addrs : flow[0][a] = "off" /\ <<0, a>> \notin plain
          /\ ctrl = "run" /\ ctrl' = "done" /\ UNCHANGED <<dns, late>>
    BY <1>5, ControlIsNew
  <2>2. Controlling = 1 /\ Controlling' = 0
    BY <2>1 DEF Controlling
  <2>3. /\ Cardinality(Flowing') + Cardinality(plain')
             = Cardinality(Flowing) + Cardinality(plain) + FlowCount(0, addrs)
        /\ FlowCount(0, addrs) \in Nat
    BY <1>h, <2>1, StartFlowsCount
  <2>4. Cardinality(Flowing') \in Nat /\ Cardinality(plain') \in Nat
    BY FiniteTasks DEF Flowing, TypeOK
  <2> QED
    BY <1>b, <1>d, <1>e, <2>1, <2>2, <2>3, <2>4
<1>6. ASSUME NEW h \in Hop, AskCache(h) \/ ReceiveUDP(h) PROVE Counted'
  <2>1. /\ late[h] # "wait"
        /\ late' = late \/ \E pc \in {"lookup", "add"} : late' = [late EXCEPT ![h] = pc]
        /\ dns[h] \in {"cache", "udp"}
        /\ \E pc \in {"system", "flows", "https"} : dns' = [dns EXCEPT ![h] = pc]
    BY <1>6 DEF AskCache, ReceiveUDP, Started
  <2>2. Waiting' = Waiting
    BY <1>h, <2>1 DEF Waiting
  <2>3. Resolving' = Resolving
    BY <1>h, <2>1 DEF Resolving
  <2>4. UNCHANGED <<wg, ctrl, flow, plain>>
    BY <1>6 DEF AskCache, ReceiveUDP
  <2> QED
    BY <1>f, <1>g, <2>2, <2>3, <2>4
<1>7. ASSUME NEW h \in Hop, ReceiveSystem(h) \/ ReceiveHTTPS(h) \/ ReceiveWhoami(h)
      PROVE  Counted'
  <2>1. /\ dns[h] \in {"system", "https", "whoami"}
        /\ \E pc \in {"udp", "whoami", "flows"} : dns' = [dns EXCEPT ![h] = pc]
        /\ UNCHANGED <<wg, late, ctrl, flow, plain>>
    BY <1>7 DEF ReceiveSystem, ReceiveHTTPS, ReceiveWhoami
  <2>2. Resolving' = Resolving
    BY <1>h, <2>1 DEF Resolving
  <2> QED
    BY <1>e, <1>f, <1>g, <2>1, <2>2
<1>8. ASSUME NEW h \in Hop, StartEndpoints(h) PROVE Counted'
  <2>1. /\ dns[h] = "flows" /\ dns' = [dns EXCEPT ![h] = "control"]
        /\ StartFlows(h, Entries(h)) /\ wg' = wg + FlowCount(h, Entries(h))
        /\ UNCHANGED <<late, ctrl>>
    BY <1>8 DEF StartEndpoints
  <2>2. Entries(h) \in SUBSET Addr
    BY DEF Entries
  <2>3. \A a \in Addr : flow[h][a] = "off" /\ <<h, a>> \notin plain
    BY <2>1 DEF Started, Before
  <2>4. Resolving' = Resolving
    BY <1>h, <2>1 DEF Resolving
  <2>5. /\ Cardinality(Flowing') + Cardinality(plain')
             = Cardinality(Flowing) + Cardinality(plain) + FlowCount(h, Entries(h))
        /\ FlowCount(h, Entries(h)) \in Nat
    BY <2>1, <2>2, <2>3, StartFlowsCount
  <2>6. Cardinality(Flowing') \in Nat /\ Cardinality(plain') \in Nat
    BY FiniteTasks DEF Flowing, TypeOK
  <2> QED
    BY <1>b, <1>e, <1>f, <2>1, <2>4, <2>5, <2>6
<1>9. ASSUME NEW h \in Hop, StartControl(h) PROVE Counted'
  <2>1. /\ dns[h] = "control" /\ dns' = [dns EXCEPT ![h] = "done"]
        /\ UNCHANGED <<late, flow, plain>>
    BY <1>9 DEF StartControl
  <2>2. Resolving' = Resolving \ {h} /\ h \in Resolving
    BY <1>h, <2>1 DEF Resolving
  <2>3. Cardinality(Resolving') = Cardinality(Resolving) - 1
    BY <1>b, <2>2, OneLess
  <2>4. wg' - Controlling' = wg - Controlling - 1
    BY <1>9, <1>b DEF StartControl, Controlling
  <2>5. wg' \in Int /\ wg \in Int /\ Controlling' \in Nat
    BY DEF TypeOK, Controlling
  <2> QED
    BY <1>b, <1>e, <1>g, <2>1, <2>3, <2>4, <2>5
<1>10. ASSUME NEW h \in Hop, AddLateReplies(h) PROVE Counted'
  <2>1. /\ late[h] = "add" /\ late' = [late EXCEPT ![h] = "wait"] /\ wg' = wg + 1
        /\ UNCHANGED <<dns, ctrl, flow, plain>>
    BY <1>10 DEF AddLateReplies
  <2>2. Waiting' = Waiting \cup {h} /\ h \notin Waiting
    BY <1>h, <2>1 DEF Waiting
  <2>3. Cardinality(Waiting') = Cardinality(Waiting) + 1
    BY <1>b, <2>2, OneMore
  <2> QED
    BY <1>b, <1>d, <1>f, <1>g, <2>1, <2>3
<1>11. ASSUME NEW h \in Hop, WaitForLateReplies(h) PROVE Counted'
  <2>1. /\ late[h] = "wait" /\ late' = [late EXCEPT ![h] = "done"] /\ wg' = wg - 1
        /\ UNCHANGED <<dns, ctrl, flow, plain>>
    BY <1>11 DEF WaitForLateReplies
  <2>2. Waiting' = Waiting \ {h} /\ h \in Waiting
    BY <1>h, <2>1 DEF Waiting
  <2>3. Cardinality(Waiting') = Cardinality(Waiting) - 1
    BY <1>b, <2>2, OneLess
  <2> QED
    BY <1>b, <1>d, <1>f, <1>g, <2>1, <2>3
<1>12. ASSUME NEW h \in Hop, Expire(h) \/ SelectorCanceled(h) PROVE Counted'
  BY <1>2, <1>12 DEF Expire, SelectorCanceled
<1>13. ASSUME NEW h \in Hop, NEW a \in Addr,
              \/ Connect(h, a) \/ SendRequest(h, a) \/ SendTimesOut(h, a) \/ ReceiveAnswer(h, a)
              \/ ReceiveTimesOut(h, a) \/ Fetch(h, a)
       PROVE  Counted'
  <2>1. /\ dns' = dns
        /\ \/ Running(flow'[h][a]) /\ wg' = wg
           \/ ~Running(flow'[h][a]) /\ wg' = wg - 1
    BY <1>13 DEF Connect, SendRequest, SendTimesOut, ReceiveAnswer, ReceiveTimesOut, Fetch,
                 FlowEnds, TypeOK, Running, Ended
  <2>2. /\ Acting(h, a) /\ plain' = plain /\ late' = late /\ ctrl' = ctrl
        /\ \A k \in Hop, b \in Addr : <<k, b>> # <<h, a>> => flow'[k][b] = flow[k][b]
    BY <1>13, FlowEffect
  <2>3. /\ Running(flow'[h][a]) => Flowing' = Flowing
        /\ ~Running(flow'[h][a]) => Cardinality(Flowing') = Cardinality(Flowing) - 1
    BY <2>2, FlowingMoves
  <2> QED
    BY <1>b, <1>d, <1>e, <1>f, <2>1, <2>2, <2>3
<1>14. ASSUME NEW h \in Hop, NEW a \in Addr, ConnectPlain(h, a) PROVE Counted'
  <2>1. /\ <<h, a>> \in plain /\ plain' = plain \ {<<h, a>>} /\ wg' = wg - 1
        /\ UNCHANGED <<dns, late, ctrl, flow>>
    BY <1>14 DEF ConnectPlain
  <2>2. Cardinality(plain') = Cardinality(plain) - 1
    BY <1>b, <2>1, OneLess
  <2> QED
    BY <1>b, <1>d, <1>e, <1>f, <1>g, <2>1, <2>2
<1>15. ASSUME NEW h \in Hop, NEW a \in Addr, Redirect(h, a) PROVE Counted'
  <2>1. ~Running(flow'[h][a])
    BY <1>15 DEF Redirect, TypeOK, Running, Ended
  <2>2. /\ Acting(h, a) /\ plain' = plain /\ late' = late /\ ctrl' = ctrl
        /\ \A k \in Hop, b \in Addr : <<k, b>> # <<h, a>> => flow'[k][b] = flow[k][b]
    BY <1>15, FlowEffect
  <2>3. Cardinality(Flowing') = Cardinality(Flowing) - 1
    BY <2>1, <2>2, FlowingMoves
  <2>4. CASE dns' = dns /\ wg' = wg - 1
    BY <1>b, <1>d, <1>e, <1>f, <2>2, <2>3, <2>4
  <2>5. CASE dns' = [dns EXCEPT ![h + 1] = "cache"] /\ wg' = wg + 1 - 1
    <3>1. h + 1 \in Hop /\ dns[h + 1] = "off"
      BY <1>15, RedirectIsFirst
    <3>2. Resolving' = Resolving \cup {h + 1} /\ h + 1 \notin Resolving
      BY <1>h, <2>5, <3>1 DEF Resolving
    <3>3. Cardinality(Resolving') = Cardinality(Resolving) + 1
      BY <1>b, <3>2, OneMore
    <3> QED
      BY <1>b, <1>e, <1>f, <2>2, <2>3, <2>5, <3>3
  <2> QED
    BY <1>15, <2>4, <2>5 DEF Redirect
<1> QED
  BY <1>1, <1>3, <1>4, <1>5, <1>6, <1>7, <1>8, <1>9, <1>10, <1>11, <1>12, <1>13, <1>14, <1>15,
     NextCases, Zenon

\* A counter at zero counts nothing.
LEMMA NothingLeft ==
  ASSUME NEW r \in Nat, NEW w \in Nat, NEW c \in Nat, NEW f \in Nat, NEW p \in Nat,
         0 = r + w + c + f + p
  PROVE  r = 0 /\ c = 0 /\ f = 0 /\ p = 0
  OBVIOUS

\* Run returns only after the last task that holds the WaitGroup has ended, and then
\* no task is left to start another one.
LEMMA JoinedStep == IInv /\ [Next]_vars => JoinedBeforeFinalize'
<1> SUFFICES ASSUME TypeOK, Chain, WaitGroupBalance, JoinedBeforeFinalize, [Next]_vars,
                    main' \in {"canceled", "finalized"}
             PROVE  /\ \A h \in Hop : dns'[h] \in {"off", "done"}
                    /\ ctrl' # "run"
                    /\ plain' = {} /\ \A h \in Hop, a \in Addr : ~Running(flow'[h][a])
  BY DEF IInv, JoinedBeforeFinalize
<1> USE DEF measurerVars, dnsVars, selVars, flowVars
<1> DEFINE Joined == /\ \A h \in Hop : dns[h] \in {"off", "done"}
                     /\ ctrl # "run"
                     /\ plain = {} /\ \A h \in Hop, a \in Addr : ~Running(flow[h][a])
<1>0. ASSUME Joined, UNCHANGED <<dns, ctrl, plain, flow>> PROVE Joined'
  BY <1>0
<1>1. CASE FinishMeasurement
  <2>1. wg = 0 /\ UNCHANGED <<dns, ctrl, plain, flow>>
    BY <1>1 DEF FinishMeasurement
  <2>2. 0 = Cardinality(Resolving) + Cardinality(Waiting) + Controlling
              + Cardinality(Flowing) + Cardinality(plain)
    BY <2>1 DEF WaitGroupBalance, Resolving, Waiting, Controlling, Flowing
  <2>3. /\ Cardinality(Resolving) \in Nat /\ Cardinality(Waiting) \in Nat /\ Controlling \in Nat
        /\ Cardinality(Flowing) \in Nat /\ Cardinality(plain) \in Nat
        /\ IsFiniteSet(Resolving) /\ IsFiniteSet(Flowing) /\ IsFiniteSet(plain)
    BY FiniteTasks DEF TypeOK, Resolving, Waiting, Controlling, Flowing
  <2>4. /\ Cardinality(Resolving) = 0 /\ Controlling = 0
        /\ Cardinality(Flowing) = 0 /\ Cardinality(plain) = 0
    <3> DEFINE r == Cardinality(Resolving)
               w == Cardinality(Waiting)
               c == Controlling
               f == Cardinality(Flowing)
               p == Cardinality(plain)
    <3>1. r \in Nat /\ w \in Nat /\ c \in Nat /\ f \in Nat /\ p \in Nat
      BY <2>3
    <3>2. 0 = r + w + c + f + p
      BY <2>2
    <3> HIDE DEF r, w, c, f, p
    <3>3. r = 0 /\ c = 0 /\ f = 0 /\ p = 0
      BY <3>1, <3>2, NothingLeft
    <3> QED
      BY <3>3 DEF r, c, f, p
  <2>5. Resolving = {} /\ Flowing = {} /\ plain = {}
    BY <2>3, <2>4, FS_EmptySet
  <2>6. \A h \in Hop : dns[h] \in {"off", "done"}
    BY <2>5 DEF Resolving
  <2>7. \A h \in Hop, a \in Addr : ~Running(flow[h][a])
    <3> SUFFICES ASSUME NEW h \in Hop, NEW a \in Addr, Running(flow[h][a]) PROVE FALSE
      OBVIOUS
    <3>1. <<h, a>> \in Flowing
      BY DEF Flowing
    <3> QED
      BY <2>5, <3>1
  <2>8. ctrl # "run"
    BY <2>4 DEF Controlling
  <2> QED
    BY <1>0, <2>1, <2>5, <2>6, <2>7, <2>8
<1>2. CASE StartMeasurement \/ Cancel
  BY <1>2 DEF StartMeasurement, Cancel
<1>3. ASSUME main' = main PROVE Joined
  BY <1>3 DEF JoinedBeforeFinalize
<1>4. CASE ControlFails \/ ControlSucceeds \/ Tick \/ UNCHANGED vars
  <2>1. main' = main
    BY <1>4 DEF ControlFails, ControlSucceeds, Tick, vars
  <2>2. CASE ControlFails \/ ControlSucceeds
    BY <1>3, <2>1, <2>2 DEF ControlFails, ControlSucceeds
  <2>3. CASE Tick \/ UNCHANGED vars
    BY <1>0, <1>3, <2>1, <2>3 DEF Tick, vars
  <2> QED
    BY <1>4, <2>2, <2>3
<1>5. ASSUME NEW h \in Hop,
             \/ AskCache(h) \/ ReceiveSystem(h) \/ ReceiveUDP(h) \/ ReceiveHTTPS(h)
             \/ ReceiveWhoami(h) \/ StartEndpoints(h) \/ StartControl(h)
      PROVE  FALSE
  <2>1. main' = main /\ dns[h] \notin {"off", "done"}
    BY <1>5 DEF AskCache, ReceiveSystem, ReceiveUDP, ReceiveHTTPS, ReceiveWhoami, StartEndpoints,
                StartControl
  <2> QED
    BY <1>3, <2>1
<1>6. ASSUME NEW h \in Hop,
             AddLateReplies(h) \/ WaitForLateReplies(h) \/ Expire(h) \/ SelectorCanceled(h)
      PROVE  Joined'
  <2>1. UNCHANGED <<main, dns, ctrl, plain, flow>>
    BY <1>6 DEF AddLateReplies, WaitForLateReplies, Expire, SelectorCanceled
  <2> QED
    BY <1>0, <1>3, <2>1
<1>7. ASSUME NEW h \in Hop, NEW a \in Addr,
             \/ Connect(h, a) \/ ConnectPlain(h, a) \/ SendRequest(h, a) \/ SendTimesOut(h, a)
             \/ ReceiveAnswer(h, a) \/ ReceiveTimesOut(h, a) \/ Fetch(h, a) \/ Redirect(h, a)
      PROVE  FALSE
  <2>1. main' = main /\ (flow[h][a] \in {"connect", "ask", "wait", "fetch"} \/ <<h, a>> \in plain)
    BY <1>7 DEF Connect, ConnectPlain, SendRequest, SendTimesOut, ReceiveAnswer,
                ReceiveTimesOut, Fetch, Redirect
  <2> QED
    BY <1>3, <2>1 DEF Running, Ended
<1> QED
  BY <1>1, <1>2, <1>4, <1>5, <1>6, <1>7, NextCases

-----------------------------------------------------------------------------
\* What Timely says of one flow of a hop.
TimelyFlow(h, a) ==
  /\ sel[h] = "collect" /\ Contains(requests[h], a) =>
       flow[h][a] = "wait" /\ flowTimer[h][a] > selTimer[h]
  /\ sel[h] = "collect" /\ flow[h][a] = "wait" => Contains(requests[h], a)
  /\ resp[h][a] = "yes" =>
       \/ flow[h][a] \in {"fetch", "fetched"}
       \/ flow[h][a] = "wait" /\ flowTimer[h][a] > 0
  /\ resp[h][a] = "no" => HasGrant(h)
  /\ ctx = "live" /\ sel[h] = "done" => HasGrant(h)
  /\ ctx # "canceled" /\ flow[h][a] = "denied" => HasGrant(h)

\* When Run has canceled the context, no flow is left.
LEMMA NoFlowAfterReturn ==
  ASSUME IInv, NEW h \in Hop, NEW a \in Addr, ctx = "returned" PROVE ~Acting(h, a)
<1>1. CASE main = "invalid"
  BY <1>1 DEF IInv, Chain, Started, Before, Acting
<1>2. CASE main \in {"canceled", "finalized"}
  BY <1>2 DEF IInv, JoinedBeforeFinalize, Running, Ended, Acting
<1> QED
  BY <1>1, <1>2 DEF IInv, Left, TypeOK

\* The margins of the timers: collected flows outlast the selector, the granted flow
\* waits for its answer, and whoever is turned away has lost to a granted flow.
LEMMA TimelyStep == IInv /\ [Next]_vars => Timely'
<1> SUFFICES ASSUME IInv, TypeOK, Started, Asked, Granted, Chain, [Next]_vars, ~hasty',
                    NEW k \in Hop, NEW b \in Addr
             PROVE  TimelyFlow(k, b)'
  BY DEF IInv, Timely, TimelyFlow
<1> USE DEF measurerVars, dnsVars, selVars, flowVars
<1>a. /\ requests \in [Hop -> Seq(Addr)] /\ sel \in [Hop -> {"off", "first", "collect", "done"}]
      /\ selTimer \in [Hop -> 0 .. ExtraTime] /\ flowTimer \in [Hop -> [Addr -> 0 .. RecvTimeout]]
      /\ ExtraTime \in Nat /\ RecvTimeout \in Nat /\ ExtraTime < RecvTimeout
  BY WebConnectivityAssumption DEF TypeOK
<1>b. ASSUME ~hasty PROVE \A h \in Hop, a \in Addr : TimelyFlow(h, a)
  BY <1>b DEF IInv, Timely, TimelyFlow
<1>c. ASSUME ~hasty, UNCHANGED <<sel, requests, selTimer, resp, flow, flowTimer>>,
             ctx' = ctx \/ ctx' = "canceled" \/ (ctx = "live" /\ ctx' = "returned")
      PROVE  TimelyFlow(k, b)'
  BY <1>b, <1>c DEF TimelyFlow, HasGrant
<1>1. CASE StartMeasurement \/ FinishMeasurement \/ Cancel \/ ControlFails \/ UNCHANGED vars
  <2>1. /\ hasty' = hasty /\ UNCHANGED <<sel, requests, selTimer, resp, flow, flowTimer>>
        /\ main = "start" \/ ctx' = ctx \/ ctx' = "canceled" \/ (ctx = "live" /\ ctx' = "returned")
    BY <1>1 DEF StartMeasurement, FinishMeasurement, Cancel, ControlFails, vars
  <2>2. main = "start" => sel[k] = "off" /\ flow[k][b] = "off"
    <3>1. main = "start" => dns[k] = "off"
      BY DEF Chain
    <3> QED
      BY <3>1 DEF Started, Before
  <2> QED
    BY <1>a, <1>b, <1>c, <2>1, <2>2 DEF TimelyFlow, HasGrant, Granted
<1>2. CASE ControlSucceeds
  <2>1. PICK addrs \in SUBSET Addr :
          /\ StartFlows(0, addrs) /\ 0 \in Hop
          /\ \A a \in addrs : flow[0][a] = "off"
          /\ UNCHANGED <<ctx, sel, requests, selTimer, resp, flowTimer, hasty>>
    BY <1>2, <1>a, ControlIsNew
  <2>2. flow'[k][b] = flow[k][b] \/ (flow[k][b] = "off" /\ flow'[k][b] = "connect")
    BY <2>1, StartFlowsTypes
  <2>3. flow[k][b] = "off" => resp[k][b] = "empty" /\ ~Contains(requests[k], b)
    BY <1>a DEF Asked
  <2> QED
    BY <1>b, <2>1, <2>2, <2>3 DEF TimelyFlow, HasGrant
<1>3. CASE Tick
  <2>1. /\ ~hasty /\ ~Due
        /\ UNCHANGED <<ctx, sel, requests, resp, flow>>
        /\ selTimer'[k] = Less(selTimer[k]) /\ flowTimer'[k][b] = Less(flowTimer[k][b])
    BY <1>3 DEF Tick
  <2>2. /\ sel[k] = "collect" => selTimer[k] # 0
        /\ flow[k][b] = "wait" => resp[k][b] = "empty"
    BY <1>a, <2>1 DEF Due, TypeOK
  <2>3. selTimer[k] \in Nat /\ flowTimer[k][b] \in Nat
    BY <1>a
  <2> QED
    BY <1>b, <2>1, <2>2, <2>3 DEF TimelyFlow, HasGrant, Less
<1>4. ASSUME NEW h \in Hop,
             \/ AskCache(h) \/ ReceiveSystem(h) \/ ReceiveUDP(h) \/ ReceiveHTTPS(h)
             \/ ReceiveWhoami(h) \/ StartControl(h) \/ AddLateReplies(h) \/ WaitForLateReplies(h)
      PROVE  TimelyFlow(k, b)'
  <2>1. UNCHANGED <<hasty, ctx, sel, requests, selTimer, resp, flow, flowTimer>>
    BY <1>4 DEF AskCache, ReceiveSystem, ReceiveUDP, ReceiveHTTPS, ReceiveWhoami,
                StartControl, AddLateReplies, WaitForLateReplies
  <2> QED
    BY <1>c, <2>1
<1>5. ASSUME NEW h \in Hop, StartEndpoints(h) PROVE TimelyFlow(k, b)'
  <2>1. /\ dns[h] = "flows" /\ StartFlows(h, Entries(h)) /\ sel' = [sel EXCEPT ![h] = "first"]
        /\ UNCHANGED <<hasty, ctx, requests, selTimer, resp, flowTimer>>
    BY <1>5 DEF StartEndpoints
  <2>2. Entries(h) \in SUBSET Addr
    BY DEF Entries
  <2>3. CASE k = h
    <3>1. flow[k][b] = "off" /\ sel[k] = "off"
      BY <1>a, <2>1, <2>3 DEF Started, Before
    <3>2. sel'[k] = "first" /\ flow'[k][b] \in {"off", "connect"} /\ resp'[k][b] = "empty"
      <4>1. sel'[k] = "first"
        BY <1>a, <2>1, <2>3
      <4>2. flow'[k][b] \in {"off", "connect"}
        BY <2>1, <2>2, <2>3, <3>1, StartFlowsTypes
      <4>3. resp'[k][b] = "empty"
        BY <2>1, <3>1 DEF Asked
      <4> QED
        BY <4>1, <4>2, <4>3
    <3> QED
      BY <3>2 DEF TimelyFlow
  <2>4. CASE k # h
    <3>1. flow'[k][b] = flow[k][b] /\ sel'[k] = sel[k]
      <4>1. sel'[k] = sel[k]
        BY <1>a, <2>1, <2>4
      <4>2. flow'[k][b] = flow[k][b]
        BY <2>1, <2>2, <2>4, StartFlowsTypes
      <4> QED
        BY <4>1, <4>2
    <3> QED
      BY <1>b, <2>1, <3>1 DEF TimelyFlow, HasGrant
  <2> QED
    BY <2>3, <2>4
<1>6. ASSUME NEW h \in Hop, Expire(h) PROVE TimelyFlow(k, b)'
  <2>1. PICK top \in Addr :
           /\ Contains(requests[h], top)
           /\ \A n \in Hop, a \in Addr :
                resp'[n][a] = IF n = h
                                THEN IF a = top THEN "yes"
                                     ELSE IF Contains(requests[h], a) THEN "no" ELSE resp[n][a]
                                ELSE resp[n][a]
    BY <1>6, <1>a, ExpireEffect
  <2>2. /\ sel[h] = "collect" /\ selTimer[h] = 0 /\ sel' = [sel EXCEPT ![h] = "done"]
        /\ requests' = [requests EXCEPT ![h] = <<>>]
        /\ UNCHANGED <<hasty, ctx, flow, selTimer, flowTimer>>
    BY <1>6 DEF Expire
  <2>3. CASE k = h
    <3>1. HasGrant(k)' /\ sel'[k] = "done"
      BY <1>a, <2>1, <2>2, <2>3 DEF HasGrant
    <3>2. resp'[k][b] = "yes" => b = top
      BY <1>a, <2>1, <2>2, <2>3 DEF Granted
    <3>3. flow[h][top] = "wait" /\ flowTimer[h][top] > 0
      BY <1>b, <2>1, <2>2 DEF TimelyFlow
    <3> QED
      BY <2>2, <2>3, <3>1, <3>2, <3>3 DEF TimelyFlow
  <2>4. CASE k # h
    <3>1. sel'[k] = sel[k] /\ requests'[k] = requests[k] /\ \A a \in Addr : resp'[k][a] = resp[k][a]
      BY <1>a, <2>1, <2>2, <2>4
    <3> QED
      BY <1>b, <2>2, <3>1 DEF TimelyFlow, HasGrant
  <2> QED
    BY <2>3, <2>4
<1>7. ASSUME NEW h \in Hop, SelectorCanceled(h) PROVE TimelyFlow(k, b)'
  <2>1. /\ Receiving(h) /\ ctx # "live" /\ sel' = [sel EXCEPT ![h] = "done"]
        /\ requests' = [requests EXCEPT ![h] = <<>>] /\ selTimer' = [selTimer EXCEPT ![h] = 0]
        /\ UNCHANGED <<hasty, ctx, flow, resp, flowTimer>>
    BY <1>7 DEF SelectorCanceled
  <2>2. CASE k = h
    BY <1>a, <1>b, <2>1, <2>2 DEF TimelyFlow, HasGrant
  <2>3. CASE k # h
    <3>1. sel'[k] = sel[k] /\ requests'[k] = requests[k] /\ selTimer'[k] = selTimer[k]
      BY <1>a, <2>1, <2>3
    <3> QED
      BY <1>b, <2>1, <3>1 DEF TimelyFlow, HasGrant
  <2> QED
    BY <2>2, <2>3
<1>8. ASSUME NEW h \in Hop, NEW a \in Addr,
             \/ Connect(h, a) \/ SendTimesOut(h, a) \/ ReceiveAnswer(h, a)
             \/ ReceiveTimesOut(h, a) \/ Fetch(h, a) \/ Redirect(h, a)
      PROVE  TimelyFlow(k, b)'
  <2>1. /\ UNCHANGED <<ctx, sel, requests, selTimer, resp>>
        /\ hasty' = hasty \/ (SendTimesOut(h, a) /\ (~hasty' => ~hasty /\ ~Receiving(h)))
        /\ Acting(h, a)
        /\ \A n \in Hop, c \in Addr : <<n, c>> # <<h, a>> => flow'[n][c] = flow[n][c]
    BY <1>8, <1>a, FlowEffect
    DEF Connect, SendTimesOut, ReceiveAnswer, ReceiveTimesOut, Fetch, Redirect
  <2>2. flowTimer' = flowTimer \/ flowTimer' = [flowTimer EXCEPT ![h][a] = 0]
    BY <1>8 DEF Connect, SendTimesOut, ReceiveAnswer, ReceiveTimesOut, Fetch, Redirect, FlowEnds
  <2>3. ~hasty
    BY <2>1
  <2>4. CASE <<k, b>> # <<h, a>>
    <3>1. flowTimer'[k][b] = flowTimer[k][b]
      BY <1>a, <2>2, <2>4
    <3> QED
      BY <1>b, <2>1, <2>3, <2>4, <3>1 DEF TimelyFlow, HasGrant
  <2>5. CASE k = h /\ b = a
    <3>1. ctx # "returned"
      BY <2>1, NoFlowAfterReturn
    <3>2. HasGrant(h)' <=> HasGrant(h)
      BY <2>1 DEF HasGrant
    <3>3. flow[h][a] \in {"connect", "ask"} => resp[h][a] = "empty" /\ ~Contains(requests[h], a)
      BY <1>a DEF Asked
    <3>4. TimelyFlow(h, a)
      BY <1>b, <2>3
    <3>5. flow[h][a] # "wait" => ~(sel[h] = "collect" /\ Contains(requests[h], a))
      BY <3>4 DEF TimelyFlow
    <3>6. CASE Connect(h, a)
      <4>1. flow[h][a] = "connect" /\ flow'[h][a] \in {"failed", "ask"}
        BY <1>a, <3>6 DEF Connect, FlowEnds, TypeOK
      <4> QED
        BY <2>1, <2>5, <3>2, <3>3, <3>4, <4>1 DEF TimelyFlow
    <3>7. CASE SendTimesOut(h, a)
      <4>1. flow[h][a] = "ask" /\ flow'[h][a] = "denied" /\ ~Receiving(h)
        BY <1>a, <2>1, <3>7 DEF SendTimesOut, FlowEnds, TypeOK
      <4>2. sel[h] = "done"
        BY <1>a, <4>1 DEF Started, Before, Receiving
      <4>3. ctx # "canceled" => HasGrant(h)
        BY <1>a, <3>1, <3>4, <4>2 DEF TimelyFlow, TypeOK
      <4> QED
        BY <2>1, <2>5, <3>2, <3>3, <3>4, <4>1, <4>3 DEF TimelyFlow
    <3>8. CASE ReceiveAnswer(h, a)
      <4>1. /\ flow[h][a] = "wait"
            /\ \/ resp[h][a] = "yes" /\ flow'[h][a] = "fetch"
               \/ resp[h][a] = "no" /\ flow'[h][a] = "denied"
        BY <1>a, <3>8 DEF ReceiveAnswer, FlowEnds, TypeOK
      <4>2. sel[h] = "done"
        BY <1>a, <4>1 DEF Granted, TypeOK
      <4> QED
        BY <2>1, <2>5, <3>2, <3>4, <4>1, <4>2 DEF TimelyFlow
    <3>9. CASE ReceiveTimesOut(h, a)
      <4>1. flow[h][a] = "wait" /\ flowTimer[h][a] = 0 /\ flow'[h][a] = "denied"
        BY <1>a, <3>9 DEF ReceiveTimesOut, FlowEnds, TypeOK
      <4>2. resp[h][a] # "yes"
        BY <3>4, <4>1 DEF TimelyFlow
      <4>3. sel[h] = "done"
        <5>1. sel[h] \notin {"off", "first"}
          BY <1>a, <4>1 DEF Asked
        <5>2. selTimer[h] \in Nat
          BY <1>a
        <5>3. sel[h] # "collect"
          BY <3>4, <4>1, <5>2 DEF TimelyFlow
        <5> QED
          BY <1>a, <5>1, <5>3
      <4>4. ctx # "canceled" => HasGrant(h)
        BY <1>a, <3>1, <3>4, <4>3 DEF TimelyFlow, TypeOK
      <4> QED
        BY <2>1, <2>5, <3>2, <3>4, <4>1, <4>2, <4>3, <4>4 DEF TimelyFlow
    <3>10. CASE Fetch(h, a) \/ Redirect(h, a)
      <4>1. flow[h][a] = "fetch" /\ flow'[h][a] = "fetched"
        BY <1>a, <3>10 DEF Fetch, Redirect, FlowEnds, TypeOK
      <4> QED
        BY <2>1, <2>5, <3>2, <3>4, <3>5, <4>1 DEF TimelyFlow
    <3> QED
      BY <1>8, <3>6, <3>7, <3>8, <3>9, <3>10
  <2> QED
    BY <2>4, <2>5
<1>9. ASSUME NEW h \in Hop, NEW a \in Addr, ConnectPlain(h, a) PROVE TimelyFlow(k, b)'
  BY <1>9, <1>c DEF ConnectPlain
<1>10. ASSUME NEW h \in Hop, NEW a \in Addr, SendRequest(h, a) PROVE TimelyFlow(k, b)'
  <2>1. /\ flow[h][a] = "ask" /\ flow'[h][a] = "wait" /\ Receiving(h)
        /\ \A n \in Hop \ {h} :
             sel'[n] = sel[n] /\ requests'[n] = requests[n] /\ selTimer'[n] = selTimer[n]
        /\ \A n \in Hop, c \in Addr : <<n, c>> # <<h, a>> =>
             /\ resp'[n][c] = resp[n][c] /\ flowTimer'[n][c] = flowTimer[n][c]
             /\ flow'[n][c] = flow[n][c]
        /\ flowTimer'[h][a] = RecvTimeout
        /\ hasty' = hasty /\ ctx' = ctx
    <3>1. hasty' = hasty /\ ctx' = ctx
      BY <1>10 DEF SendRequest
    <3> QED
      BY <1>10, <3>1, SendRequestEffect, FlowEffect
  <2>2. \A n \in Hop, c \in Addr : resp[n][c] = "yes" => resp'[n][c] = "yes"
    BY <2>1 DEF Asked
  <2>3. \A n \in Hop : HasGrant(n) => HasGrant(n)'
    BY <2>2 DEF HasGrant
  <2>4. CASE k # h
    BY <1>b, <2>1, <2>3, <2>4 DEF TimelyFlow
  <2>5. CASE k = h
    <3>1. TimelyFlow(h, b) /\ requests[h] \in Seq(Addr) /\ selTimer[h] \in 0 .. ExtraTime
      BY <1>a, <1>b, <2>1
    <3>2. resp[h][a] = "empty" /\ resp[h][b] = "empty"
      BY <1>a, <2>1 DEF Granted, Receiving
    <3>3. b # a => flow[h][b] # "denied" \/ ctx = "canceled"
      <4>1. ~HasGrant(h)
        BY <1>a, <2>1 DEF HasGrant, Granted, Receiving
      <4> QED
        BY <3>1, <4>1 DEF TimelyFlow
    <3>4. CASE /\ sel[h] = "first" /\ sel'[h] = "done"
               /\ resp'[h][a] = "yes" /\ requests'[h] = requests[h]
      <4>1. HasGrant(h)'
        BY <3>4 DEF HasGrant
      <4>2. b # a => resp'[h][b] = "empty"
        BY <2>1, <3>2
      <4> QED
        BY <1>a, <2>1, <2>5, <3>4, <4>1, <4>2 DEF TimelyFlow
    <3>5. CASE /\ sel'[h] = "collect" /\ resp'[h][a] = resp[h][a]
               /\ requests'[h] = Append(requests[h], a)
               /\ selTimer'[h] = IF sel[h] = "first" THEN ExtraTime ELSE selTimer[h]
      <4>1. resp'[h][b] = "empty"
        BY <2>1, <3>2, <3>5
      <4>2. Contains(requests'[h], b) <=> Contains(requests[h], b) \/ a = b
        BY <3>1, <3>5, AppendContains
      <4>3. CASE b = a
        BY <1>a, <2>1, <2>5, <3>1, <3>5, <4>1, <4>2, <4>3 DEF TimelyFlow
      <4>4. CASE b # a
        <5>1. CASE sel[h] = "collect"
          BY <2>1, <2>5, <3>1, <3>3, <3>5, <4>1, <4>2, <4>4, <5>1 DEF TimelyFlow
        <5>2. CASE sel[h] = "first"
          <6>1. ~Contains(requests[h], b) /\ flow[h][b] # "wait"
            BY <1>a, <5>2, AppendContains DEF Asked
          <6> QED
            BY <2>1, <2>5, <3>3, <3>5, <4>1, <4>2, <4>4, <6>1 DEF TimelyFlow
        <5> QED
          BY <2>1, <5>1, <5>2 DEF Receiving
      <4> QED
        BY <4>3, <4>4
    <3> QED
      BY <1>10, <1>a, <2>5, <3>4, <3>5, SendRequestEffect
  <2> QED
    BY <2>4, <2>5
<1> QED
  BY <1>1, <1>2, <1>3, <1>4, <1>5, <1>6, <1>7, <1>8, <1>9, <1>10, NextCases, Zenon

-----------------------------------------------------------------------------
\* The invariant is inductive.
LEMMA IInvAlways == Spec => []IInv
<1>1. Init => IInv
  BY InitIInv
<1>2. IInv /\ [Next]_vars => IInv'
  <2> SUFFICES ASSUME IInv, [Next]_vars PROVE IInv'
    OBVIOUS
  <2>1. TypeOK'
    BY TypeStep
  <2>2. Started' /\ Asked' /\ Granted' /\ Chain' /\ Left' /\ JoinedBeforeFinalize'
    BY StartedStep, AskedStep, GrantedStep, ChainStep, LeftStep, JoinedStep
  <2>3. WaitGroupBalance' /\ Timely'
    BY <2>1, BalanceStep, TimelyStep
  <2> QED
    BY <2>1, <2>2, <2>3 DEF IInv
<1> QED
  BY <1>1, <1>2, PTL DEF Spec

\* The types of the measurement's state, for any number of hops and addresses.
THEOREM TypeCorrect == Spec => []TypeOK
<1>1. IInv => TypeOK
  BY DEF IInv
<1> QED
  BY <1>1, IInvAlways, PTL

\* The WaitGroup of Measurer.Run counts exactly the tasks that have not ended: every
\* Add comes before its goroutine and every Done after its last step, in the flows
\* that redirects and the test helper start as well.
THEOREM WaitGroupBalanceAlways == Spec => []WaitGroupBalance
<1>1. IInv => WaitGroupBalance
  BY DEF IInv
<1> QED
  BY <1>1, IInvAlways, PTL

\* When Measurer.Run comes back from Wait, no flow, no control task and no DNSResolvers
\* task is left that could still write to the test keys.
THEOREM JoinedBeforeFinalizeAlways == Spec => []JoinedBeforeFinalize
<1>1. IInv => JoinedBeforeFinalize
  BY DEF IInv
<1> QED
  BY <1>1, IInvAlways, PTL

\* No hop is fetched twice, whatever the selector, the timers and the test helper do.
THEOREM AtMostOneFetchAlways == Spec => []AtMostOneFetch
<1>1. IInv => AtMostOneFetch
  BY IInvImplies
<1> QED
  BY <1>1, IInvAlways, PTL

\* As long as goroutines run within the margin of the timers and nobody cancels, a hop
\* whose flows were turned away has been fetched by another flow.
THEOREM SomeoneFetchesAlways == Spec => []SomeoneFetches
<1>1. IInv => SomeoneFetches
  BY IInvImplies
<1> QED
  BY <1>1, IInvAlways, PTL

=============================================================================
