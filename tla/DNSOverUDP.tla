----------------------------- MODULE DNSOverUDP -----------------------------
(***************************************************************************)
(* A DNS-over-UDP lookup with late replies: lookupHostUDP of Web            *)
(* Connectivity LTE, the wrapped resolver it calls, which answers some       *)
(* domains without a query, the parallel resolver's A and AAAA goroutines, the *)
(* DNS-over-UDP transport with the goroutine that keeps reading its socket   *)
(* after the first reply, and the two bounded buffers of the trace.          *)
(*                                                                         *)
(* The network may lose, repeat or corrupt what the server sends: any        *)
(* sequence of datagrams may reach a socket while it is open.               *)
(***************************************************************************)
EXTENDS Integers, Sequences

CONSTANTS
  MaxReplies,                   \* bound: datagrams that reach each socket
  DNSLookupBufferSize,
  DelayedDNSResponseBufferSize

Qtype == {"A", "AAAA"}

ASSUME DNSOverUDPAssumption ==
  /\ MaxReplies \in [Qtype -> Nat]
  /\ DNSLookupBufferSize \in Nat \ {0, 1}
  /\ DelayedDNSResponseBufferSize \in Nat \ {0}

\* What a datagram holds, for DecodeResponse and DecodeLookupHost: addresses, a
\* reply without any (NXDOMAIN, SERVFAIL, no answer), or not a reply to the query.
Content == {"addrs", "noaddrs", "garbage"}

\* What the domain is, for the wrapped resolver: a name to ask the server about, an
\* IP address, or something that idnax.ToASCII fails on.
Domain == {"name", "ipaddr", "notidna"}

\* A datagram, numbered in the order of arrival at the socket.
Datagram == [n : Nat \ {0}, has : Content]

\* An entry of the trace.
Event == [qtype : Qtype, n : Nat, has : {"addrs", "noaddrs", "error"}]

\* RoundTrip has not returned yet.
NoOutcome(q) == [qtype |-> q, n |-> 0, has |-> "none"]

VARIABLES
  domain,      \* the domain to look up
  sock,        \* the socket of each query
  closes,      \* how often it was closed
  failing,     \* its deadline has passed, or it has a pending error
  inbox,       \* its receive queue
  arrived,     \* how many datagrams ever reached it
  rt,          \* lookupHost and RoundTrip, for each query
  outcome,     \* what RoundTrip and DecodeLookupHost returned
  reader,      \* ownConnAndSendRecvLoop
  held,        \* the datagram it is about to post
  dnsLookup,   \* Trace.dnsLookup
  delayed,     \* Trace.delayedDNSResponse
  main,        \* lookupHostUDP, LookupHost and waitForLateReplies
  queries,     \* the test keys' queries
  lateReplies, \* the test keys' late replies
  result,      \* what LookupHost returned
  postedInTime \* late replies posted when the wait timed out

sockVars == <<sock, closes, failing, inbox, arrived>>
rtVars == <<rt, outcome>>
readerVars == <<reader, held>>
mainVars == <<domain, main, queries, lateReplies, result, postedInTime>>
vars == <<sockVars, rtVars, readerVars, dnsLookup, delayed, mainVars>>

TypeOK ==
  /\ domain \in Domain
  /\ sock \in [Qtype -> {"none", "open", "closed"}]
  /\ closes \in [Qtype -> Nat]
  /\ failing \in [Qtype -> BOOLEAN]
  /\ inbox \in [Qtype -> Seq(Datagram)]
  /\ arrived \in [Qtype -> Nat]
  /\ rt \in [Qtype -> {"off", "dial", "write", "recv", "event", "send", "done"}]
  /\ outcome \in [Qtype -> Event \cup {NoOutcome(q) : q \in Qtype}]
  /\ reader \in [Qtype -> {"off", "recv", "post", "done"}]
  /\ held \in [Qtype -> Seq(Event)]
  /\ dnsLookup \in Seq(Event) /\ Len(dnsLookup) <= DNSLookupBufferSize
  /\ delayed \in Seq(Event) /\ Len(delayed) <= DelayedDNSResponseBufferSize
  /\ main \in {"lookup", "A", "AAAA", "save", "out", "wait", "drain", "done"}
  /\ queries \in Seq(Event) /\ lateReplies \in Seq(Event)
  /\ result \in {"none", "addrs", "error"}
  /\ postedInTime \in Nat

Init ==
  /\ domain \in Domain
  /\ sock = [q \in Qtype |-> "none"]
  /\ closes = [q \in Qtype |-> 0]
  /\ failing = [q \in Qtype |-> FALSE]
  /\ inbox = [q \in Qtype |-> <<>>]
  /\ arrived = [q \in Qtype |-> 0]
  /\ rt = [q \in Qtype |-> "off"]
  /\ outcome = [q \in Qtype |-> NoOutcome(q)]
  /\ reader = [q \in Qtype |-> "off"]
  /\ held = [q \in Qtype |-> <<>>]
  /\ dnsLookup = <<>> /\ delayed = <<>>
  /\ main = "lookup" /\ queries = <<>> /\ lateReplies = <<>> /\ result = "none"
  /\ postedInTime = 0

-----------------------------------------------------------------------------
\* The network and the clock.

Arrive(q) ==
  /\ sock[q] = "open" /\ arrived[q] < MaxReplies[q]
  /\ arrived' = [arrived EXCEPT ![q] = @ + 1]
  /\ \E c \in Content :
       inbox' = [inbox EXCEPT ![q] = Append(@, [n |-> arrived[q] + 1, has |-> c])]
  /\ UNCHANGED <<sock, closes, failing, rtVars, readerVars, dnsLookup, delayed, mainVars>>

\* The five seconds of conn.SetDeadline are over, or an ICMP message has become an
\* error of the connected socket: conn.Read fails.
SocketFails(q) ==
  /\ sock[q] = "open" /\ ~failing[q]
  /\ failing' = [failing EXCEPT ![q] = TRUE]
  /\ UNCHANGED <<sock, closes, inbox, arrived, rtVars, readerVars, dnsLookup, delayed,
                 mainVars>>

-----------------------------------------------------------------------------
\* RoundTrip, in the goroutine lookupHost(q).

\* Closing a socket discards what is in its queue.
Close(q) ==
  /\ sock' = [sock EXCEPT ![q] = "closed"]
  /\ closes' = [closes EXCEPT ![q] = @ + 1]
  /\ inbox' = [inbox EXCEPT ![q] = <<>>]

Returns(q, n, has) ==
  /\ rt' = [rt EXCEPT ![q] = "event"]
  /\ outcome' = [outcome EXCEPT ![q] = [qtype |-> q, n |-> n, has |-> has]]

\* An error of DialContext, that of a context that has ended included.
DialFails(q) ==
  /\ rt[q] = "dial"
  /\ Returns(q, 0, "error")
  /\ UNCHANGED <<sockVars, readerVars, dnsLookup, delayed, mainVars>>

Dial(q) ==
  /\ rt[q] = "dial"
  /\ sock' = [sock EXCEPT ![q] = "open"]
  /\ rt' = [rt EXCEPT ![q] = "write"]
  /\ UNCHANGED <<closes, failing, inbox, arrived, outcome, readerVars, dnsLookup, delayed,
                 mainVars>>

Write(q) ==
  /\ rt[q] = "write" /\ ~failing[q]
  /\ rt' = [rt EXCEPT ![q] = "recv"]
  /\ UNCHANGED <<sockVars, outcome, readerVars, dnsLookup, delayed, mainVars>>

WriteFails(q) ==
  /\ rt[q] = "write"
  /\ Returns(q, 0, "error")
  /\ Close(q)
  /\ UNCHANGED <<failing, arrived, readerVars, dnsLookup, delayed, mainVars>>

\* conn.Read returns the next datagram of the queue.
CanRead(q) == sock[q] = "open" /\ ~failing[q] /\ inbox[q] # <<>>

Take(q) == inbox' = [inbox EXCEPT ![q] = Tail(@)]

\* A mutant: the socket is closed and handed to the goroutine as well.
M_RecvReply(q) ==
  /\ rt[q] = "recv" /\ CanRead(q) /\ Head(inbox[q]).has # "garbage"
  /\ Returns(q, Head(inbox[q]).n, Head(inbox[q]).has)
  /\ reader' = [reader EXCEPT ![q] = "recv"]
  /\ Close(q)
  /\ UNCHANGED <<failing, arrived, held, dnsLookup, delayed, mainVars>>

\* The socket goes to ownConnAndSendRecvLoop.
RecvReply(q) ==
  /\ rt[q] = "recv" /\ CanRead(q) /\ Head(inbox[q]).has # "garbage"
  /\ Take(q)
  /\ Returns(q, Head(inbox[q]).n, Head(inbox[q]).has)
  /\ reader' = [reader EXCEPT ![q] = "recv"]
  /\ UNCHANGED <<sock, closes, failing, arrived, held, dnsLookup, delayed, mainVars>>

\* What recv fails on: conn.Read, or a datagram that is not a reply.
RecvError(q) == failing[q] \/ (CanRead(q) /\ Head(inbox[q]).has = "garbage")

RecvFails(q) ==
  /\ rt[q] = "recv"
  /\ RecvError(q)
  /\ Returns(q, 0, "error")
  /\ Close(q)
  /\ UNCHANGED <<failing, arrived, readerVars, dnsLookup, delayed, mainVars>>

\* OnDNSRoundTripForLookupHost: an event that does not fit is dropped.
OnDNSRoundTrip(q) ==
  /\ rt[q] = "event"
  /\ rt' = [rt EXCEPT ![q] = "send"]
  /\ dnsLookup' = IF Len(dnsLookup) < DNSLookupBufferSize
                    THEN Append(dnsLookup, outcome[q]) ELSE dnsLookup
  /\ UNCHANGED <<sockVars, outcome, readerVars, delayed, mainVars>>

-----------------------------------------------------------------------------
\* ownConnAndSendRecvLoop.

ReadLate(q) ==
  /\ reader[q] = "recv" /\ CanRead(q) /\ Head(inbox[q]).has # "garbage"
  /\ Take(q)
  /\ held' = [held EXCEPT ![q] =
       <<[qtype |-> q, n |-> Head(inbox[q]).n, has |-> Head(inbox[q]).has]>>]
  /\ reader' = [reader EXCEPT ![q] = "post"]
  /\ UNCHANGED <<sock, closes, failing, arrived, rtVars, dnsLookup, delayed, mainVars>>

ReadFails(q) ==
  /\ reader[q] = "recv"
  /\ RecvError(q)
  /\ reader' = [reader EXCEPT ![q] = "done"]
  /\ Close(q)
  /\ UNCHANGED <<failing, arrived, held, rtVars, dnsLookup, delayed, mainVars>>

Fits == Len(delayed) < DelayedDNSResponseBufferSize

\* OnDelayedDNSResponse puts the reply in the buffer, and the loop goes on.
Post(q) ==
  /\ reader[q] = "post" /\ Fits
  /\ delayed' = delayed \o held[q]
  /\ held' = [held EXCEPT ![q] = <<>>]
  /\ reader' = [reader EXCEPT ![q] = "recv"]
  /\ UNCHANGED <<sockVars, rtVars, dnsLookup, mainVars>>

\* A mutant: a full buffer costs only the reply that did not fit.
M_PostFails(q) ==
  /\ reader[q] = "post" /\ ~Fits
  /\ held' = [held EXCEPT ![q] = <<>>]
  /\ reader' = [reader EXCEPT ![q] = "recv"]
  /\ UNCHANGED <<sockVars, rtVars, dnsLookup, delayed, mainVars>>

\* A mutant: a send that waits for room in the buffer.
M2_PostFails(q) == FALSE

\* The buffer is full: the reply is dropped and the loop ends.
PostFails(q) ==
  /\ reader[q] = "post" /\ ~Fits
  /\ held' = [held EXCEPT ![q] = <<>>]
  /\ reader' = [reader EXCEPT ![q] = "done"]
  /\ Close(q)
  /\ UNCHANGED <<failing, arrived, rtVars, dnsLookup, delayed, mainVars>>

-----------------------------------------------------------------------------
\* LookupHost, lookupHostUDP and waitForLateReplies.

\* The parallel resolver starts the two goroutines.
LookupHost ==
  /\ main = "lookup" /\ domain = "name"
  /\ main' = "A"
  /\ rt' = [q \in Qtype |-> "dial"]
  /\ UNCHANGED <<domain, sockVars, outcome, readerVars, dnsLookup, delayed, queries,
                 lateReplies, result, postedInTime>>

\* LookupHost returns before the parallel resolver is called.
Returned(res) ==
  /\ main = "lookup"
  /\ main' = "save"
  /\ result' = res
  /\ UNCHANGED <<domain, sockVars, rtVars, readerVars, dnsLookup, delayed, queries,
                 lateReplies, postedInTime>>

\* A mutant: an IP address goes to the server like a name.
M_ShortCircuitIPAddr ==
  /\ main = "lookup" /\ domain = "ipaddr"
  /\ main' = "A"
  /\ rt' = [q \in Qtype |-> "dial"]
  /\ UNCHANGED <<domain, sockVars, outcome, readerVars, dnsLookup, delayed, queries,
                 lateReplies, result, postedInTime>>

\* ResolverShortCircuitIPAddr: an IP address is its own address.
ShortCircuitIPAddr == domain = "ipaddr" /\ Returned("addrs")

\* resolverIDNA: the domain cannot be encoded.
ToASCIIFails == domain = "notidna" /\ Returned("error")

\* A mutant: the result is used before its round trip was recorded.
M_ReceiveResult(q) ==
  /\ main = q /\ rt[q] \in {"event", "send"}
  /\ rt' = [rt EXCEPT ![q] = "done"]
  /\ main' = IF q = "A" THEN "AAAA" ELSE "save"
  /\ result' = IF outcome[q].has = "addrs" \/ result = "addrs" THEN "addrs" ELSE "error"
  /\ UNCHANGED <<domain, sockVars, outcome, readerVars, dnsLookup, delayed, queries,
                 lateReplies, postedInTime>>

\* ares := <-ach, then aaaares := <-aaaach.  The lookup fails when both queries
\* did; a decoded reply without error has addresses.
ReceiveResult(q) ==
  /\ main = q /\ rt[q] = "send"
  /\ rt' = [rt EXCEPT ![q] = "done"]
  /\ main' = IF q = "A" THEN "AAAA" ELSE "save"
  /\ result' = IF outcome[q].has = "addrs" \/ result = "addrs" THEN "addrs" ELSE "error"
  /\ UNCHANGED <<domain, sockVars, outcome, readerVars, dnsLookup, delayed, queries,
                 lateReplies, postedInTime>>

\* DNSLookupsFromRoundTrip drains the buffer.
SaveQueries ==
  /\ main = "save"
  /\ main' = "out"
  /\ queries' = queries \o dnsLookup
  /\ dnsLookup' = <<>>
  /\ UNCHANGED <<domain, sockVars, rtVars, readerVars, delayed, lateReplies, result,
                 postedInTime>>

\* out <- addrs, and the goroutine of waitForLateReplies starts.
SendAddrs ==
  /\ main = "out"
  /\ main' = "wait"
  /\ UNCHANGED <<domain, sockVars, rtVars, readerVars, dnsLookup, delayed, queries,
                 lateReplies, result, postedInTime>>

\* DelayedDNSResponseWithTimeout, before the timeout and after it.
ReceiveLate ==
  /\ main \in {"wait", "drain"} /\ delayed # <<>>
  /\ lateReplies' = Append(lateReplies, Head(delayed))
  /\ delayed' = Tail(delayed)
  /\ UNCHANGED <<domain, sockVars, rtVars, readerVars, dnsLookup, main, queries, result,
                 postedInTime>>

\* A mutant: the timeout returns without draining the buffer.
M_WaitTimesOut ==
  /\ main = "wait"
  /\ main' = "done"
  /\ postedInTime' = Len(lateReplies) + Len(delayed)
  /\ UNCHANGED <<domain, sockVars, rtVars, readerVars, dnsLookup, delayed, queries,
                 lateReplies, result>>

\* The 500 ms have passed, or the caller's context has ended.
WaitTimesOut ==
  /\ main = "wait"
  /\ main' = "drain"
  /\ postedInTime' = Len(lateReplies) + Len(delayed)
  /\ UNCHANGED <<domain, sockVars, rtVars, readerVars, dnsLookup, delayed, queries,
                 lateReplies, result>>

Drained ==
  /\ main = "drain" /\ delayed = <<>>
  /\ main' = "done"
  /\ UNCHANGED <<domain, sockVars, rtVars, readerVars, dnsLookup, delayed, queries,
                 lateReplies, result, postedInTime>>

\* The lookup is over and its goroutines have ended.
Idle ==
  /\ main = "done"
  /\ UNCHANGED vars

-----------------------------------------------------------------------------

RoundTrip(q) ==
  \/ DialFails(q) \/ Dial(q) \/ Write(q) \/ WriteFails(q)
  \/ RecvReply(q) \/ RecvFails(q) \/ OnDNSRoundTrip(q)

Reader(q) == ReadLate(q) \/ ReadFails(q) \/ Post(q) \/ PostFails(q)

Main ==
  \/ LookupHost \/ ShortCircuitIPAddr \/ ToASCIIFails
  \/ \E q \in Qtype : ReceiveResult(q)
  \/ SaveQueries \/ SendAddrs \/ ReceiveLate \/ Drained

Next ==
  \/ \E q \in Qtype : Arrive(q) \/ SocketFails(q) \/ RoundTrip(q) \/ Reader(q)
  \/ Main \/ WaitTimesOut \/ Idle

Spec == Init /\ [][Next]_vars

\* Every goroutine that can run does, and the two timeouts come; datagrams may
\* stay away for ever.
FairSpec ==
  /\ Spec
  /\ \A q \in Qtype : WF_vars(SocketFails(q)) /\ WF_vars(RoundTrip(q)) /\ WF_vars(Reader(q))
  /\ WF_vars(Main) /\ WF_vars(WaitTimesOut)

-----------------------------------------------------------------------------
\* The socket has one owner at a time: whoever reads it finds it open, nobody
\* closes it twice, and it is open only while RoundTrip or the reader goroutine it
\* was handed to still has to close it.
OneOwner ==
  \A q \in Qtype :
    /\ closes[q] = IF sock[q] = "closed" THEN 1 ELSE 0
    /\ sock[q] = "open" <=> (rt[q] \in {"write", "recv"}) # (reader[q] \in {"recv", "post"})

\* The late replies that left the reader, and the numbers of all the replies to a
\* query that anybody has seen.
Late == lateReplies \o delayed
Seen(q) ==
  ({outcome[q].n} \ {0}) \cup {Late[i].n : i \in {k \in DOMAIN Late : Late[k].qtype = q}}
                        \cup {held[q][i].n : i \in DOMAIN held[q]}

\* What the measurement makes of the replies to a query: the first one is the
\* answer, and the next ones are the late replies, each of them once and in the
\* order of arrival.  Replies go missing only at the end, after the reader has
\* given up: a full buffer never leaves a gap.  And those posted before the wait
\* timed out are saved, although the select of DelayedDNSResponseWithTimeout may
\* choose the timeout first.
LateRepliesFollowAnswer ==
  /\ main = "done" => Len(lateReplies) >= postedInTime
  /\ \A i, j \in DOMAIN Late :
       i < j /\ Late[i].qtype = Late[j].qtype => Late[i].n < Late[j].n
  /\ \A i \in DOMAIN Late :
       LET q == Late[i].qtype
       IN  /\ outcome[q].n = 1 /\ Late[i].n > 1
           /\ \A k \in DOMAIN held[q] : Late[i].n < held[q][k].n
  /\ \A q \in Qtype : \E m \in 0 .. arrived[q] :
       /\ Seen(q) = 1 .. m
       /\ sock[q] = "open" =>
            /\ Len(inbox[q]) = arrived[q] - m
            /\ \A k \in DOMAIN inbox[q] : inbox[q][k].n = m + k

\* Once lookupHostUDP sends out its addresses, the test keys explain the result.  A
\* name has one entry for each of the two queries, although the goroutines end in any
\* order, and the result is addresses exactly when one of them got some.  An IP
\* address and a domain without an encoding have no entry, and never use the network.
QueriesExplainResult ==
  main \in {"out", "wait", "drain", "done"} =>
    /\ \A q \in Qtype :
         IF domain = "name"
           THEN \E i \in DOMAIN queries :
                  \A j \in DOMAIN queries : queries[j].qtype = q <=> j = i
           ELSE queries = <<>> /\ sock[q] = "none"
    /\ result = "addrs" <=>
         domain = "ipaddr" \/ \E i \in DOMAIN queries : queries[i].has = "addrs"

\* Every socket is closed in the end and the lookup returns, whatever the server
\* sends, and whether or not somebody still reads the buffer of late replies.
EverythingEnds ==
  <>[](main = "done" /\ \A q \in Qtype : sock[q] # "open" /\ reader[q] \in {"off", "done"})
=============================================================================
