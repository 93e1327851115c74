-------------------------- MODULE DNSOverUDP_proofs --------------------------
(***************************************************************************)
(* Proofs about DNSOverUDP: the types, the ownership of the sockets, the     *)
(* order of the replies and the record of the queries, for any number of     *)
(* datagrams and any size of the buffers.                                    *)
(***************************************************************************)
EXTENDS DNSOverUDP, SequenceTheorems, TLAPS

\* Where RoundTrip is decides who owns the socket, until it hands it to the reader.
Owner(q) ==
  /\ rt[q] \in {"off", "dial"} => sock[q] = "none"
  /\ rt[q] \in {"write", "recv"} => sock[q] = "open"
  /\ rt[q] \in {"off", "dial", "write", "recv"} => reader[q] = "off"
  /\ rt[q] \in {"event", "send", "done"} => (sock[q] = "open" <=> reader[q] \in {"recv", "post"})
  /\ closes[q] = IF sock[q] = "closed" THEN 1 ELSE 0
Owned == \A q \in Qtype : Owner(q)

\* The outcome of a query, once there is one.
Answers(q) ==
  /\ rt[q] \in {"off", "dial", "write", "recv"} => outcome[q] = NoOutcome(q)
  /\ rt[q] \in {"event", "send", "done"} => outcome[q] \in Event /\ outcome[q].qtype = q
Answered == \A q \in Qtype : Answers(q)

\* The replies to q that somebody has seen are those numbered 1 to m: the answer, the
\* late replies that were posted, and the one that the reader holds.  The others are
\* still in the receive queue, until the socket is closed.
NumberedTo(q, m) ==
  /\ m <= arrived[q]
  /\ outcome[q].n = IF m = 0 THEN 0 ELSE 1
  /\ reader[q] = "off" => m <= 1
  /\ reader[q] \in {"recv", "post"} => m > 0
  /\ IF reader[q] = "post"
       THEN Len(held[q]) = 1 /\ held[q][1].n = m /\ m > 1 /\ held[q][1].qtype = q
       ELSE held[q] = <<>>
  /\ \A i \in DOMAIN Late : Late[i].qtype = q =>
       Late[i].n > 1 /\ Late[i].n <= IF reader[q] = "post" THEN m - 1 ELSE m
  /\ \A n \in 2 .. IF reader[q] = "post" THEN m - 1 ELSE m :
       \E i \in DOMAIN Late : Late[i].qtype = q /\ Late[i].n = n
  /\ sock[q] = "none" => arrived[q] = 0 /\ inbox[q] = <<>>
  /\ sock[q] = "open" =>
       /\ Len(inbox[q]) = arrived[q] - m
       /\ \A k \in DOMAIN inbox[q] : inbox[q][k].n = m + k
InOrder ==
  \A i, j \in DOMAIN Late : i < j /\ Late[i].qtype = Late[j].qtype => Late[i].n < Late[j].n
Numbered == InOrder /\ \A q \in Qtype : \E m \in Nat : NumberedTo(q, m)

\* What was posted in time is in the buffer or in the test keys.
Posted ==
  /\ main \in {"lookup", "A", "AAAA", "save", "out", "wait"} => postedInTime = 0
  /\ main = "drain" => Len(lateReplies) + Len(delayed) >= postedInTime
  /\ main = "done" => Len(lateReplies) >= postedInTime

\* The round trips that ended are in the buffer, in one of the two orders, and then in
\* the test keys.
Has(q) == rt[q] \in {"send", "done"}
Entries(s) ==
  /\ ~Has("A") /\ ~Has("AAAA") => s = <<>>
  /\ Has("A") /\ ~Has("AAAA") => s = <<outcome["A"]>>
  /\ ~Has("A") /\ Has("AAAA") => s = <<outcome["AAAA"]>>
  /\ Has("A") /\ Has("AAAA") => s \in {<<outcome["A"], outcome["AAAA"]>>,
                                       <<outcome["AAAA"], outcome["A"]>>}
Got(q) == outcome[q].has = "addrs"
Recorded ==
  /\ main = "lookup" => rt["A"] = "off" /\ rt["AAAA"] = "off" /\ result = "none"
  /\ main \in {"A", "AAAA"} => domain = "name"
  /\ main = "A" => rt["A"] # "done" /\ rt["AAAA"] # "done" /\ result = "none"
  /\ main = "AAAA" => /\ rt["A"] = "done" /\ rt["AAAA"] # "done"
                      /\ result = "addrs" <=> Got("A")
  /\ main \notin {"lookup", "A", "AAAA"} =>
       IF domain = "name"
         THEN /\ rt["A"] = "done" /\ rt["AAAA"] = "done"
              /\ result = "addrs" <=> Got("A") \/ Got("AAAA")
         ELSE /\ rt["A"] = "off" /\ rt["AAAA"] = "off"
              /\ result = "addrs" <=> domain = "ipaddr"
  /\ main \in {"lookup", "A", "AAAA", "save"} => queries = <<>> /\ Entries(dnsLookup)
  /\ main \notin {"lookup", "A", "AAAA", "save"} => Entries(queries)

IInv == TypeOK /\ Owned /\ Answered /\ Numbered /\ Posted /\ Recorded

-----------------------------------------------------------------------------
\* Facts about sequences.
LEMMA AppendToOne == ASSUME NEW x, NEW y PROVE Append(<<x>>, y) = <<x, y>>
<1>1. /\ Append(<<x>>, y) \in Seq({x, y}) /\ <<x, y>> \in Seq({x, y})
      /\ Len(Append(<<x>>, y)) = 2 /\ Len(<<x, y>>) = 2
  OBVIOUS
<1>2. \A i \in 1 .. 2 : Append(<<x>>, y)[i] = <<x, y>>[i]
  OBVIOUS
<1> QED
  BY <1>1, <1>2, SeqEqual

\* To move the first element of s to the end of r leaves their concatenation alone.
LEMMA MoveHead ==
  ASSUME NEW S, NEW r \in Seq(S), NEW s \in Seq(S), s # <<>>
  PROVE  Append(r, Head(s)) \o Tail(s) = r \o s
<1>1. /\ Append(r, Head(s)) \in Seq(S) /\ Len(Append(r, Head(s))) = Len(r) + 1
      /\ Tail(s) \in Seq(S) /\ Len(Tail(s)) = Len(s) - 1
      /\ Len(r) \in Nat /\ Len(s) \in Nat \ {0}
  OBVIOUS
<1>2. Len(Append(r, Head(s)) \o Tail(s)) = Len(r \o s)
  BY <1>1
<1>3. \A i \in 1 .. Len(r) + Len(s) : (Append(r, Head(s)) \o Tail(s))[i] = (r \o s)[i]
  BY <1>1
<1>4. /\ Append(r, Head(s)) \o Tail(s) \in Seq(S) /\ r \o s \in Seq(S)
      /\ Len(r \o s) = Len(r) + Len(s)
  BY <1>1
<1> QED
  BY <1>2, <1>3, <1>4, SeqEqual

\* To append the only element of s is to append it to the concatenation.
LEMMA AppendLast ==
  ASSUME NEW S, NEW r \in Seq(S), NEW s \in Seq(S), NEW x \in S
  PROVE  r \o (s \o <<x>>) = Append(r \o s, x)
<1>1. r \o s \in Seq(S) /\ <<x>> \in Seq(S)
  OBVIOUS
<1>2. (r \o s) \o <<x>> = r \o (s \o <<x>>)
  BY <1>1, ConcatAssociative
<1> QED
  BY <1>1, <1>2, AppendIsConcat

\* The sizes of the buffers.
LEMMA Sizes ==
  /\ DNSLookupBufferSize \in Nat /\ DNSLookupBufferSize > 1
  /\ DelayedDNSResponseBufferSize \in Nat /\ DelayedDNSResponseBufferSize > 0
  BY DNSOverUDPAssumption

\* The late replies are events.
LEMMA LateTypes ==
  ASSUME TypeOK
  PROVE  /\ Late \in Seq(Event)
         /\ \A i \in DOMAIN Late : Late[i].n \in Nat /\ Late[i].qtype \in Qtype
<1>1. Late \in Seq(Event)
  BY DEF TypeOK, Late
<1>2. \A i \in DOMAIN Late : Late[i] \in Event
  BY <1>1
<1> QED
  BY <1>1, <1>2 DEF Event

\* The invariant implies what the model checker looks at.
LEMMA IInvImplies ==
  ASSUME IInv PROVE OneOwner /\ LateRepliesFollowAnswer /\ QueriesExplainResult
<1> USE DEF IInv
<1>1. OneOwner
  <2> SUFFICES ASSUME NEW q \in Qtype
               PROVE  /\ closes[q] = IF sock[q] = "closed" THEN 1 ELSE 0
                      /\ sock[q] = "open" <=>
                           (rt[q] \in {"write", "recv"}) # (reader[q] \in {"recv", "post"})
    BY DEF OneOwner
  <2>1. rt[q] \in {"off", "dial", "write", "recv", "event", "send", "done"}
    BY DEF TypeOK
  <2> QED
    BY <2>1 DEF Owned, Owner
<1>2. LateRepliesFollowAnswer
  <2>1. main = "done" => Len(lateReplies) >= postedInTime
    BY DEF Posted
  <2>2. ASSUME NEW q \in Qtype, NEW m \in Nat, NumberedTo(q, m)
        PROVE  /\ m \in 0 .. arrived[q] /\ Seen(q) = 1 .. m
               /\ sock[q] = "open" =>
                    /\ Len(inbox[q]) = arrived[q] - m
                    /\ \A k \in DOMAIN inbox[q] : inbox[q][k].n = m + k
               /\ \A i \in DOMAIN Late : Late[i].qtype = q =>
                    /\ outcome[q].n = 1 /\ Late[i].n > 1
                    /\ \A k \in DOMAIN held[q] : Late[i].n < held[q][k].n
    <3>1. arrived[q] \in Nat /\ Len(held[q]) \in Nat /\ DOMAIN held[q] = 1 .. Len(held[q])
      BY DEF TypeOK
    <3>2. \A i \in DOMAIN Late : Late[i].n \in Nat /\ Late[i].qtype \in Qtype
      BY LateTypes
    <3>3. Seen(q) = 1 .. m
      <4>1. CASE reader[q] = "post"
        BY <2>2, <3>1, <3>2, <4>1 DEF NumberedTo, Seen
      <4>2. CASE reader[q] # "post"
        BY <2>2, <3>1, <3>2, <4>2 DEF NumberedTo, Seen
      <4> QED
        BY <4>1, <4>2
    <3> QED
      BY <2>2, <3>1, <3>2, <3>3 DEF NumberedTo
  <2> QED
    BY <2>1, <2>2, LateTypes DEF Numbered, InOrder, LateRepliesFollowAnswer
<1>3. QueriesExplainResult
  <2> SUFFICES ASSUME main \in {"out", "wait", "drain", "done"} PROVE QueriesExplainResult
    BY DEF QueriesExplainResult
  <2>1. CASE domain = "name"
    <3>1. /\ result = "addrs" <=> Got("A") \/ Got("AAAA")
          /\ queries \in {<<outcome["A"], outcome["AAAA"]>>, <<outcome["AAAA"], outcome["A"]>>}
          /\ outcome["A"].qtype = "A" /\ outcome["AAAA"].qtype = "AAAA"
      BY <2>1 DEF Recorded, Entries, Has, Answered, Answers, Qtype
    <3>2. CASE queries = <<outcome["A"], outcome["AAAA"]>>
      BY <2>1, <3>1, <3>2 DEF QueriesExplainResult, Got, Qtype
    <3>3. CASE queries = <<outcome["AAAA"], outcome["A"]>>
      BY <2>1, <3>1, <3>3 DEF QueriesExplainResult, Got, Qtype
    <3> QED
      BY <3>1, <3>2, <3>3
  <2>2. CASE domain # "name"
    <3>1. /\ rt["A"] = "off" /\ rt["AAAA"] = "off" /\ queries = <<>>
          /\ result = "addrs" <=> domain = "ipaddr"
      BY <2>2 DEF Recorded, Entries, Has
    <3>2. \A q \in Qtype : sock[q] = "none"
      BY <3>1 DEF Owned, Owner, Qtype
    <3> QED
      BY <2>2, <3>1, <3>2 DEF QueriesExplainResult
  <2> QED
    BY <2>1, <2>2
<1> QED
  BY <1>1, <1>2, <1>3

\* Nothing has been sent.
LEMMA InitIInv == Init => IInv
<1> SUFFICES ASSUME Init PROVE IInv
  OBVIOUS
<1> USE DEF Init
<1>1. TypeOK
  BY DNSOverUDPAssumption DEF TypeOK
<1>2. Owned
  BY DEF Owned, Owner
<1>3. Answered
  BY DEF Answered, Answers
<1>4. Numbered
  <2>1. Late = <<>>
    BY DEF Late
  <2>2. ASSUME NEW q \in Qtype PROVE NumberedTo(q, 0)
    BY <2>1 DEF NumberedTo, NoOutcome
  <2> QED
    BY <2>1, <2>2 DEF Numbered, InOrder
<1>5. Posted
  BY DEF Posted
<1>6. Recorded
  BY DEF Recorded, Entries, Has, Qtype
<1> QED
  BY <1>1, <1>2, <1>3, <1>4, <1>5, <1>6 DEF IInv

-----------------------------------------------------------------------------
\* A datagram that can be read, and the rest of the queue.
LEMMA ReadTypes ==
  ASSUME TypeOK, NEW q \in Qtype, inbox[q] # <<>>
  PROVE  /\ Head(inbox[q]) \in Datagram /\ Head(inbox[q]) = inbox[q][1]
         /\ Tail(inbox[q]) \in Seq(Datagram)
         /\ Len(inbox[q]) \in Nat \ {0} /\ Len(Tail(inbox[q])) = Len(inbox[q]) - 1
         /\ DOMAIN inbox[q] = 1 .. Len(inbox[q])
         /\ DOMAIN Tail(inbox[q]) = 1 .. Len(inbox[q]) - 1
         /\ \A k \in 1 .. Len(inbox[q]) - 1 : Tail(inbox[q])[k] = inbox[q][k + 1]
<1>1. inbox[q] \in Seq(Datagram)
  BY DEF TypeOK
<1> QED
  BY <1>1

\* A reader that is about to post holds one reply.
LEMMA HeldOne ==
  ASSUME Numbered, NEW q \in Qtype, reader[q] = "post" PROVE Len(held[q]) = 1
  BY DEF Numbered, NumberedTo

\* It appends this reply to the buffer, and so to the late replies.
LEMMA PostAppends ==
  ASSUME TypeOK, Numbered, NEW q \in Qtype, Post(q)
  PROVE  /\ held[q][1] \in Event
         /\ Len(delayed) \in Nat /\ Len(delayed') = Len(delayed) + 1
         /\ delayed' \in Seq(Event)
         /\ Late' = Append(Late, held[q][1])
<1>1. /\ delayed \in Seq(Event) /\ held[q] \in Seq(Event) /\ lateReplies \in Seq(Event)
  BY DEF TypeOK
<1>2. Len(held[q]) = 1
  BY HeldOne DEF Post
<1>3. held[q] = <<held[q][1]>> /\ held[q][1] \in Event
  BY <1>1, <1>2
<1>4. delayed' = Append(delayed, held[q][1])
  BY <1>1, <1>3, AppendIsConcat DEF Post
<1>5. lateReplies' = lateReplies
  BY DEF Post, mainVars
<1>6. Late' = lateReplies \o (delayed \o <<held[q][1]>>)
  BY <1>3, <1>5 DEF Late, Post
<1>7. Late' = Append(Late, held[q][1])
  BY <1>1, <1>3, <1>6, AppendLast DEF Late
<1> QED
  BY <1>1, <1>3, <1>4, <1>7

\* What RoundTrip returns is an event.
LEMMA OutcomeTypes ==
  ASSUME NEW q \in Qtype, NEW n \in Nat, NEW has \in {"addrs", "noaddrs", "error"}
  PROVE  /\ [qtype |-> q, n |-> n, has |-> has] \in Event
         /\ [qtype |-> q, n |-> n, has |-> has].qtype = q
         /\ [qtype |-> q, n |-> n, has |-> has].n = n
  BY DEF Event

\* The types.
LEMMA TypesStep == IInv /\ [Next]_vars => TypeOK'
<1> SUFFICES ASSUME TypeOK, Answered, Numbered, [Next]_vars PROVE TypeOK'
  BY DEF IInv
<1> USE DEF sockVars, rtVars, readerVars, mainVars
<1>1. ASSUME NEW q \in Qtype, Arrive(q) PROVE TypeOK'
  <2>1. PICK c \in Content :
          inbox' = [inbox EXCEPT ![q] = Append(inbox[q], [n |-> arrived[q] + 1, has |-> c])]
    BY <1>1 DEF Arrive
  <2>2. [n |-> arrived[q] + 1, has |-> c] \in Datagram
    BY DEF TypeOK, Datagram
  <2>3. inbox' \in [Qtype -> Seq(Datagram)]
    BY <2>1, <2>2 DEF TypeOK
  <2>4. arrived' \in [Qtype -> Nat]
    BY <1>1 DEF Arrive, TypeOK
  <2> QED
    BY <1>1, <2>3, <2>4 DEF Arrive, TypeOK
<1>2. ASSUME NEW q \in Qtype, SocketFails(q) PROVE TypeOK'
  BY <1>2 DEF SocketFails, TypeOK
<1>3. ASSUME NEW q \in Qtype, DialFails(q) PROVE TypeOK'
  BY <1>3, OutcomeTypes DEF DialFails, Returns, TypeOK
<1>4. ASSUME NEW q \in Qtype, Dial(q) PROVE TypeOK'
  BY <1>4 DEF Dial, TypeOK
<1>5. ASSUME NEW q \in Qtype, Write(q) PROVE TypeOK'
  BY <1>5 DEF Write, TypeOK
<1>6. ASSUME NEW q \in Qtype, WriteFails(q) \/ RecvFails(q) PROVE TypeOK'
  <2>1. /\ Returns(q, 0, "error") /\ Close(q)
        /\ UNCHANGED <<failing, arrived, readerVars, dnsLookup, delayed, mainVars>>
    BY <1>6 DEF WriteFails, RecvFails
  <2> QED
    <3>1. outcome' \in [Qtype -> Event \cup {NoOutcome(p) : p \in Qtype}]
      BY <2>1, OutcomeTypes DEF Returns, TypeOK
    <3> QED
      BY <2>1, <3>1 DEF Returns, Close, TypeOK
<1>7. ASSUME NEW q \in Qtype, RecvReply(q) PROVE TypeOK'
  <2>1. inbox[q] # <<>> /\ Head(inbox[q]).has # "garbage"
    BY <1>7 DEF RecvReply, CanRead
  <2>2. Head(inbox[q]).n \in Nat /\ Head(inbox[q]).has \in {"addrs", "noaddrs"}
    BY <2>1, ReadTypes DEF Datagram, Content
  <2>3. inbox' \in [Qtype -> Seq(Datagram)]
    BY <1>7, <2>1, ReadTypes DEF RecvReply, Take, TypeOK
  <2>4. outcome' \in [Qtype -> Event \cup {NoOutcome(p) : p \in Qtype}]
    BY <1>7, <2>2, OutcomeTypes DEF RecvReply, Returns, TypeOK
  <2> QED
    BY <1>7, <2>3, <2>4 DEF RecvReply, Returns, TypeOK
<1>8. ASSUME NEW q \in Qtype, OnDNSRoundTrip(q) PROVE TypeOK'
  <2>1. dnsLookup' \in Seq(Event) /\ Len(dnsLookup') <= DNSLookupBufferSize
    <3>1. outcome[q] \in Event
      BY <1>8 DEF OnDNSRoundTrip, Answered, Answers
    <3> QED
      BY <1>8, <3>1, DNSOverUDPAssumption DEF OnDNSRoundTrip, TypeOK
  <2> QED
    BY <1>8, <2>1 DEF OnDNSRoundTrip, TypeOK
<1>9. ASSUME NEW q \in Qtype, ReadLate(q) PROVE TypeOK'
  <2>1. inbox[q] # <<>> /\ Head(inbox[q]).has # "garbage"
    BY <1>9 DEF ReadLate, CanRead
  <2>2. Head(inbox[q]).n \in Nat /\ Head(inbox[q]).has \in {"addrs", "noaddrs"}
    BY <2>1, ReadTypes DEF Datagram, Content
  <2>3. inbox' \in [Qtype -> Seq(Datagram)]
    BY <1>9, <2>1, ReadTypes DEF ReadLate, Take, TypeOK
  <2>4. held' \in [Qtype -> Seq(Event)]
    <3> DEFINE e == [qtype |-> q, n |-> Head(inbox[q]).n, has |-> Head(inbox[q]).has]
    <3>1. e \in Event
      BY <2>2, OutcomeTypes
    <3>2. held' = [held EXCEPT ![q] = <<e>>]
      BY <1>9 DEF ReadLate
    <3> HIDE DEF e
    <3> QED
      BY <3>1, <3>2 DEF TypeOK
  <2> QED
    BY <1>9, <2>3, <2>4 DEF ReadLate, TypeOK
<1>10. ASSUME NEW q \in Qtype, ReadFails(q) PROVE TypeOK'
  BY <1>10 DEF ReadFails, Close, TypeOK
<1>11. ASSUME NEW q \in Qtype, Post(q) PROVE TypeOK'
  <2>1. delayed' \in Seq(Event) /\ Len(delayed') <= DelayedDNSResponseBufferSize
    <3>1. Len(delayed) < DelayedDNSResponseBufferSize
      BY <1>11 DEF Post, Fits
    <3> QED
      BY <1>11, <3>1, PostAppends, Sizes
  <2> QED
    BY <1>11, <2>1 DEF Post, TypeOK
<1>12. ASSUME NEW q \in Qtype, PostFails(q) PROVE TypeOK'
  BY <1>12 DEF PostFails, Close, TypeOK
<1>13. ASSUME NEW q \in Qtype, ReceiveResult(q) PROVE TypeOK'
  BY <1>13 DEF ReceiveResult, TypeOK
<1>14. CASE SaveQueries
  BY <1>14, DNSOverUDPAssumption DEF SaveQueries, TypeOK
<1>15. CASE SendAddrs \/ Drained
  BY <1>15 DEF SendAddrs, Drained, TypeOK
<1>16. CASE ReceiveLate
  <2>1. /\ lateReplies' \in Seq(Event) /\ delayed' \in Seq(Event)
        /\ Len(delayed') <= DelayedDNSResponseBufferSize
    BY <1>16, DNSOverUDPAssumption DEF ReceiveLate, TypeOK
  <2> QED
    BY <1>16, <2>1 DEF ReceiveLate, TypeOK
<1>17. CASE WaitTimesOut
  BY <1>17 DEF WaitTimesOut, TypeOK
<1>18. CASE Idle \/ UNCHANGED vars
  BY <1>18 DEF Idle, vars, TypeOK
<1>19. CASE LookupHost
  BY <1>19 DEF LookupHost, TypeOK
<1>20. CASE ShortCircuitIPAddr \/ ToASCIIFails
  BY <1>20 DEF ShortCircuitIPAddr, ToASCIIFails, Returned, TypeOK
<1> QED
  BY <1>1, <1>2, <1>3, <1>4, <1>5, <1>6, <1>7, <1>8, <1>9, <1>10, <1>11, <1>12, <1>13,
     <1>14, <1>15, <1>16, <1>17, <1>18, <1>19, <1>20 DEF Next, RoundTrip, Reader, Main

-----------------------------------------------------------------------------
\* Who owns the socket, and what the outcome of a query is.

\* A step of nobody who uses the socket of p.
LEMMA OwnerFrame ==
  ASSUME NEW p \in Qtype, Owner(p), Answers(p),
         sock'[p] = sock[p], closes'[p] = closes[p], reader'[p] = reader[p],
         outcome'[p] = outcome[p],
         \/ rt'[p] = rt[p]
         \/ rt[p] = "off" /\ rt'[p] = "dial"
         \/ rt[p] = "event" /\ rt'[p] = "send"
         \/ rt[p] = "send" /\ rt'[p] = "done"
         \/ rt[p] = "write" /\ rt'[p] = "recv"
  PROVE  Owner(p)' /\ Answers(p)'
  BY DEF Owner, Answers

\* RoundTrip of q returns an event and leaves the socket closed, unopened or to the
\* reader.
LEMMA OwnerReturns ==
  ASSUME TypeOK, NEW q \in Qtype, NEW p \in Qtype, Owner(p), Answers(p),
         rt[q] \in {"dial", "write", "recv"},
         NEW n \in Nat, NEW has \in {"addrs", "noaddrs", "error"}, Returns(q, n, has),
         \/ rt[q] = "dial" /\ UNCHANGED <<sock, closes, reader>>
         \/ rt[q] # "dial" /\ Close(q) /\ UNCHANGED reader
         \/ rt[q] = "recv" /\ UNCHANGED <<sock, closes>> /\ reader' = [reader EXCEPT ![q] = "recv"]
  PROVE  Owner(p)' /\ Answers(p)'
<1> DEFINE e == [qtype |-> q, n |-> n, has |-> has]
<1>1. e \in Event /\ e.qtype = q
  BY OutcomeTypes
<1>2. outcome' = [outcome EXCEPT ![q] = e] /\ rt' = [rt EXCEPT ![q] = "event"]
  BY DEF Returns
<1> HIDE DEF e
<1>3. /\ sock \in [Qtype -> {"none", "open", "closed"}] /\ closes \in [Qtype -> Nat]
      /\ rt \in [Qtype -> {"off", "dial", "write", "recv", "event", "send", "done"}]
      /\ reader \in [Qtype -> {"off", "recv", "post", "done"}]
      /\ outcome \in [Qtype -> Event \cup {NoOutcome(x) : x \in Qtype}]
  BY DEF TypeOK
<1>4. CASE p = q
  <2>1. Answers(p)'
    BY <1>1, <1>2, <1>3, <1>4 DEF Answers
  <2>2. Owner(p)'
    BY <1>2, <1>3, <1>4 DEF Owner, Close
  <2> QED
    BY <2>1, <2>2
<1>5. CASE p # q
  BY <1>2, <1>3, <1>5, OwnerFrame DEF Close
<1> QED
  BY <1>4, <1>5

\* Every step keeps the owner.
LEMMA OwnedStep == IInv /\ [Next]_vars => Owned' /\ Answered'
<1> SUFFICES ASSUME TypeOK, Owned, Answered, Recorded, [Next]_vars, NEW p \in Qtype
             PROVE  Owner(p)' /\ Answers(p)'
  BY DEF IInv, Owned, Answered
<1> USE DEF sockVars, rtVars, readerVars
<1>0. /\ sock \in [Qtype -> {"none", "open", "closed"}] /\ closes \in [Qtype -> Nat]
      /\ rt \in [Qtype -> {"off", "dial", "write", "recv", "event", "send", "done"}]
      /\ reader \in [Qtype -> {"off", "recv", "post", "done"}]
      /\ outcome \in [Qtype -> Event \cup {NoOutcome(x) : x \in Qtype}]
      /\ \A x \in Qtype : Owner(x) /\ Answers(x)
  BY DEF TypeOK, Owned, Answered
<1>1. ASSUME NEW q \in Qtype, Arrive(q) \/ SocketFails(q) \/ Write(q) \/ OnDNSRoundTrip(q)
                              \/ ReceiveResult(q)
      PROVE  Owner(p)' /\ Answers(p)'
  BY <1>0, <1>1, OwnerFrame DEF Arrive, SocketFails, Write, OnDNSRoundTrip, ReceiveResult
<1>2. ASSUME NEW q \in Qtype, DialFails(q) \/ WriteFails(q) \/ RecvFails(q)
      PROVE  Owner(p)' /\ Answers(p)'
  BY <1>0, <1>2, OwnerReturns DEF DialFails, WriteFails, RecvFails
<1>3. ASSUME NEW q \in Qtype, RecvReply(q) PROVE Owner(p)' /\ Answers(p)'
  <2>1. inbox[q] # <<>> /\ Head(inbox[q]).has # "garbage"
    BY <1>3 DEF RecvReply, CanRead
  <2>2. Head(inbox[q]).n \in Nat /\ Head(inbox[q]).has \in {"addrs", "noaddrs", "error"}
    BY <2>1, ReadTypes DEF Datagram, Content
  <2> QED
    BY <1>0, <1>3, <2>2, OwnerReturns DEF RecvReply
<1>4. ASSUME NEW q \in Qtype, Dial(q) PROVE Owner(p)' /\ Answers(p)'
  BY <1>0, <1>4 DEF Dial, Owner, Answers
<1>5. ASSUME NEW q \in Qtype, ReadLate(q) \/ Post(q) PROVE Owner(p)' /\ Answers(p)'
  BY <1>0, <1>5 DEF ReadLate, Post, Owner, Answers
<1>6. ASSUME NEW q \in Qtype, ReadFails(q) \/ PostFails(q) PROVE Owner(p)' /\ Answers(p)'
  <2>1. /\ reader[q] \in {"recv", "post"} /\ reader' = [reader EXCEPT ![q] = "done"]
        /\ Close(q) /\ UNCHANGED rtVars
    BY <1>6 DEF ReadFails, PostFails
  <2> QED
    BY <1>0, <2>1 DEF Close, Owner, Answers
<1>7. CASE SaveQueries \/ SendAddrs \/ ReceiveLate \/ Drained \/ WaitTimesOut \/ Idle
           \/ UNCHANGED vars
  BY <1>0, <1>7, OwnerFrame
     DEF SaveQueries, SendAddrs, ReceiveLate, Drained, WaitTimesOut, Idle, vars
<1>8. CASE LookupHost
  <2>1. rt[p] = "off"
    BY <1>8 DEF LookupHost, Recorded, Qtype
  <2> QED
    BY <1>0, <1>8, <2>1, OwnerFrame DEF LookupHost
<1>9. CASE ShortCircuitIPAddr \/ ToASCIIFails
  BY <1>0, <1>9, OwnerFrame DEF ShortCircuitIPAddr, ToASCIIFails, Returned
<1> QED
  BY <1>1, <1>2, <1>3, <1>4, <1>5, <1>6, <1>7, <1>8, <1>9 DEF Next, RoundTrip, Reader, Main

-----------------------------------------------------------------------------
\* The buffer of late replies: what was posted in time stays in it until it is saved.
LEMMA PostedStep == IInv /\ [Next]_vars => Posted'
<1> SUFFICES ASSUME TypeOK, Posted, Numbered, [Next]_vars PROVE Posted'
  BY DEF IInv
<1> USE DEF mainVars
<1>0. /\ lateReplies \in Seq(Event) /\ delayed \in Seq(Event) /\ postedInTime \in Nat
      /\ Len(lateReplies) \in Nat /\ Len(delayed) \in Nat
      /\ main \in {"lookup", "A", "AAAA", "save", "out", "wait", "drain", "done"}
  BY DEF TypeOK
<1>1. ASSUME NEW q \in Qtype, Arrive(q) \/ SocketFails(q) \/ RoundTrip(q) \/ ReadLate(q)
                              \/ ReadFails(q) \/ PostFails(q)
      PROVE  Posted'
  <2>1. UNCHANGED <<main, lateReplies, delayed, postedInTime>>
    BY <1>1 DEF Arrive, SocketFails, RoundTrip, DialFails, Dial, Write, WriteFails, RecvReply,
                RecvFails, OnDNSRoundTrip, ReadLate, ReadFails, PostFails
  <2> QED
    BY <2>1 DEF Posted
<1>2. ASSUME NEW q \in Qtype, Post(q) PROVE Posted'
  BY <1>0, <1>2, PostAppends DEF Post, Posted
<1>3. ASSUME NEW q \in Qtype, ReceiveResult(q) PROVE Posted'
  BY <1>3 DEF ReceiveResult, Posted, Qtype
<1>4. CASE SaveQueries \/ SendAddrs
  BY <1>4 DEF SaveQueries, SendAddrs, Posted
<1>5. CASE ReceiveLate
  <2>1. Len(lateReplies') = Len(lateReplies) + 1 /\ Len(delayed') = Len(delayed) - 1
    BY <1>0, <1>5 DEF ReceiveLate
  <2> QED
    BY <1>0, <1>5, <2>1 DEF ReceiveLate, Posted
<1>6. CASE Drained
  BY <1>0, <1>6 DEF Drained, Posted
<1>7. CASE WaitTimesOut
  BY <1>0, <1>7 DEF WaitTimesOut, Posted
<1>8. CASE Idle \/ UNCHANGED vars
  BY <1>8 DEF Idle, vars, Posted
<1>9. CASE LookupHost \/ ShortCircuitIPAddr \/ ToASCIIFails
  BY <1>9 DEF LookupHost, ShortCircuitIPAddr, ToASCIIFails, Returned, Posted
<1> QED
  BY <1>1, <1>2, <1>3, <1>4, <1>5, <1>6, <1>7, <1>8, <1>9 DEF Next, Reader, Main

-----------------------------------------------------------------------------
\* The record of the queries.

\* A step that leaves the record alone.
LEMMA RecordedFrame ==
  ASSUME Recorded, UNCHANGED <<domain, main, result, queries, dnsLookup>>,
         \A p \in Qtype : /\ Has(p)' <=> Has(p)
                          /\ rt'[p] = "off" <=> rt[p] = "off"
                          /\ rt'[p] = "done" <=> rt[p] = "done"
                          /\ Has(p) => outcome'[p] = outcome[p]
  PROVE  Recorded'
<1> "A" \in Qtype /\ "AAAA" \in Qtype
  BY DEF Qtype
<1>1. CASE main \in {"lookup", "A", "AAAA"}
  BY <1>1 DEF Recorded, Entries, Has, Got
<1>2. CASE main \notin {"lookup", "A", "AAAA"}
  BY <1>2 DEF Recorded, Entries, Has, Got
<1> QED
  BY <1>1, <1>2

\* The buffer has room for the round trips of the two queries: OnDNSRoundTrip drops none.
LEMMA RoundTripRecorded ==
  ASSUME TypeOK, Recorded, NEW q \in Qtype, OnDNSRoundTrip(q) PROVE Recorded'
<1> USE DEF Qtype
<1>1. /\ rt[q] = "event" /\ rt' = [rt EXCEPT ![q] = "send"]
      /\ UNCHANGED <<domain, main, result, queries, outcome>>
  BY DEF OnDNSRoundTrip, mainVars
<1>2. rt \in [Qtype -> {"off", "dial", "write", "recv", "event", "send", "done"}]
  BY DEF TypeOK
<1>3. main \in {"A", "AAAA"} /\ Entries(dnsLookup)
  BY <1>1, <1>2 DEF Recorded, TypeOK
<1>4. dnsLookup' = Append(dnsLookup, outcome[q])
  <2>1. Len(dnsLookup) \in {0, 1}
    BY <1>1, <1>3 DEF Entries, Has
  <2> QED
    <3>1. Len(dnsLookup) < DNSLookupBufferSize
      BY <2>1, Sizes
    <3> QED
      BY <3>1 DEF OnDNSRoundTrip
<1>5. Entries(dnsLookup)'
  <2>1. CASE q = "A"
    <3>1. rt'["A"] = "send" /\ rt'["AAAA"] = rt["AAAA"]
      BY <1>1, <1>2, <2>1
    <3>2. dnsLookup = <<>> \/ dnsLookup = <<outcome["AAAA"]>>
      BY <1>1, <1>3, <2>1 DEF Entries, Has
    <3> QED
      <4>1. CASE rt["AAAA"] \in {"send", "done"}
        <5>1. dnsLookup' = <<outcome["AAAA"], outcome["A"]>>
          <6>1. dnsLookup = <<outcome["AAAA"]>>
            BY <1>1, <1>3, <2>1, <4>1 DEF Entries, Has
          <6> QED
            BY <1>4, <2>1, <6>1, AppendToOne
        <5> QED
          BY <1>1, <3>1, <4>1, <5>1 DEF Entries, Has
      <4>2. CASE rt["AAAA"] \notin {"send", "done"}
        <5>1. dnsLookup' = <<outcome["A"]>>
          <6>1. dnsLookup = <<>>
            BY <1>1, <1>3, <2>1, <4>2 DEF Entries, Has
          <6> QED
            BY <1>4, <2>1, <6>1
        <5> QED
          BY <1>1, <3>1, <4>2, <5>1 DEF Entries, Has
      <4> QED
        BY <4>1, <4>2
  <2>2. CASE q = "AAAA"
    <3>1. rt'["AAAA"] = "send" /\ rt'["A"] = rt["A"]
      BY <1>1, <1>2, <2>2
    <3>2. dnsLookup = <<>> \/ dnsLookup = <<outcome["A"]>>
      BY <1>1, <1>3, <2>2 DEF Entries, Has
    <3> QED
      <4>1. CASE rt["A"] \in {"send", "done"}
        <5>1. dnsLookup' = <<outcome["A"], outcome["AAAA"]>>
          <6>1. dnsLookup = <<outcome["A"]>>
            BY <1>1, <1>3, <2>2, <4>1 DEF Entries, Has
          <6> QED
            BY <1>4, <2>2, <6>1, AppendToOne
        <5> QED
          BY <1>1, <3>1, <4>1, <5>1 DEF Entries, Has
      <4>2. CASE rt["A"] \notin {"send", "done"}
        <5>1. dnsLookup' = <<outcome["AAAA"]>>
          <6>1. dnsLookup = <<>>
            BY <1>1, <1>3, <2>2, <4>2 DEF Entries, Has
          <6> QED
            BY <1>4, <2>2, <6>1
        <5> QED
          BY <1>1, <3>1, <4>2, <5>1 DEF Entries, Has
      <4> QED
        BY <4>1, <4>2
  <2> QED
    BY <2>1, <2>2
<1> QED
  BY <1>1, <1>2, <1>3, <1>5 DEF Recorded, Got

\* Every step keeps the record.
LEMMA RecordedStep == IInv /\ [Next]_vars => Recorded'
<1> SUFFICES ASSUME TypeOK, Owned, Recorded, [Next]_vars PROVE Recorded'
  BY DEF IInv
<1> USE DEF mainVars, rtVars, sockVars, readerVars
<1>0. /\ rt \in [Qtype -> {"off", "dial", "write", "recv", "event", "send", "done"}]
      /\ outcome \in [Qtype -> Event \cup {NoOutcome(x) : x \in Qtype}]
      /\ main \in {"lookup", "A", "AAAA", "save", "out", "wait", "drain", "done"}
      /\ result \in {"none", "addrs", "error"}
  BY DEF TypeOK
<1>1. ASSUME NEW q \in Qtype, Arrive(q) \/ SocketFails(q) \/ Reader(q) PROVE Recorded'
  <2>1. UNCHANGED <<domain, main, result, queries, dnsLookup, rt, outcome>>
    BY <1>1 DEF Arrive, SocketFails, Reader, ReadLate, ReadFails, Post, PostFails
  <2> QED
    BY <2>1, RecordedFrame DEF Has
<1>2. ASSUME NEW q \in Qtype, Dial(q) \/ Write(q) PROVE Recorded'
  BY <1>0, <1>2, RecordedFrame DEF Dial, Write, Has
<1>3. ASSUME NEW q \in Qtype, DialFails(q) \/ WriteFails(q) \/ RecvReply(q) \/ RecvFails(q)
      PROVE  Recorded'
  <2>1. /\ rt[q] \in {"dial", "write", "recv"} /\ rt' = [rt EXCEPT ![q] = "event"]
        /\ UNCHANGED <<domain, main, result, queries, dnsLookup>>
        /\ \A p \in Qtype \ {q} : outcome'[p] = outcome[p]
    BY <1>0, <1>3 DEF DialFails, WriteFails, RecvReply, RecvFails, Returns
  <2> QED
    BY <1>0, <2>1, RecordedFrame DEF Has
<1>4. ASSUME NEW q \in Qtype, OnDNSRoundTrip(q) PROVE Recorded'
  BY <1>4, RoundTripRecorded
<1>5. ASSUME NEW q \in Qtype, ReceiveResult(q) PROVE Recorded'
  <2>1. /\ main = q /\ rt[q] = "send" /\ rt' = [rt EXCEPT ![q] = "done"]
        /\ UNCHANGED <<domain, dnsLookup, queries, outcome>>
        /\ main' = IF q = "A" THEN "AAAA" ELSE "save"
        /\ result' = IF outcome[q].has = "addrs" \/ result = "addrs" THEN "addrs" ELSE "error"
    BY <1>5 DEF ReceiveResult
  <2>2. Entries(dnsLookup) /\ queries = <<>>
    BY <2>1 DEF Recorded, Qtype
  <2>3. Has("A")' = Has("A") /\ Has("AAAA")' = Has("AAAA")
    BY <1>0, <2>1 DEF Has, Qtype
  <2>4. Entries(dnsLookup)'
    BY <2>1, <2>2, <2>3 DEF Entries
  <2>5. CASE q = "A"
    BY <1>0, <2>1, <2>2, <2>4, <2>5 DEF Recorded, Got, Qtype
  <2>6. CASE q = "AAAA"
    BY <1>0, <2>1, <2>2, <2>4, <2>6 DEF Recorded, Got, Qtype
  <2> QED
    BY <2>5, <2>6 DEF Qtype
<1>6. CASE SaveQueries
  <2>1. /\ main = "save" /\ main' = "out" /\ UNCHANGED <<domain, rt, outcome, result>>
        /\ queries' = queries \o dnsLookup
    BY <1>6 DEF SaveQueries
  <2>2. queries = <<>> /\ Entries(dnsLookup)
    BY <2>1 DEF Recorded
  <2>3. queries' = dnsLookup
    BY <2>1, <2>2, ConcatEmptySeq DEF TypeOK
  <2>4. Entries(queries)'
    BY <2>1, <2>2, <2>3 DEF Entries, Has
  <2> QED
    BY <2>1, <2>4 DEF Recorded, Got
<1>7. CASE SendAddrs \/ ReceiveLate \/ Drained \/ WaitTimesOut
  <2>1. /\ main \notin {"lookup", "A", "AAAA", "save"} /\ main' \in {"wait", "drain", "done"}
        /\ UNCHANGED <<domain, rt, outcome, result, queries>>
    BY <1>7 DEF SendAddrs, ReceiveLate, Drained, WaitTimesOut
  <2>2. Entries(queries)'
    BY <2>1 DEF Recorded, Entries, Has
  <2> QED
    BY <2>1, <2>2 DEF Recorded, Got
<1>8. CASE Idle \/ UNCHANGED vars
  BY <1>8, RecordedFrame DEF Idle, vars, Has
<1>9. CASE LookupHost \/ ShortCircuitIPAddr \/ ToASCIIFails
  <2>1. /\ main = "lookup" /\ rt["A"] = "off" /\ rt["AAAA"] = "off" /\ result = "none"
        /\ queries = <<>> /\ dnsLookup = <<>> /\ UNCHANGED <<domain, queries, dnsLookup>>
        /\ \/ /\ main' = "A" /\ domain = "name" /\ result' = result
              /\ rt'["A"] = "dial" /\ rt'["AAAA"] = "dial"
           \/ /\ main' = "save" /\ domain # "name" /\ UNCHANGED rt
              /\ result' = "addrs" <=> domain = "ipaddr"
    BY <1>9 DEF LookupHost, ShortCircuitIPAddr, ToASCIIFails, Returned, Recorded, Entries,
                Has, Qtype
  <2>2. Entries(dnsLookup)'
    BY <2>1 DEF Entries, Has
  <2> QED
    BY <2>1, <2>2 DEF Recorded
<1> QED
  BY <1>1, <1>2, <1>3, <1>4, <1>5, <1>6, <1>7, <1>8, <1>9 DEF Next, RoundTrip, Main

-----------------------------------------------------------------------------
\* The numbers of the replies.

\* A step that neither moves nor loses a reply to p; its socket may be opened.
LEMMA NumberedFrame ==
  ASSUME NEW p \in Qtype, NEW m \in Nat, NumberedTo(p, m), Late' = Late,
         arrived'[p] = arrived[p], outcome'[p].n = outcome[p].n, reader'[p] = reader[p],
         held'[p] = held[p],
         \/ sock'[p] = sock[p] /\ inbox'[p] = inbox[p]
         \/ sock'[p] = "closed"
         \/ sock[p] = "none" /\ sock'[p] = "open" /\ inbox'[p] = inbox[p] /\ m = 0
  PROVE  NumberedTo(p, m)'
<1>1. CASE sock'[p] = sock[p] /\ inbox'[p] = inbox[p]
  BY <1>1 DEF NumberedTo
<1>2. CASE sock'[p] = "closed"
  BY <1>2 DEF NumberedTo
<1>3. CASE sock[p] = "none" /\ sock'[p] = "open" /\ inbox'[p] = inbox[p] /\ m = 0
  BY <1>3 DEF NumberedTo
<1> QED
  BY <1>1, <1>2, <1>3

\* Steps of the query q that leave the other one alone.
LEMMA NumberedOthers ==
  ASSUME Numbered, NEW q \in Qtype, Late' = Late,
         \A p \in Qtype \ {q} :
           /\ arrived'[p] = arrived[p] /\ outcome'[p] = outcome[p] /\ reader'[p] = reader[p]
           /\ held'[p] = held[p] /\ sock'[p] = sock[p] /\ inbox'[p] = inbox[p],
         NEW m \in Nat, NumberedTo(q, m)'
  PROVE  Numbered'
<1>1. ASSUME NEW p \in Qtype, p # q PROVE \E k \in Nat : NumberedTo(p, k)'
  <2>1. PICK k \in Nat : NumberedTo(p, k)
    BY DEF Numbered
  <2> QED
    BY <1>1, <2>1, NumberedFrame
<1>2. InOrder'
  BY DEF Numbered, InOrder
<1> QED
  BY <1>1, <1>2 DEF Numbered

\* The types that the numbers need, in one place.
LEMMA NumberTypes ==
  ASSUME TypeOK
  PROVE  /\ sock \in [Qtype -> {"none", "open", "closed"}] /\ arrived \in [Qtype -> Nat]
         /\ inbox \in [Qtype -> Seq(Datagram)] /\ held \in [Qtype -> Seq(Event)]
         /\ outcome \in [Qtype -> Event \cup {NoOutcome(x) : x \in Qtype}]
         /\ reader \in [Qtype -> {"off", "recv", "post", "done"}]
  BY DEF TypeOK

\* A datagram arrives at the end of the queue.
LEMMA ArriveNumbered ==
  ASSUME TypeOK, Numbered, NEW q \in Qtype, Arrive(q) PROVE Numbered'
<1> USE NumberTypes DEF rtVars, readerVars, mainVars
<1>1. PICK m \in Nat : NumberedTo(q, m)
  BY DEF Numbered
<1>2. PICK c \in Content :
        inbox' = [inbox EXCEPT ![q] = Append(inbox[q], [n |-> arrived[q] + 1, has |-> c])]
  BY DEF Arrive
<1>3. /\ UNCHANGED <<sock, outcome, reader, held, lateReplies, delayed>>
      /\ arrived' = [arrived EXCEPT ![q] = arrived[q] + 1] /\ sock[q] = "open"
  BY DEF Arrive
<1>4. Late' = Late
  BY <1>3 DEF Late
<1> DEFINE d == [n |-> arrived[q] + 1, has |-> c]
<1>5. d \in Datagram /\ d.n = arrived[q] + 1
  BY DEF Datagram
<1> HIDE DEF d
<1>6. inbox'[q] = Append(inbox[q], d)
  BY <1>2 DEF d
<1>7. /\ Len(inbox'[q]) = Len(inbox[q]) + 1 /\ Len(inbox[q]) \in Nat
      /\ DOMAIN inbox'[q] = 1 .. Len(inbox[q]) + 1 /\ DOMAIN inbox[q] = 1 .. Len(inbox[q])
      /\ \A k \in 1 .. Len(inbox[q]) : inbox'[q][k] = inbox[q][k]
      /\ inbox'[q][Len(inbox[q]) + 1] = d
  BY <1>5, <1>6
<1>8. /\ Len(inbox[q]) = arrived[q] - m
      /\ \A k \in DOMAIN inbox[q] : inbox[q][k].n = m + k
  BY <1>1, <1>3 DEF NumberedTo
<1>9. /\ Len(inbox'[q]) = arrived'[q] - m
      /\ \A k \in DOMAIN inbox'[q] : inbox'[q][k].n = m + k
  <2>1. arrived'[q] = arrived[q] + 1 /\ arrived[q] \in Nat
    BY <1>3
  <2>2. Len(inbox'[q]) = arrived'[q] - m
    BY <1>7, <1>8, <2>1
  <2>3. \A k \in 1 .. Len(inbox[q]) : inbox'[q][k].n = m + k
    BY <1>7, <1>8
  <2>4. inbox'[q][Len(inbox[q]) + 1].n = m + (Len(inbox[q]) + 1)
    BY <1>5, <1>7, <1>8, <2>1
  <2>5. \A k \in DOMAIN inbox'[q] : k \in 1 .. Len(inbox[q]) \/ k = Len(inbox[q]) + 1
    BY <1>7
  <2> QED
    BY <2>2, <2>3, <2>4, <2>5
<1>10. NumberedTo(q, m)'
  BY <1>1, <1>3, <1>4, <1>9 DEF NumberedTo
<1> QED
  BY <1>2, <1>3, <1>4, <1>10, NumberedOthers

\* RoundTrip takes the first reply.
LEMMA RecvNumbered ==
  ASSUME TypeOK, Owned, Answered, Numbered, NEW q \in Qtype, RecvReply(q) PROVE Numbered'
<1> USE NumberTypes DEF mainVars
<1>1. PICK m \in Nat : NumberedTo(q, m)
  BY DEF Numbered
<1>2. /\ rt[q] = "recv" /\ sock[q] = "open" /\ inbox[q] # <<>> /\ reader[q] = "off"
      /\ outcome[q].n = 0
  BY DEF RecvReply, CanRead, Owned, Owner, Answered, Answers, NoOutcome
<1>3. /\ UNCHANGED <<sock, arrived, held, lateReplies, delayed>>
      /\ inbox' = [inbox EXCEPT ![q] = Tail(inbox[q])]
      /\ reader' = [reader EXCEPT ![q] = "recv"]
      /\ outcome' = [outcome EXCEPT ![q] =
           [qtype |-> q, n |-> Head(inbox[q]).n, has |-> Head(inbox[q]).has]]
  BY DEF RecvReply, Take, Returns
<1>4. Late' = Late
  BY <1>3 DEF Late
<1>5. m = 0
  BY <1>1, <1>2 DEF NumberedTo
<1>6. Head(inbox[q]).n = 1
  <2>1. 1 \in DOMAIN inbox[q] /\ Head(inbox[q]) = inbox[q][1]
    BY <1>2, ReadTypes
  <2> QED
    BY <1>1, <1>2, <1>5, <2>1 DEF NumberedTo
<1>7. outcome'[q].n = 1 /\ reader'[q] = "recv" /\ inbox'[q] = Tail(inbox[q])
  BY <1>3, <1>6
<1>8. NumberedTo(q, 1)'
  <2>1. arrived[q] >= 1 /\ arrived'[q] = arrived[q] /\ held'[q] = <<>>
    BY <1>1, <1>2, <1>3, <1>5, ReadTypes DEF NumberedTo
  <2>2. \A i \in DOMAIN Late' : Late'[i].qtype # q
    <3>1. \A i \in DOMAIN Late : Late[i].qtype = q => Late[i].n > 1 /\ Late[i].n <= 0
      BY <1>1, <1>2, <1>5 DEF NumberedTo
    <3>2. \A i \in DOMAIN Late : Late[i].n \in Nat
      BY LateTypes
    <3>3. \A i \in DOMAIN Late : Late[i].qtype # q
      <4> SUFFICES ASSUME NEW i \in DOMAIN Late, Late[i].qtype = q PROVE FALSE
        OBVIOUS
      <4>1. Late[i].n > 1 /\ Late[i].n <= 0 /\ Late[i].n \in Nat
        BY <3>1, <3>2
      <4> QED
        BY <4>1
    <3> QED
      BY <1>4, <3>3
  <2>3. /\ Len(inbox'[q]) = arrived'[q] - 1
        /\ \A k \in DOMAIN inbox'[q] : inbox'[q][k].n = 1 + k
    BY <1>1, <1>2, <1>5, <1>7, <2>1, ReadTypes DEF NumberedTo
  <2> QED
    BY <1>2, <1>3, <1>7, <2>1, <2>2, <2>3 DEF NumberedTo
<1> QED
  BY <1>3, <1>4, <1>8, NumberedOthers

\* The reader takes the next reply.
LEMMA ReadNumbered ==
  ASSUME TypeOK, Owned, Numbered, NEW q \in Qtype, ReadLate(q) PROVE Numbered'
<1> USE NumberTypes DEF mainVars, rtVars
<1>1. PICK m \in Nat : NumberedTo(q, m)
  BY DEF Numbered
<1>2. reader[q] = "recv" /\ sock[q] = "open" /\ inbox[q] # <<>>
  BY DEF ReadLate, CanRead
<1> DEFINE e == [qtype |-> q, n |-> Head(inbox[q]).n, has |-> Head(inbox[q]).has]
<1>3. /\ UNCHANGED <<sock, arrived, outcome, lateReplies, delayed>>
      /\ inbox' = [inbox EXCEPT ![q] = Tail(inbox[q])]
      /\ reader' = [reader EXCEPT ![q] = "post"]
      /\ held' = [held EXCEPT ![q] = <<e>>]
  BY DEF ReadLate, Take
<1>4. Late' = Late
  BY <1>3 DEF Late
<1>5. m > 0 /\ Head(inbox[q]).n = m + 1
  <2>1. 1 \in DOMAIN inbox[q] /\ Head(inbox[q]) = inbox[q][1]
    BY <1>2, ReadTypes
  <2> QED
    BY <1>1, <1>2, <2>1 DEF NumberedTo
<1>6. e.n = m + 1 /\ e.qtype = q
  BY <1>5
<1> HIDE DEF e
<1>7. /\ reader'[q] = "post" /\ inbox'[q] = Tail(inbox[q])
      /\ Len(held'[q]) = 1 /\ held'[q][1] = e
  BY <1>3
<1>8. NumberedTo(q, m + 1)'
  <2>1. /\ Len(inbox[q]) = arrived[q] - m
        /\ \A k \in DOMAIN inbox[q] : inbox[q][k].n = m + k
    BY <1>1, <1>2 DEF NumberedTo
  <2>2. arrived'[q] = arrived[q] /\ arrived[q] \in Nat /\ m + 1 <= arrived[q]
    BY <1>2, <1>3, <2>1, ReadTypes
  <2>3. Len(inbox'[q]) = arrived'[q] - (m + 1)
    BY <1>2, <1>7, <2>1, <2>2, ReadTypes
  <2>4. \A k \in DOMAIN inbox'[q] : inbox'[q][k].n = (m + 1) + k
    <3>1. \A k \in 1 .. Len(inbox[q]) - 1 : /\ inbox'[q][k] = inbox[q][k + 1]
                                           /\ k + 1 \in DOMAIN inbox[q]
      BY <1>2, <1>7, ReadTypes
    <3>2. DOMAIN inbox'[q] = 1 .. Len(inbox[q]) - 1
      BY <1>2, <1>7, ReadTypes
    <3>3. ASSUME NEW k \in 1 .. Len(inbox[q]) - 1 PROVE inbox'[q][k].n = (m + 1) + k
      <4>1. inbox'[q][k].n = m + (k + 1)
        BY <2>1, <3>1
      <4> QED
        BY <4>1
    <3> QED
      BY <3>2, <3>3
  <2>5. /\ \A i \in DOMAIN Late' : Late'[i].qtype = q => Late'[i].n > 1 /\ Late'[i].n <= m
        /\ \A n \in 2 .. m : \E i \in DOMAIN Late' : Late'[i].qtype = q /\ Late'[i].n = n
    BY <1>1, <1>2, <1>4 DEF NumberedTo
  <2>6. outcome'[q].n = 1 /\ (m + 1) - 1 = m
    BY <1>1, <1>3, <1>5 DEF NumberedTo
  <2> QED
    BY <1>2, <1>3, <1>5, <1>6, <1>7, <2>2, <2>3, <2>4, <2>5, <2>6 DEF NumberedTo
<1> QED
  BY <1>3, <1>4, <1>8, NumberedOthers

\* The reader posts the reply that it holds: it is the latest.
LEMMA PostNumbered ==
  ASSUME TypeOK, Numbered, NEW q \in Qtype, Post(q) PROVE Numbered'
<1> USE NumberTypes DEF mainVars, rtVars, sockVars
<1> DEFINE e == held[q][1]
<1>1. PICK m \in Nat : NumberedTo(q, m)
  BY DEF Numbered
<1>2. /\ reader[q] = "post" /\ reader' = [reader EXCEPT ![q] = "recv"]
      /\ held' = [held EXCEPT ![q] = <<>>] /\ UNCHANGED <<sock, inbox, arrived, outcome>>
  BY DEF Post
<1>3. e \in Event /\ Late' = Append(Late, e) /\ Late \in Seq(Event)
  BY PostAppends, LateTypes
<1>4. e.n = m /\ e.qtype = q /\ m > 1
  BY <1>1, <1>2 DEF NumberedTo
<1> HIDE DEF e
<1>5. /\ Len(Late) \in Nat /\ DOMAIN Late = 1 .. Len(Late)
      /\ DOMAIN Late' = 1 .. Len(Late) + 1
      /\ \A i \in DOMAIN Late : i \in DOMAIN Late' /\ Late'[i] = Late[i] /\ i < Len(Late) + 1
      /\ Late'[Len(Late) + 1] = e /\ Len(Late) + 1 \in DOMAIN Late'
      /\ \A i \in DOMAIN Late' : i \in DOMAIN Late \/ i = Len(Late) + 1
  BY <1>3
<1>6. \A i \in DOMAIN Late : Late[i].n \in Nat
  BY LateTypes
<1>7. \A i \in DOMAIN Late : Late[i].qtype = q => Late[i].n > 1 /\ Late[i].n <= m - 1
  BY <1>1, <1>2 DEF NumberedTo
<1>8. InOrder'
  <2> SUFFICES ASSUME NEW i \in DOMAIN Late', NEW j \in DOMAIN Late', i < j,
                      Late'[i].qtype = Late'[j].qtype
               PROVE  Late'[i].n < Late'[j].n
    BY DEF InOrder
  <2>1. i \in DOMAIN Late
    BY <1>5
  <2>2. CASE j \in DOMAIN Late
    BY <1>5, <2>1, <2>2 DEF Numbered, InOrder
  <2>3. CASE j = Len(Late) + 1
    BY <1>4, <1>5, <1>6, <1>7, <2>1, <2>3
  <2> QED
    BY <1>5, <2>2, <2>3
<1>9. NumberedTo(q, m)'
  <2>1. \A i \in DOMAIN Late' : Late'[i].qtype = q => Late'[i].n > 1 /\ Late'[i].n <= m
    <3>1. ASSUME NEW i \in DOMAIN Late, Late'[i].qtype = q
          PROVE  Late'[i].n > 1 /\ Late'[i].n <= m
      <4>1. Late[i].n \in Nat /\ Late[i].n > 1 /\ Late[i].n <= m - 1 /\ Late'[i] = Late[i]
        BY <1>5, <1>6, <1>7, <3>1
      <4> QED
        BY <4>1
    <3>2. e.n > 1 /\ e.n <= m
      BY <1>4
    <3> QED
      BY <1>5, <3>1, <3>2
  <2>2. \A n \in 2 .. m : \E i \in DOMAIN Late' : Late'[i].qtype = q /\ Late'[i].n = n
    <3> SUFFICES ASSUME NEW n \in 2 .. m
                 PROVE  \E i \in DOMAIN Late' : Late'[i].qtype = q /\ Late'[i].n = n
      OBVIOUS
    <3>1. CASE n = m
      BY <1>4, <1>5, <3>1
    <3>2. CASE n \in 2 .. m - 1
      <4>1. PICK i \in DOMAIN Late : Late[i].qtype = q /\ Late[i].n = n
        BY <1>1, <1>2, <3>2 DEF NumberedTo
      <4> QED
        BY <1>5, <4>1
    <3> QED
      BY <3>1, <3>2
  <2>3. reader'[q] = "recv" /\ held'[q] = <<>>
    BY <1>2
  <2> QED
    BY <1>1, <1>2, <1>4, <2>1, <2>2, <2>3 DEF NumberedTo
<1>10. ASSUME NEW p \in Qtype, p # q PROVE \E k \in Nat : NumberedTo(p, k)'
  <2>1. PICK k \in Nat : NumberedTo(p, k)
    BY DEF Numbered
  <2>2. /\ \A i \in DOMAIN Late' : Late'[i].qtype = p =>
             i \in DOMAIN Late /\ Late'[i] = Late[i]
    BY <1>4, <1>5, <1>10
  <2>3. reader'[p] = reader[p] /\ held'[p] = held[p]
    BY <1>2, <1>10
  <2>4. NumberedTo(p, k)'
    <3> DEFINE top == IF reader[p] = "post" THEN k - 1 ELSE k
    <3>1. \A i \in DOMAIN Late' : Late'[i].qtype = p => Late'[i].n > 1 /\ Late'[i].n <= top
      BY <2>1, <2>2 DEF NumberedTo
    <3>2. \A n \in 2 .. top : \E i \in DOMAIN Late : Late[i].qtype = p /\ Late[i].n = n
      BY <2>1 DEF NumberedTo
    <3>3. \A n \in 2 .. top : \E i \in DOMAIN Late' : Late'[i].qtype = p /\ Late'[i].n = n
      BY <1>5, <3>2
    <3> QED
      BY <1>2, <2>1, <2>3, <3>1, <3>3 DEF NumberedTo
  <2> QED
    BY <2>4
<1> QED
  BY <1>8, <1>9, <1>10 DEF Numbered

\* A full buffer: the reply is lost, and it is the last one.
LEMMA PostFailsNumbered ==
  ASSUME TypeOK, Numbered, NEW q \in Qtype, PostFails(q) PROVE Numbered'
<1> USE NumberTypes DEF mainVars, rtVars
<1>1. PICK m \in Nat : NumberedTo(q, m)
  BY DEF Numbered
<1>2. /\ reader[q] = "post" /\ reader' = [reader EXCEPT ![q] = "done"]
      /\ held' = [held EXCEPT ![q] = <<>>] /\ sock' = [sock EXCEPT ![q] = "closed"]
      /\ inbox' = [inbox EXCEPT ![q] = <<>>]
      /\ UNCHANGED <<arrived, outcome, lateReplies, delayed>>
  BY DEF PostFails, Close
<1>3. Late' = Late
  BY <1>2 DEF Late
<1>4. m - 1 \in Nat /\ m - 1 > 0 /\ reader'[q] = "done" /\ held'[q] = <<>> /\ sock'[q] = "closed"
  BY <1>1, <1>2 DEF NumberedTo
<1>5. NumberedTo(q, m - 1)'
  BY <1>1, <1>2, <1>3, <1>4 DEF NumberedTo
<1> QED
  BY <1>2, <1>3, <1>4, <1>5, NumberedOthers

\* Every step keeps the numbers.
LEMMA NumberedStep == IInv /\ [Next]_vars => Numbered'
<1> SUFFICES ASSUME TypeOK, Owned, Answered, Numbered, [Next]_vars PROVE Numbered'
  BY DEF IInv
<1> USE NumberTypes DEF mainVars, rtVars, sockVars, readerVars
<1>1. ASSUME Late' = Late,
             UNCHANGED <<sock, inbox, arrived, outcome, reader, held>>
      PROVE  Numbered'
  <2>1. ASSUME NEW p \in Qtype PROVE \E k \in Nat : NumberedTo(p, k)'
    <3>1. PICK k \in Nat : NumberedTo(p, k)
      BY DEF Numbered
    <3> QED
      BY <1>1, <3>1, NumberedFrame
  <2> QED
    BY <1>1, <2>1 DEF Numbered, InOrder
<1>2. ASSUME NEW q \in Qtype,
             SocketFails(q) \/ Write(q) \/ OnDNSRoundTrip(q) \/ ReceiveResult(q)
      PROVE  Numbered'
  BY <1>1, <1>2 DEF SocketFails, Write, OnDNSRoundTrip, ReceiveResult, Late
<1>3. ASSUME NEW q \in Qtype, DialFails(q) \/ WriteFails(q) \/ RecvFails(q) PROVE Numbered'
  <2>1. PICK m \in Nat : NumberedTo(q, m)
    BY DEF Numbered
  <2>2. outcome[q].n = 0
    BY <1>3 DEF DialFails, WriteFails, RecvFails, Answered, Answers, NoOutcome
  <2>3. /\ UNCHANGED <<arrived, reader, held, lateReplies, delayed>>
        /\ outcome' = [outcome EXCEPT ![q] = [qtype |-> q, n |-> 0, has |-> "error"]]
        /\ \/ UNCHANGED <<sock, inbox>>
           \/ Close(q)
    BY <1>3 DEF DialFails, WriteFails, RecvFails, Returns
  <2>4. Late' = Late
    BY <2>3 DEF Late
  <2>5. outcome'[q].n = 0
    BY <2>3
  <2>6. NumberedTo(q, m)'
    BY <2>1, <2>2, <2>3, <2>4, <2>5, NumberedFrame DEF Close
  <2> QED
    BY <2>3, <2>4, <2>6, NumberedOthers DEF Close
<1>4. ASSUME NEW q \in Qtype, Dial(q) PROVE Numbered'
  <2>1. PICK m \in Nat : NumberedTo(q, m)
    BY DEF Numbered
  <2>2. sock[q] = "none" /\ outcome[q].n = 0
    BY <1>4 DEF Dial, Owned, Owner, Answered, Answers, NoOutcome
  <2>3. /\ UNCHANGED <<arrived, reader, held, lateReplies, delayed, inbox, outcome>>
        /\ sock' = [sock EXCEPT ![q] = "open"]
    BY <1>4 DEF Dial
  <2>4. Late' = Late /\ m = 0
    BY <2>1, <2>2, <2>3 DEF Late, NumberedTo
  <2>5. NumberedTo(q, m)'
    BY <2>1, <2>2, <2>3, <2>4, NumberedFrame
  <2> QED
    BY <2>3, <2>4, <2>5, NumberedOthers
<1>5. ASSUME NEW q \in Qtype, ReadFails(q) PROVE Numbered'
  <2>1. PICK m \in Nat : NumberedTo(q, m)
    BY DEF Numbered
  <2>2. /\ UNCHANGED <<arrived, outcome, held, lateReplies, delayed>> /\ Close(q)
        /\ reader[q] = "recv" /\ reader' = [reader EXCEPT ![q] = "done"]
    BY <1>5 DEF ReadFails
  <2>3. Late' = Late
    BY <2>2 DEF Late
  <2>4. NumberedTo(q, m)'
    BY <2>1, <2>2, <2>3 DEF NumberedTo, Close
  <2> QED
    BY <2>2, <2>3, <2>4, NumberedOthers DEF Close
<1>6. CASE ReceiveLate
  <2>1. /\ lateReplies' = Append(lateReplies, Head(delayed)) /\ delayed' = Tail(delayed)
        /\ delayed # <<>> /\ UNCHANGED <<sock, inbox, arrived, outcome, reader, held>>
    BY <1>6 DEF ReceiveLate
  <2>2. lateReplies \in Seq(Event) /\ delayed \in Seq(Event)
    BY DEF TypeOK
  <2>3. Late' = Late
    BY <2>1, <2>2, MoveHead DEF Late
  <2> QED
    BY <1>1, <2>1, <2>3
<1>7. CASE SaveQueries \/ SendAddrs \/ Drained \/ WaitTimesOut \/ Idle \/ UNCHANGED vars
  BY <1>1, <1>7 DEF SaveQueries, SendAddrs, Drained, WaitTimesOut, Idle, vars, Late
<1>8. CASE LookupHost \/ ShortCircuitIPAddr \/ ToASCIIFails
  BY <1>1, <1>8 DEF LookupHost, ShortCircuitIPAddr, ToASCIIFails, Returned, Late
<1> QED
  BY <1>2, <1>3, <1>4, <1>5, <1>6, <1>7, <1>8, ArriveNumbered, RecvNumbered, ReadNumbered,
     PostNumbered, PostFailsNumbered DEF Next, RoundTrip, Reader, Main

-----------------------------------------------------------------------------
\* The invariant holds in every reachable state.
LEMMA IInvAlways == Spec => []IInv
<1>1. IInv /\ [Next]_vars => IInv'
  BY TypesStep, OwnedStep, PostedStep, RecordedStep, NumberedStep DEF IInv
<1> QED
  BY InitIInv, <1>1, PTL DEF Spec

\* The variables have their types; in particular, neither buffer of the trace ever
\* holds more than its size.
THEOREM TypeCorrect == Spec => []TypeOK
<1>1. IInv => TypeOK
  BY DEF IInv
<1> QED
  BY IInvAlways, <1>1, PTL

\* RoundTrip and ownConnAndSendRecvLoop close each socket exactly once, and neither
\* uses it after the other may have closed it.
THEOREM OneOwnerAlways == Spec => []OneOwner
  BY IInvAlways, IInvImplies, PTL

\* The answer and the late replies of a query are the replies that reached its socket,
\* each once, in order and without a gap; and the timeout loses none of those that
\* were posted before it.
THEOREM LateRepliesFollowAnswerAlways == Spec => []LateRepliesFollowAnswer
  BY IInvAlways, IInvImplies, PTL

\* When lookupHostUDP asks about a name, its test keys have one entry for each of the
\* two queries, from which the result follows: the buffer of the trace never drops
\* one.  When the wrapped resolver answers by itself there is no query and no entry.
THEOREM QueriesExplainResultAlways == Spec => []QueriesExplainResult
  BY IInvAlways, IInvImplies, PTL
=============================================================================
