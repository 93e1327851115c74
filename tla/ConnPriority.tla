---------------------------- MODULE ConnPriority ----------------------------
(***************************************************************************)
(* Which connection of Web Connectivity LTE may fetch the web page          *)
(* (pkg/experiment/webconnectivitylte/priority.go): the pure part of the    *)
(* priority selector.  An address is known by the set of resolvers that     *)
(* returned it (the bits of DNSEntry.Flags); an address that only the test  *)
(* helper knows has no flags.                                               *)
(***************************************************************************)
EXTENDS Naturals, Sequences, SequencesExt

\* The resolvers that set a flag: DNSAddrFlagSystemResolver, ...UDP, ...HTTPS.
Source == {"system", "udp", "https"}

\* nsystem, nudp or nhttps of the selector: how many addresses have the flag is
\* only ever compared with zero.
Found(flags, source) == \E a \in DOMAIN flags : source \in flags[a]

\* The flag that makes a request highest priority, or "none" when the resolvers
\* found nothing and every address comes from the test helper.
BestSource(flags) ==
  CASE Found(flags, "system") -> "system"
    [] ~Found(flags, "system") /\ Found(flags, "udp") -> "udp"
    [] ~Found(flags, "system") /\ ~Found(flags, "udp") /\ Found(flags, "https") -> "https"
    [] OTHER -> "none"

IsHighestPriority(flags, addr) ==
  BestSource(flags) = "none" \/ BestSource(flags) \in flags[addr]

\* The first request of highest priority, or the first request of all.
FindHighestPriority(flags, requests) ==
  LET best == SelectInSeq(requests, LAMBDA r : IsHighestPriority(flags, r))
  IN  requests[IF best = 0 THEN 1 ELSE best]

\* The order the head comment of priority.go announces: the system resolver,
\* then UDP, then DNS over HTTPS, then the test helper.
Rank(flags, addr) ==
  CASE "system" \in flags[addr] -> 1
    [] "system" \notin flags[addr] /\ "udp" \in flags[addr] -> 2
    [] flags[addr] = {"https"} -> 3
    [] flags[addr] = {} -> 4
=============================================================================
