----------------------------- MODULE BenchSelect -----------------------------
(***************************************************************************)
(* The choice of the probe services (probeservices/benchselect.go).  A       *)
(* service is a record with its type; to try service i gives res[i]: the     *)
(* time it took to answer, or 0 when it does not work.                        *)
(*                                                                         *)
(* The loops are functions of the number of iterations: out[k] and best[k]   *)
(* are what the loop has computed after the first k.                         *)
(***************************************************************************)
EXTENDS Integers, Sequences

ServiceType == {"https", "cloudfront", "onion"}

\* Indices of the services of type t among the first k, in their order.
OfType(types, t) ==
  LET out[k \in 0..Len(types)] ==
        IF k = 0 THEN <<>>
        ELSE IF types[k] = t THEN Append(out[k - 1], k) ELSE out[k - 1]
  IN  out

OnlyType(types, t) == OfType(types, t)[Len(types)]

OnlyHTTPS(types) == OnlyType(types, "https")
OnlyFallbacks(types) == OnlyType(types, "cloudfront") \o OnlyType(types, "onion")

\* An onion service is not supported: NewClient fails.
Works(types, res, i) == types[i] # "onion" /\ res[i] > 0

\* All the https services; then, if none works, the fallbacks up to the first one
\* that does.
TryAll(types, res) ==
  LET https == OnlyHTTPS(types)
      others == OnlyFallbacks(types)
      good == {k \in DOMAIN others : Works(types, res, others[k])}
      last == IF good = {} THEN Len(others) ELSE CHOOSE k \in good : \A j \in good : k <= j
  IN  IF \E k \in DOMAIN https : Works(types, res, https[k])
        THEN https ELSE https \o SubSeq(others, 1, last)

\* A mutant: candidates that failed are not skipped.
M_Better(types, res, best, i) ==
  IF best = 0 \/ res[best] > res[i] THEN i ELSE best

\* The better one of the best candidate so far (0: there is none) and the next.
Better(types, res, best, i) ==
  IF Works(types, res, i) /\ (best = 0 \/ res[best] > res[i]) THEN i ELSE best

\* The best of the first k candidates that were tried.
BestOf(types, res, tried) ==
  LET best[k \in 0..Len(tried)] ==
        IF k = 0 THEN 0 ELSE Better(types, res, best[k - 1], tried[k])
  IN  best

SelectBest(types, res) ==
  LET tried == TryAll(types, res) IN BestOf(types, res, tried)[Len(tried)]

\* What TryAll's comment asks for: the fastest https service that works and, only
\* when there is none, the first fallback that does.
IsBest(types, res, i) ==
  /\ Works(types, res, i)
  /\ IF types[i] = "https"
       THEN \A j \in DOMAIN types :
              types[j] = "https" /\ Works(types, res, j) => res[i] <= res[j]
       ELSE \A j \in DOMAIN types :
              Works(types, res, j) => types[j] # "https" /\ i <= j
=============================================================================
