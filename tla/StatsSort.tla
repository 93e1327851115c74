----------------------------- MODULE StatsSort -----------------------------
(***************************************************************************)
(* How pkg/enginenetx/statsmanager.go orders the statistics of tactics. A  *)
(* record has one counter per callback and the time of the last update.    *)
(***************************************************************************)
EXTENDS Integers, SequencesExt

\* The counters of a statsTactic: the attempts started, and one per outcome.
Outcomes == {"tcp_error", "tcp_interrupt", "tls_error", "tls_interrupt", "verify_error",
             "success"}
Counters == {"started"} \union Outcomes

\* statsNilSafeSuccessRate, as a fraction: zero when nothing was started.
RateNum(r) == IF r.count["started"] > 0 THEN r.count["success"] ELSE 0
RateDen(r) == IF r.count["started"] > 0 THEN r.count["started"] ELSE 1
RateGreater(a, b) == RateNum(a) * RateDen(b) > RateNum(b) * RateDen(a)

\* The function given to sort.SliceStable. Note that it goes on to compare the
\* successes, and then the update times, also when the rate of b is the greater.
Less(a, b) ==
  \/ RateGreater(a, b)
  \/ a.count["success"] > b.count["success"]
  \/ a.updated > b.updated

\* sort.SliceStable on up to 20 elements is an insertion sort: an element moves
\* towards the front for as long as it is "less" than the one before it.
InsertStable(sorted, r) ==
  LET stop == {p \in 1..Len(sorted) + 1 : \A q \in p..Len(sorted) : Less(r, sorted[q])}
  IN  InsertAt(sorted, CHOOSE p \in stop : \A q \in stop : p <= q, r)

\* sorted[k] is the list once the first k elements of the input are in it.
Sorting(input) ==
  LET sorted[k \in 0..Len(input)] ==
        IF k = 0 THEN <<>> ELSE InsertStable(sorted[k - 1], input[k])
  IN  sorted

SortStats(input) == Sorting(input)[Len(input)]

\* The loops that append the accepted elements of a list, those at positions `at`, to
\* a new one: out[k] is the new list after k elements.
Accepting(list, at) ==
  LET out[k \in 0..Len(list)] ==
        IF k = 0 THEN <<>>
        ELSE IF k \in at THEN Append(out[k - 1], list[k]) ELSE out[k - 1]
  IN  out

Accepted(list, at) == Accepting(list, at)[Len(list)]

\* The order DESIGN.md documents: by decreasing success rate, then by decreasing
\* number of successes, then by decreasing last update time.
DocumentedBefore(a, b) ==
  \/ RateGreater(a, b)
  \/ /\ ~RateGreater(b, a)
     /\ \/ a.count["success"] > b.count["success"]
        \/ /\ a.count["success"] = b.count["success"]
           /\ a.updated > b.updated
=============================================================================
