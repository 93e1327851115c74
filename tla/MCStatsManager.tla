--------------------------- MODULE MCStatsManager ---------------------------
(* StatsManager for TLC: t1 and t2 share an endpoint, t3 has its own. *)
EXTENDS StatsManager

CONSTANTS t1, t2, t3
MCEndpointOf == [t \in Tactics |-> IF t = t3 THEN "e2" ELSE "e1"]
=============================================================================
