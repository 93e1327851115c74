-------------------------- MODULE MCTacticsPolicy --------------------------
(***************************************************************************)
(* TacticsPolicy for TLC. The stats know about some tactics that the DNS   *)
(* and the bridges also have, so that there are duplicates to filter.      *)
(***************************************************************************)
EXTENDS TacticsPolicy

MCAddrs == {"a1", "a2", "a3", "b1", "u1"}
MCSNIs == {"own", "x", "y"}

T(addr, sni) == [addr |-> addr, sni |-> sni]

DNSLists == {<<>>, <<T("a1", "own")>>, <<T("a1", "own"), T("a2", "own")>>}
StatsLists == {<<>>, <<T("a1", "own")>>, <<T("b1", "x"), T("a1", "own"), T("a3", "own")>>}
BridgesLists == {<<>>, <<T("b1", "y"), T("b1", "x")>>}
UserLists == {<<>>, <<None>>, <<T("u1", "own"), None, T("u1", "own")>>}
SNIShuffles == {<< <<"x", "y">>, <<"y", "x">> >>}

\* Bridges exist for the API endpoint, other SNIs are tried for test helpers.
ComposedInputs(factors, snis) ==
  {i \in [proxy : BOOLEAN, hasUser : BOOLEAN, isTH : BOOLEAN, factor : factors, snis : snis,
          user : UserLists, dns : DNSLists, stats : StatsLists, bridges : BridgesLists] :
     /\ ~(i.isTH /\ i.bridges # <<>>)
     /\ ~i.hasUser => i.user = <<>>
     /\ i.proxy => ~i.hasUser /\ ~i.isTH /\ i.stats = <<>> /\ i.bridges = <<>>}

MCInputs == ComposedInputs({0, 1, 2}, SNIShuffles)
=============================================================================
