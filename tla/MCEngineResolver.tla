-------------------------- MODULE MCEngineResolver --------------------------
(***************************************************************************)
(* EngineResolver for TLC: four resolvers, with two orders of their first  *)
(* scores; no file, or one with a removed resolver, and with a tie.        *)
(***************************************************************************)
EXTENDS EngineResolver

E(u, s) == [url |-> u, score |-> s]

MCAllMakers ==
  {<<E("https", 700), E("http3", 900), E("broken", 200), E("system", 500)>>,
   <<E("https", 300), E("http3", 100), E("broken", 600), E("system", 500)>>}

MCFiles == {<<>>, <<E("removed", 990), E("system", 950), E("http3", 950)>>}
=============================================================================
