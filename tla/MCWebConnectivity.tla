-------------------------- MODULE MCWebConnectivity --------------------------
(***************************************************************************)
(* Small instances of WebConnectivity.                                      *)
(***************************************************************************)
EXTENDS WebConnectivity, TLC

CONSTANTS a1, a2, a3, d1

\* The system resolver may find one address, UDP another one, and the test helper
\* the second one.
TwoAddrs == ("system" :> {{}, {a1}}) @@ ("udp" :> {{a2}}) @@ ("https" :> {{}})
TwoTHAddrs == {{a1, a2}}

HTTPURL == {[scheme |-> "http", domain |-> d1]}

\* Each resolver finds an address of its own.
ThreeAddrs == ("system" :> {{a1}}) @@ ("udp" :> {{a2}}) @@ ("https" :> {{a3}})
NoTHAddrs == {{}}
HTTPSURL == {[scheme |-> "https", domain |-> d1]}
=============================================================================
