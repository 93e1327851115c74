---------------------------- MODULE MCDNSOverUDP ----------------------------
(***************************************************************************)
(* A small instance of DNSOverUDP: the A query gets more late replies than  *)
(* the buffer holds.                                                        *)
(***************************************************************************)
EXTENDS DNSOverUDP, TLC

MCMaxReplies == ("A" :> 3) @@ ("AAAA" :> 2)
=============================================================================
