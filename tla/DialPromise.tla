---------------------------- MODULE DialPromise ----------------------------
(***************************************************************************)
(* What DialTLSContext promises its caller, whatever it does inside: while *)
(* the call is pending connections are opened and closed at will, each at  *)
(* most once; then the call returns, either one open connection, with no   *)
(* other left open, or an error, with none left open; afterwards it does   *)
(* nothing any more (the caller owns the connection).                      *)
(***************************************************************************)
CONSTANT Conns

VARIABLES
  pending,   \* the call has not returned
  open,      \* connections that are open
  used,      \* connections that have ever been open
  result     \* {} or the set of the one returned connection

vars == <<pending, open, used, result>>

Init == pending = TRUE /\ open = {} /\ used = {} /\ result = {}

Open(c) ==
  /\ pending /\ c \notin used
  /\ open' = open \union {c} /\ used' = used \union {c}
  /\ UNCHANGED <<pending, result>>

Close(c) ==
  /\ pending /\ c \in open
  /\ open' = open \ {c}
  /\ UNCHANGED <<pending, used, result>>

ReturnConn(c) ==
  /\ pending /\ c \in open
  /\ pending' = FALSE /\ open' = {c} /\ result' = {c}
  /\ UNCHANGED used

ReturnError ==
  /\ pending /\ open = {}
  /\ pending' = FALSE
  /\ UNCHANGED <<open, used, result>>

Next == \/ \E c \in Conns : Open(c) \/ Close(c) \/ ReturnConn(c)
        \/ ReturnError

Spec == Init /\ [][Next]_vars
=============================================================================
