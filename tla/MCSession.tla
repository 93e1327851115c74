------------------------------ MODULE MCSession ------------------------------
(***************************************************************************)
(* A small instance of Session: services of every type.                     *)
(***************************************************************************)
EXTENDS Session

MCServices == <<"onion", "cloudfront", "https", "https", "cloudfront">>
=============================================================================
