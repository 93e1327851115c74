--------------------------- MODULE HappyEyeballs ---------------------------
(***************************************************************************)
(* The delay schedule of pkg/enginenetx/happyeyeballs.go. The unit of time *)
(* is the base delay (one second); the left shifts of the base delay are   *)
(* written as their values.                                                *)
(***************************************************************************)
EXTENDS Integers

\* happyEyeballsDelay: 0, 1, 2, 4, 8, 16, 24, 32, ...
HappyEyeballsDelay(idx) ==
  CASE idx <= 0 -> 0
    [] idx = 1 -> 1
    [] idx = 2 -> 2
    [] idx = 3 -> 4
    [] idx = 4 -> 8
    [] OTHER -> 8 * (idx - 3)
=============================================================================
