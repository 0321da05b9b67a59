---------------------------- MODULE MCRunDispatch ----------------------------
(***************************************************************************)
(* TLC instance of RunDispatch: two recovery workers, and a process that   *)
(* the gateway starts.                                                     *)
(***************************************************************************)
EXTENDS RunDispatch

CONSTANTS c1, w1, w2, nobody

OneChild == {c1}
TwoRecoverers == {w1, w2}
=============================================================================
