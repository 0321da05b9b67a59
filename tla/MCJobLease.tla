---------------------------- MODULE MCJobLease ----------------------------
(***************************************************************************)
(* TLC instance of JobLease: two workers racing for one job that can be    *)
(* claimed three times, so that a zombie, the claim that replaced it and   *)
(* the claim after that one's release all coexist.                         *)
(***************************************************************************)
EXTENDS JobLease
=============================================================================
