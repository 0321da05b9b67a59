---------------------------- MODULE MCModelJob ----------------------------
(***************************************************************************)
(* TLC instance of ModelJob: two workers, two provider attempts and up to  *)
(* two faults, so that a zombie and the worker that took its job over run  *)
(* the same attempts at the same time.                                     *)
(***************************************************************************)
EXTENDS ModelJob
=============================================================================
