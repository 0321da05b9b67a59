-------------------------- MODULE MCCaseController --------------------------
(***************************************************************************)
(* TLC instances of CaseController.  The runs differ in what users say,    *)
(* what the models answer and which faults there are.                      *)
(***************************************************************************)
EXTENDS CaseController, TLC

WorkerSymmetry == Permutations(Workers)
=============================================================================
