------------------------ MODULE MCObligationEvidence ------------------------
(***************************************************************************)
(* TLC instance of ObligationEvidence: two workers, and a plan with an     *)
(* obligation that yields evidence, one that is only reported, one that    *)
(* yields evidence and waits for the reported one, and a boundary.         *)
(***************************************************************************)
EXTENDS ObligationEvidence, TLC

CONSTANTS free, told, after, boundary

AllObligations == {free, told, after, boundary}

AllExecutable == AllObligations \ {boundary}

WorkerSymmetry == Permutations(Workers)

Dependencies ==
  [o \in AllObligations |-> IF o = after THEN {told} ELSE {}]

Independent == [o \in Obligations |-> {}]

Chain == [o \in Obligations |-> IF o = after THEN {free} ELSE {}]
=============================================================================
