---------------------------- MODULE MCFrameReview ----------------------------
(***************************************************************************)
(* TLC instance of FrameReview: two nodes, two things to say of each, and  *)
(* objections of every kind.                                               *)
(***************************************************************************)
EXTENDS FrameReview

CONSTANTS n1, n2

TwoNodes == {n1, n2}

\* What the deterministic validation refuses: two nodes that disagree, in
\* one of the two ways.
Disagreeing == {[n \in TwoNodes |-> IF n = n1 THEN 1 ELSE 2]}

EveryKind ==
  {[blocking |-> TRUE, affected |-> {n1}],
   [blocking |-> FALSE, affected |-> TwoNodes]}
=============================================================================
