-------------------------- MODULE ObligationLedger --------------------------
(***************************************************************************)
(* What the obligation runtime promises, whatever jobs, leases, receipts   *)
(* and transactions it is built from.  Every business authority has its    *)
(* own schedule of the obligations of the plan.  An obligation is handed   *)
(* out under its own authority only, after everything it depends on has    *)
(* succeeded; it is settled once; it succeeds only under the authority it  *)
(* was handed out for; and it is superseded only after that authority is   *)
(* gone.                                                                   *)
(***************************************************************************)
EXTENDS Naturals

CONSTANTS
  Obligations,  \* obligations of the adopted plan
  Executable,   \* those a worker can execute; the others are boundaries
  DependsOn,    \* obligation |-> the obligations its task waits for
  MaxRevisions  \* bound: changes of the business authority

VARIABLES
  authority,  \* the business authority now
  standing    \* per schedule and obligation: how far it got

vars == <<authority, standing>>
-----------------------------------------------------------------------------
Revisions == 0 .. MaxRevisions

Jobs == Revisions \X Obligations

Open == {"waiting", "dispatched"}

\* What may become of a job in one transaction.
Handed(a, o) ==
  /\ standing[<<a, o>>] = "waiting"
  /\ o \in Executable
  /\ a = authority
  /\ \A p \in DependsOn[o] : standing'[<<a, p>>] = "SUCCEEDED"
  /\ standing'[<<a, o>>] = "dispatched"

Succeeded(a, o) ==
  /\ standing[<<a, o>>] = "dispatched"
  /\ a = authority
  /\ standing'[<<a, o>>] = "SUCCEEDED"

Closed(a, o) ==
  /\ standing[<<a, o>>] = "waiting"
  /\ \/ o \notin Executable
     \/ \E p \in DependsOn[o] : standing'[<<a, p>>] = "CLOSED"
  /\ standing'[<<a, o>>] = "CLOSED"

Failed(a, o) ==
  /\ standing[<<a, o>>] = "dispatched"
  /\ a = authority
  /\ standing'[<<a, o>>] = "CLOSED"

Superseded(a, o) ==
  /\ standing[<<a, o>>] \in Open
  /\ a # authority
  /\ standing'[<<a, o>>] = "SUPERSEDED"

Settle ==
  /\ \A a \in Revisions, o \in Obligations :
       \/ standing'[<<a, o>>] = standing[<<a, o>>]
       \/ Handed(a, o)
       \/ Succeeded(a, o)
       \/ Failed(a, o)
       \/ Closed(a, o)
       \/ Superseded(a, o)
  /\ standing' \in [Jobs -> Open \cup {"SUCCEEDED", "CLOSED", "SUPERSEDED"}]
  /\ UNCHANGED authority

Revise ==
  /\ authority < MaxRevisions
  /\ authority' = authority + 1
  /\ UNCHANGED standing

Init ==
  /\ authority = 0
  /\ standing = [j \in Jobs |-> "waiting"]

Next == Settle \/ Revise

Spec == Init /\ [][Next]_vars
=============================================================================
