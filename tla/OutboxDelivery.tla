-------------------------- MODULE OutboxDelivery --------------------------
(***************************************************************************)
(* What the outbox promises to the controller about one job, with no       *)
(* leases, clocks or worker processes: jobs are claimed again and again,   *)
(* each time with a larger fencing token, until one verdict is reached; a  *)
(* verdict of a worker is the verdict of the newest claim, a verdict of    *)
(* the controller (a superseded job) needs no claim, and after the verdict *)
(* nothing about the job changes any more.                                 *)
(***************************************************************************)
EXTENDS Naturals

CONSTANT Jobs

VARIABLES claims,   \* fencing tokens granted so far, per job
          verdict   \* the terminal disposition, per job

vars == <<claims, verdict>>

Pending(j) == verdict[j].verdict = "none"

Init ==
  /\ claims = [j \in Jobs |-> 0]
  /\ verdict = [j \in Jobs |-> [verdict |-> "none", fence |-> 0]]

ClaimJob(j) ==
  /\ Pending(j)
  /\ claims' = [claims EXCEPT ![j] = @ + 1]
  /\ UNCHANGED verdict

SettleByWorker(j) ==
  /\ Pending(j)
  /\ claims[j] > 0
  /\ \E v \in {"COMPLETED", "SUPERSEDED", "TERMINAL_FAILURE"} :
       verdict' = [verdict EXCEPT ![j] = [verdict |-> v, fence |-> claims[j]]]
  /\ UNCHANGED claims

SettleByController(j) ==
  /\ Pending(j)
  /\ verdict' = [verdict EXCEPT ![j] = [verdict |-> "SUPERSEDED", fence |-> 0]]
  /\ UNCHANGED claims

Next == \E j \in Jobs : ClaimJob(j) \/ SettleByWorker(j) \/ SettleByController(j)

Spec == Init /\ [][Next]_vars
=============================================================================
