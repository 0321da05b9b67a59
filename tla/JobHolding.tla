---------------------------- MODULE JobHolding ----------------------------
(***************************************************************************)
(* What a delivery may rely on, whatever rows, clocks, tokens and threads  *)
(* the lease of a job is made of: a job is blocked by at most one lease,   *)
(* the lease belongs to at most one delivery, which may lose it at any     *)
(* time and never gets it back, and only the delivery that still has it    *)
(* settles the job.  A lease outlives its delivery (the process died) until *)
(* it expires.                                                             *)
(*                                                                         *)
(* JobLease keeps this promise with rows, fencing tokens and heartbeats;   *)
(* ModelJob, which knows a lease by the name of its holder, assumes no     *)
(* more than that.                                                         *)
(***************************************************************************)
CONSTANTS Jobs, Workers

VARIABLES leased,  \* whether a live lease blocks the job
          holder,  \* the worker whose delivery has it: one, or none
          verdict  \* the terminal disposition, per job

vars == <<leased, holder, verdict>>

Pending(j) == verdict[j] = "none"

Init ==
  /\ leased = [j \in Jobs |-> FALSE]
  /\ holder = [j \in Jobs |-> {}]
  /\ verdict = [j \in Jobs |-> "none"]

Take(w, j) ==
  /\ Pending(j)
  /\ ~leased[j]
  /\ leased' = [leased EXCEPT ![j] = TRUE]
  /\ holder' = [holder EXCEPT ![j] = {w}]
  /\ UNCHANGED verdict

\* Releases, expiries and the deaths of processes, of any jobs at once.
Lose ==
  /\ \A j \in Jobs :
       /\ leased'[j] => leased[j]
       /\ holder'[j] \subseteq holder[j]
       /\ ~leased'[j] => holder'[j] = {}
  /\ leased' \in [Jobs -> BOOLEAN]
  /\ holder' \in [Jobs -> SUBSET Workers]
  /\ UNCHANGED verdict

SettleByHolder(w, j) ==
  /\ Pending(j)
  /\ w \in holder[j]
  /\ \E v \in {"COMPLETED", "SUPERSEDED", "TERMINAL_FAILURE"} :
       verdict' = [verdict EXCEPT ![j] = v]
  /\ UNCHANGED <<leased, holder>>

SettleByController(j) ==
  /\ Pending(j)
  /\ verdict' = [verdict EXCEPT ![j] = "SUPERSEDED"]
  /\ UNCHANGED <<leased, holder>>

Next ==
  \/ \E j \in Jobs :
       \/ \E w \in Workers : Take(w, j) \/ SettleByHolder(w, j)
       \/ SettleByController(j)
  \/ Lose

Spec == Init /\ [][Next]_vars
=============================================================================
