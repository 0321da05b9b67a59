------------------------- MODULE ObligationEvidence -------------------------
(***************************************************************************)
(* How evidence gets from a worker into the case: the obligation schedule  *)
(* of an adopted plan (DurableObligationCoordinator), the two transactions *)
(* that land and admit a capability result (EvidenceRuntime, T1 and T2),   *)
(* and the part of the controller that asks for evidence, delivers the     *)
(* obligation jobs and moves its checkpoint on.                            *)
(*                                                                         *)
(* The business authority (mailbox epoch, accepted question, frame, plan   *)
(* and candidate) only ever moves on and is represented by its number.     *)
(* A schedule belongs to one authority; so does the job of an obligation,  *)
(* the pair of both.  The full authority snapshot that a schedule seals    *)
(* also counts the evidence, validity and satisfaction records of the      *)
(* case; all that is ever asked of it is whether the case still has that   *)
(* snapshot, which is what "sealed" keeps.                                 *)
(*                                                                         *)
(* Job leases are kept as the name of the holder (see JobLease), a         *)
(* checkpoint as its phase and pending job; whether a delivery still works *)
(* on the newest checkpoint is kept with the delivery ("fresh").  FAILED   *)
(* and TYPED_BOUNDARY, the two ways to end without having been executed,   *)
(* are one terminal status, "CLOSED".                                      *)
(***************************************************************************)
EXTENDS Naturals, FiniteSets

CONSTANTS
  Workers,       \* delivery workers
  Obligations,   \* obligations of the adopted plan
  Executable,    \* those with a query binding; the others are boundaries
  Reported,      \* executable ones whose worker reports a bare completion
  DependsOn,     \* obligation |-> the obligations its task waits for
  MaxRevisions,  \* bound: changes of the business authority
  MaxFaults      \* bound: crashes, lost leases, withdrawn evidence

ASSUME WorkersAssumption == {"nobody", "dead"} \cap Workers = {}
ASSUME ExecutableAssumption ==
  Executable \subseteq Obligations /\ Reported \subseteq Executable
ASSUME DependsOnAssumption == DependsOn \in [Obligations -> SUBSET Obligations]
ASSUME MaxRevisionsAssumption == MaxRevisions \in Nat
ASSUME MaxFaultsAssumption == MaxFaults \in Nat

VARIABLES
  authority,     \* the business authority now
  resolved,      \* per authority, the one its obligations were resolved under
  adopted,       \* per authority, the one its plan was adopted under
  unread,        \* messages of the mailbox that are not bound yet
  phase,         \* the checkpoint of the controller ...
  pending,       \* ... and the obligation job it waits for
  schedules,     \* authorities that have a schedule
  sealed,        \* schedules whose sealed snapshot is still that of the case
  dispatched,    \* jobs with a dispatch record and an outbox message
  completion,    \* per job, the completion of the obligation
  disposition,   \* per job, the terminal disposition of the outbox message
  receipt,       \* per job, the landed result (T1)
  validity,      \* per job, the validity of the admitted evidence (T2)
  satisfaction,  \* per resolution and obligation, the satisfaction head
  holder,        \* per job, who holds the delivery lease
  worker,        \* the delivery each worker is running
  faults         \* faults that happened

caseVars == <<authority, resolved, adopted, unread>>
checkpointVars == <<phase, pending>>
scheduleVars == <<schedules, dispatched, completion>>
evidenceVars == <<receipt, validity, satisfaction>>

vars == <<authority, resolved, adopted, unread, phase, pending, schedules,
          sealed, dispatched, completion, disposition, receipt, validity,
          satisfaction, holder, worker, faults>>
-----------------------------------------------------------------------------
Revisions == 0 .. MaxRevisions

Jobs == Revisions \X Obligations

NoJob == <<>>

ObligationTerminalStatus == {"none", "SUCCEEDED", "CLOSED", "SUPERSEDED"}

\* FENCED is a superseded disposition without a result, as the controller
\* writes it when it reconciles the mailbox; SUPERSEDED is the one of the
\* schedule, with the hash of a receipt or of the completion.
JobDisposition ==
  {"none", "COMPLETED", "SUPERSEDED", "FENCED", "TERMINAL_FAILURE"}

EvidenceValidityStatus ==
  {"none", "ADMITTED_VALID", "NEVER_ADMITTED", "WITHDRAWN"}

ObligationSatisfactionStatus == {"OPEN", "SATISFIED", "BLOCKED"}

Phases == {"READY_FOR_AGENT", "WAITING_FOR_EFFECT",
           "WAITING_FOR_EVIDENCE_ADMISSION", "WAITING_FOR_MESSAGE_BINDING",
           "STOPPED"}

Steps == {"idle", "executing", "landed", "late", "recovering", "admitting",
          "admitted"}

Deliveries == [at : Steps, job : Jobs \cup {NoJob}, fresh : BOOLEAN]

Idle == [at |-> "idle", job |-> NoJob, fresh |-> FALSE]

TypeOK ==
  /\ authority \in Revisions
  /\ resolved \in [Revisions -> Revisions]
  /\ adopted \in [Revisions -> Revisions]
  /\ unread \in Revisions
  /\ phase \in Phases
  /\ pending \in Jobs \cup {NoJob}
  /\ schedules \subseteq Revisions
  /\ sealed \subseteq schedules
  /\ dispatched \subseteq Jobs
  /\ completion \in [Jobs -> ObligationTerminalStatus]
  /\ disposition \in [Jobs -> JobDisposition]
  /\ receipt \in [Jobs -> {"none", "fit", "unfit"}]
  /\ validity \in [Jobs -> EvidenceValidityStatus]
  /\ satisfaction \in [Jobs -> ObligationSatisfactionStatus]
  /\ holder \in [Jobs -> Workers \cup {"nobody", "dead"}]
  /\ worker \in [Workers -> Deliveries]
  /\ faults \in 0 .. MaxFaults

Init ==
  /\ authority = 0
  /\ resolved = [a \in Revisions |-> 0]
  /\ adopted = [a \in Revisions |-> 0]
  /\ unread = 0
  /\ phase = "READY_FOR_AGENT"
  /\ pending = NoJob
  /\ schedules = {}
  /\ sealed = {}
  /\ dispatched = {}
  /\ completion = [j \in Jobs |-> "none"]
  /\ disposition = [j \in Jobs |-> "none"]
  /\ receipt = [j \in Jobs |-> "none"]
  /\ validity = [j \in Jobs |-> "none"]
  /\ satisfaction = [s \in Jobs |-> "OPEN"]
  /\ holder = [j \in Jobs |-> "nobody"]
  /\ worker = [w \in Workers |-> Idle]
  /\ faults = 0

Fault == faults < MaxFaults /\ faults' = faults + 1
-----------------------------------------------------------------------------
(***************************************************************************)
(* The obligation schedule.                                                *)
(***************************************************************************)

\* same_obligation_business_authority fails: the authority moved on.
Drifted(a) == a # authority

\* propagate_dependency_terminals: the least set of obligations that holds
\* the open ones that cannot be executed and every open one that waits for
\* an obligation that was closed.
CannotExecute(a, done) ==
  {o \in Obligations : done[<<a, o>>] = "none" /\ o \notin Executable}

Propagates(a, done, closed) ==
  /\ CannotExecute(a, done) \subseteq closed
  /\ \A p \in Obligations :
       /\ done[<<a, p>>] = "none"
       /\ \E q \in DependsOn[p] : q \in closed \/ done[<<a, q>>] = "CLOSED"
       => p \in closed

Propagated(a, done) ==
  {o \in Obligations :
     \A closed \in SUBSET Obligations :
       Propagates(a, done, closed) => o \in closed}

\* resume: close what cannot be executed any more ...
Closing(a, done) ==
  [j \in Jobs |-> IF j[1] = a /\ j[2] \in Propagated(a, done)
                  THEN "CLOSED" ELSE done[j]]

\* Mutant: a prerequisite only has to be handed out before.
Runnable_HandedOut(a, done) ==
  {<<a, o>> : o \in {p \in Executable :
                       /\ done[<<a, p>>] = "none"
                       /\ \A q \in DependsOn[p] : <<a, q>> \in dispatched}}

\* ... and hand out what can be executed now (select_runnable_obligations).
Runnable(a, done) ==
  {<<a, o>> : o \in {p \in Executable :
                       /\ done[<<a, p>>] = "none"
                       /\ \A q \in DependsOn[p] : done[<<a, q>>] = "SUCCEEDED"}}

\* A dispatch is recorded only while the snapshot of the schedule is the
\* snapshot of the case; otherwise the transaction is rolled back.
Resume(a, done, seals) ==
  LET closing == Closing(a, done)
      handed == Runnable(a, closing) \ dispatched
  IN  /\ handed # {} => a \in seals
      /\ completion' = closing
      /\ dispatched' = dispatched \cup handed

\* Mutant: only what was handed out is superseded.
SupersedeSchedule_HandedOut(a) ==
  LET open == {j \in dispatched : j[1] = a /\ completion[j] = "none"}
  IN  /\ completion' = [j \in Jobs |-> IF j \in open THEN "SUPERSEDED"
                                       ELSE completion[j]]
      /\ disposition' = [j \in Jobs |->
                           IF j \in open /\ disposition[j] = "none"
                           THEN "SUPERSEDED" ELSE disposition[j]]
      /\ UNCHANGED dispatched

\* _supersede_schedule: whatever is open is superseded, and so are the jobs
\* of it that have no disposition.
SupersedeSchedule(a) ==
  /\ completion' = [j \in Jobs |-> IF j[1] = a /\ completion[j] = "none"
                                   THEN "SUPERSEDED" ELSE completion[j]]
  /\ disposition' = [j \in Jobs |->
                       IF /\ j[1] = a
                          /\ j \in dispatched
                          /\ disposition[j] = "none"
                       THEN "SUPERSEDED" ELSE disposition[j]]
  /\ UNCHANGED dispatched
-----------------------------------------------------------------------------
(***************************************************************************)
(* The controller.                                                         *)
(***************************************************************************)

\* Writing a checkpoint outdates the deliveries that read the one before.
Checkpoint(p, j) ==
  /\ phase' = p
  /\ pending' = j

Outdate(deliveries) ==
  worker' = [v \in Workers |-> [deliveries[v] EXCEPT !.fresh = FALSE]]

\* _reconcile_mailbox_locked: the pending job is superseded without a result
\* and the binding of the oldest unread message comes first.
Reconcile ==
  /\ disposition' =
       IF pending # NoJob /\ disposition[pending] = "none"
       THEN [disposition EXCEPT ![pending] = "FENCED"] ELSE disposition
  /\ Checkpoint("WAITING_FOR_MESSAGE_BINDING", NoJob)

\* ingress_message: the mailbox epoch moves on at once, the plan stays the
\* one that was adopted before.
IngressMessage ==
  /\ phase # "STOPPED"
  /\ authority < MaxRevisions
  /\ authority' = authority + 1
  /\ resolved' = [resolved EXCEPT ![authority + 1] = resolved[authority]]
  /\ adopted' = [adopted EXCEPT ![authority + 1] = adopted[authority]]
  /\ unread' = unread + 1
  /\ sealed' = {}
  /\ UNCHANGED <<phase, pending, scheduleVars, disposition, evidenceVars,
                 holder, worker, faults>>

\* advance, or a delivery that finds its work stale.
ReconcileMailbox ==
  /\ unread > 0
  /\ phase \notin {"WAITING_FOR_MESSAGE_BINDING", "STOPPED"}
  /\ Reconcile
  /\ Outdate(worker)
  /\ UNCHANGED <<caseVars, scheduleVars, sealed, evidenceVars, holder, faults>>

\* Mutant: a message is bound without asking whether it was bound before.
BindMessage_Again ==
  /\ unread' = unread - 1
  /\ Checkpoint(IF unread = 1 THEN "READY_FOR_AGENT" ELSE phase, NoJob)
  /\ Outdate(worker)
  /\ UNCHANGED <<authority, resolved, adopted, scheduleVars, sealed,
                 disposition, evidenceVars, holder, faults>>

\* The message is bound and the plan stands: the agent goes on under the new
\* authority.  (A message that revises the question is followed by RevisePlan.)
BindMessage ==
  /\ phase = "WAITING_FOR_MESSAGE_BINDING"
  /\ unread' = unread - 1
  /\ Checkpoint(IF unread = 1 THEN "READY_FOR_AGENT" ELSE phase, NoJob)
  /\ Outdate(worker)
  /\ UNCHANGED <<authority, resolved, adopted, scheduleVars, sealed,
                 disposition, evidenceVars, holder, faults>>

\* The agent acts only on the newest message.
AgentTurn == phase = "READY_FOR_AGENT" /\ unread = 0

\* An accepted plan revision: for the obligations there are, or for others of
\* a frame or a resolution that came with it.
RevisePlan(renewed) ==
  /\ AgentTurn
  /\ authority < MaxRevisions
  /\ authority' = authority + 1
  /\ resolved' = [resolved EXCEPT ![authority + 1] =
                     IF renewed THEN authority + 1 ELSE resolved[authority]]
  /\ adopted' = [adopted EXCEPT ![authority + 1] = authority + 1]
  /\ sealed' = {}
  /\ Checkpoint("READY_FOR_AGENT", NoJob)
  /\ Outdate(worker)
  /\ UNCHANGED <<unread, scheduleVars, disposition, evidenceVars, holder,
                 faults>>

\* The agent stops or closes the case.
StopCase ==
  /\ AgentTurn
  /\ Checkpoint("STOPPED", NoJob)
  /\ Outdate(worker)
  /\ UNCHANGED <<caseVars, scheduleVars, sealed, disposition, evidenceVars,
                 holder, faults>>

\* An evidence action of the agent: the schedule of the authority is created
\* or resumed, and the action must resolve to one of its dispatches.  What
\* that job came to decides how the case goes on.
CallCapability(o) ==
  LET j == <<authority, o>>
  IN  /\ AgentTurn
      /\ o \notin Reported
      /\ schedules' = schedules \cup {authority}
      /\ sealed' = IF authority \in schedules THEN sealed
                   ELSE sealed \cup {authority}
      /\ Resume(authority, completion, sealed')
      /\ j \in dispatched'
      /\ IF disposition[j] = "none" THEN Checkpoint("WAITING_FOR_EFFECT", j)
                                    ELSE Checkpoint("READY_FOR_AGENT", NoJob)
      /\ Outdate(worker)
      /\ UNCHANGED <<caseVars, disposition, evidenceVars, holder, faults>>
-----------------------------------------------------------------------------
(***************************************************************************)
(* Deliveries: deliver_pending_effect.                                     *)
(***************************************************************************)

Start(w, step) ==
  worker' = [worker EXCEPT ![w] = [at |-> step, job |-> pending, fresh |-> TRUE]]

Goto(w, step) == worker' = [worker EXCEPT ![w].at = step]

Finish(w) == worker' = [worker EXCEPT ![w] = Idle]

Free(j) == disposition[j] = "none" /\ holder[j] = "nobody"

\* Mutant: a result that does not fit is left for somebody else.
BeginAdmission_OnlyFit(w) ==
  /\ worker[w].at = "idle"
  /\ phase = "WAITING_FOR_EVIDENCE_ADMISSION"
  /\ receipt[pending] = "fit"
  /\ Start(w, "admitting")
  /\ UNCHANGED <<caseVars, checkpointVars, scheduleVars, sealed, disposition,
                 evidenceVars, holder, faults>>

\* The checkpoint waits for the admission of a landed result.
BeginAdmission(w) ==
  /\ worker[w].at = "idle"
  /\ phase = "WAITING_FOR_EVIDENCE_ADMISSION"
  /\ Start(w, "admitting")
  /\ UNCHANGED <<caseVars, checkpointVars, scheduleVars, sealed, disposition,
                 evidenceVars, holder, faults>>

\* The job is claimed, but an earlier delivery landed its result: the claim
\* is given back and the result is admitted.
RecoverReceipt(w) ==
  /\ worker[w].at = "idle"
  /\ phase = "WAITING_FOR_EFFECT"
  /\ Free(pending)
  /\ receipt[pending] # "none"
  /\ Start(w, "admitting")
  /\ UNCHANGED <<caseVars, checkpointVars, scheduleVars, sealed, disposition,
                 evidenceVars, holder, faults>>

\* The job is claimed, but the authority moved on: it is superseded and the
\* mailbox is reconciled.
SupersedeJob(w) ==
  /\ worker[w].at = "idle"
  /\ phase = "WAITING_FOR_EFFECT"
  /\ Free(pending)
  /\ receipt[pending] = "none"
  /\ Drifted(pending[1])
  /\ Reconcile
  /\ Outdate(worker)
  /\ UNCHANGED <<caseVars, scheduleVars, sealed, evidenceVars, holder, faults>>

\* The job is claimed and its capability is called, under a heartbeat.
BeginEffect(w) ==
  /\ worker[w].at = "idle"
  /\ phase = "WAITING_FOR_EFFECT"
  /\ Free(pending)
  /\ receipt[pending] = "none"
  /\ ~ Drifted(pending[1])
  /\ holder' = [holder EXCEPT ![pending] = w]
  /\ Start(w, "executing")
  /\ UNCHANGED <<caseVars, checkpointVars, scheduleVars, sealed, disposition,
                 evidenceVars, faults>>

\* Mutant: the checkpoint waits for the admission whatever happened to it.
LandResult_AnyCheckpoint(w, result) ==
  LET j == worker[w].job
  IN  /\ worker[w].at = "executing"
      /\ holder[j] = w
      /\ receipt' = [receipt EXCEPT ![j] = result]
      /\ sealed' = {}
      /\ Checkpoint("WAITING_FOR_EVIDENCE_ADMISSION", j)
      /\ Outdate([worker EXCEPT ![w].at = "landed"])
      /\ UNCHANGED <<caseVars, scheduleVars, disposition, validity,
                     satisfaction, holder, faults>>

\* T1: the result is landed under the lease of the delivery, whatever became
\* of the authority.  Only if nothing else happened to the case does the
\* checkpoint wait for its admission.
LandResult(w, result) ==
  LET j == worker[w].job
      undisturbed == worker[w].fresh /\ ~ Drifted(j[1])
  IN  /\ worker[w].at = "executing"
      /\ holder[j] = w
      /\ receipt' = [receipt EXCEPT ![j] = result]
      /\ sealed' = {}
      /\ IF undisturbed
         THEN /\ Checkpoint("WAITING_FOR_EVIDENCE_ADMISSION", pending)
              /\ Outdate([worker EXCEPT ![w].at = "landed"])
         ELSE /\ UNCHANGED checkpointVars
              /\ Goto(w, IF phase = "WAITING_FOR_EVIDENCE_ADMISSION"
                         THEN "landed" ELSE "late")
      /\ UNCHANGED <<caseVars, scheduleVars, disposition, validity,
                     satisfaction, holder, faults>>

\* The effect failed on the newest checkpoint: a stale job is superseded, a
\* transient failure leaves the job to be delivered again, a permanent one
\* gives the turn back to the agent.
EffectFailed(w, permanent) ==
  LET j == worker[w].job
  IN  /\ worker[w].at = "executing"
      /\ holder[j] = w
      /\ worker[w].fresh
      /\ \/ Drifted(j[1]) /\ Reconcile
         \/ /\ ~ Drifted(j[1])
            /\ ~ permanent
            /\ Checkpoint(phase, pending)
            /\ UNCHANGED disposition
         \/ /\ ~ Drifted(j[1])
            /\ permanent
            /\ Checkpoint("READY_FOR_AGENT", NoJob)
            /\ disposition' = [disposition EXCEPT ![j] = "TERMINAL_FAILURE"]
      /\ Outdate([worker EXCEPT ![w] = Idle])
      /\ holder' = [holder EXCEPT ![j] = "nobody"]
      /\ UNCHANGED <<caseVars, scheduleVars, sealed, evidenceVars, faults>>

\* A delivery whose lease or checkpoint is gone raises and gives back what
\* it still holds.
GiveUp(w) ==
  LET j == worker[w].job
  IN  /\ worker[w].at = "executing"
      /\ holder[j] # w \/ ~ worker[w].fresh
      /\ holder' = IF holder[j] = w THEN [holder EXCEPT ![j] = "nobody"]
                                    ELSE holder
      /\ Finish(w)
      /\ UNCHANGED <<caseVars, checkpointVars, scheduleVars, sealed,
                     disposition, evidenceVars, faults>>

\* After T1 the delivery gives its lease back.  It goes on to T2 itself when
\* the checkpoint does not wait for it and nobody disposed of the job.
ReleaseLanded(w) ==
  LET j == worker[w].job
  IN  /\ worker[w].at \in {"landed", "late"}
      /\ holder' = IF holder[j] = w THEN [holder EXCEPT ![j] = "nobody"]
                                    ELSE holder
      /\ IF worker[w].at = "late" /\ disposition[j] = "none"
         THEN Goto(w, "recovering")
         ELSE Finish(w)
      /\ UNCHANGED <<caseVars, checkpointVars, scheduleVars, sealed,
                     disposition, evidenceVars, faults>>
-----------------------------------------------------------------------------
(***************************************************************************)
(* T2: admit_result, one transaction over the evidence and the schedule.   *)
(***************************************************************************)

\* Mutant: the authority of the job is compared, that of its plan is not.
Admits_AnyPlan(j) == receipt[j] = "fit" /\ ~ Drifted(j[1])

\* build_evidence_admission: the evidence has to fit, and its authority and
\* the one its plan was adopted under have both to be that of the case.
Admits(j) ==
  /\ receipt[j] = "fit"
  /\ ~ Drifted(j[1])
  /\ adopted[j[1]] = authority

\* build_obligation_satisfaction over everything admitted for an obligation.
Evidence(r, o, valid) ==
  {valid[j] : j \in {k \in Jobs : resolved[k[1]] = r /\ k[2] = o
                                    /\ valid[k] # "none"}}

Satisfaction(r, o, valid) ==
  IF "ADMITTED_VALID" \in Evidence(r, o, valid) THEN "SATISFIED"
  ELSE IF Evidence(r, o, valid) # {} THEN "BLOCKED" ELSE "OPEN"

\* Mutant: the head is what the last evidence says.
Revalue_LastOnly(j, valid) ==
  /\ validity' = valid
  /\ satisfaction' =
       [satisfaction EXCEPT ![<<resolved[j[1]], j[2]>>] =
          IF valid[j] = "ADMITTED_VALID" THEN "SATISFIED" ELSE "BLOCKED"]
  /\ sealed' = {}

Revalue(j, valid) ==
  LET s == <<resolved[j[1]], j[2]>>
  IN  /\ validity' = valid
      /\ satisfaction' =
           [satisfaction EXCEPT ![s] = Satisfaction(s[1], s[2], valid)]
      /\ sealed' = {}

\* admit_landed_result; an admission that is recorded already is returned.
AdmitLandedResult(j) ==
  IF validity[j] # "none" THEN UNCHANGED <<validity, satisfaction, sealed>>
  ELSE Revalue(j, [validity EXCEPT
                     ![j] = IF Admits(j) THEN "ADMITTED_VALID"
                                         ELSE "NEVER_ADMITTED"])

\* Mutant: T2 keeps the evidence though the job is not its to settle.
AdmitCompletion_IfFree(j, status) ==
  \/ /\ completion[j] # "none" \/ ~ Free(j)
     /\ UNCHANGED <<completion, dispatched, disposition>>
  \/ /\ completion[j] = "none"
     /\ Free(j)
     /\ \/ Drifted(j[1]) /\ SupersedeSchedule(j[1])
        \/ /\ ~ Drifted(j[1])
           /\ disposition' = [disposition EXCEPT ![j] = "COMPLETED"]
           /\ Resume(j[1], [completion EXCEPT ![j] = status], sealed')

\* Mutant: a completion that is recorded already is refused.
AdmitCompletion_Once(j, status) ==
  /\ completion[j] = "none"
  /\ Free(j)
  /\ \/ Drifted(j[1]) /\ SupersedeSchedule(j[1])
     \/ /\ ~ Drifted(j[1])
        /\ disposition' = [disposition EXCEPT ![j] = "COMPLETED"]
        /\ Resume(j[1], [completion EXCEPT ![j] = status], sealed')

\* admit_completion: the same completion again is returned, a superseded one
\* when the schedule superseded the job; a stale schedule is superseded as a
\* whole; else the obligation is settled, its job is completed and the
\* schedule resumed.
AdmitCompletion(j, status) ==
  \/ /\ \/ completion[j] = status
        \/ completion[j] = "SUPERSEDED" /\ disposition[j] = "SUPERSEDED"
     /\ UNCHANGED <<completion, dispatched, disposition>>
  \/ /\ completion[j] = "none"
     /\ Free(j)
     /\ \/ Drifted(j[1]) /\ SupersedeSchedule(j[1])
        \/ /\ ~ Drifted(j[1])
           /\ disposition' = [disposition EXCEPT ![j] = "COMPLETED"]
           /\ Resume(j[1], [completion EXCEPT ![j] = status], sealed')

\* A worker that lands no evidence reports to the coordinator itself.
ReportCompletion(j, status) ==
  /\ phase # "STOPPED"
  /\ j \in dispatched
  /\ j[2] \in Reported
  /\ UNCHANGED sealed
  /\ AdmitCompletion(j, status)
  /\ UNCHANGED <<caseVars, checkpointVars, schedules, evidenceVars, holder,
                 worker, faults>>

AdmitResult(j) ==
  /\ phase # "STOPPED"
  /\ AdmitLandedResult(j)
  /\ AdmitCompletion(j, "SUCCEEDED")
  /\ UNCHANGED <<caseVars, checkpointVars, schedules, receipt, holder, faults>>

\* T2 commits; the delivery that admits for the checkpoint has that to move.
Admit(w) ==
  /\ worker[w].at \in {"recovering", "admitting"}
  /\ AdmitResult(worker[w].job)
  /\ IF worker[w].at = "admitting" THEN Goto(w, "admitted") ELSE Finish(w)

\* T2 cannot commit as things are (another delivery holds the job, it is
\* disposed of, or the dispatch of a dependent is refused): it is rolled back
\* and the delivery raises.
Dispatchable(j) ==
  Runnable(j[1], Closing(j[1], [completion EXCEPT ![j] = "SUCCEEDED"]))
    \ dispatched = {}

AdmitRefused(w) ==
  LET j == worker[w].job
  IN  /\ worker[w].at \in {"recovering", "admitting"}
      /\ \/ phase = "STOPPED"
         \/ completion[j] = "SUPERSEDED" /\ disposition[j] # "SUPERSEDED"
         \/ completion[j] = "none" /\ ~ Free(j)
         \/ completion[j] = "none" /\ ~ Drifted(j[1]) /\ ~ Dispatchable(j)
      /\ Finish(w)
      /\ UNCHANGED <<caseVars, checkpointVars, scheduleVars, sealed,
                     disposition, evidenceVars, holder, faults>>

\* The second transaction of _admit_pending_evidence.
CommitAdmission(w) ==
  /\ worker[w].at = "admitted"
  /\ IF worker[w].fresh
     THEN /\ Checkpoint("READY_FOR_AGENT", NoJob)
          /\ Outdate([worker EXCEPT ![w] = Idle])
     ELSE /\ UNCHANGED checkpointVars
          /\ Finish(w)
  /\ UNCHANGED <<caseVars, scheduleVars, sealed, disposition, evidenceVars,
                 holder, faults>>
-----------------------------------------------------------------------------
\* transition_evidence_validity: valid evidence is superseded or revoked.
WithdrawEvidence(j) ==
  /\ validity[j] = "ADMITTED_VALID"
  /\ Fault
  /\ Revalue(j, [validity EXCEPT ![j] = "WITHDRAWN"])
  /\ UNCHANGED <<caseVars, checkpointVars, scheduleVars, disposition, receipt,
                 holder, worker>>

\* A worker dies; its lease is held until it expires.
Crash(w) ==
  LET j == worker[w].job
  IN  /\ worker[w].at # "idle"
      /\ Fault
      /\ holder' = IF holder[j] = w THEN [holder EXCEPT ![j] = "dead"]
                                    ELSE holder
      /\ Finish(w)
      /\ UNCHANGED <<caseVars, checkpointVars, scheduleVars, sealed,
                     disposition, evidenceVars>>

\* The heartbeat of a delivery does not get through until its lease expired.
LoseLease(w) ==
  LET j == worker[w].job
  IN  /\ worker[w].at = "executing"
      /\ holder[j] = w
      /\ Fault
      /\ holder' = [holder EXCEPT ![j] = "nobody"]
      /\ UNCHANGED <<caseVars, checkpointVars, scheduleVars, sealed,
                     disposition, evidenceVars, worker>>

DeadLeaseExpires(j) ==
  /\ holder[j] = "dead"
  /\ holder' = [holder EXCEPT ![j] = "nobody"]
  /\ UNCHANGED <<caseVars, checkpointVars, scheduleVars, sealed, disposition,
                 evidenceVars, worker, faults>>
-----------------------------------------------------------------------------
DeliveryStep(w) ==
  \/ BeginAdmission(w)
  \/ RecoverReceipt(w)
  \/ SupersedeJob(w)
  \/ BeginEffect(w)
  \/ \E result \in {"fit", "unfit"} : LandResult(w, result)
  \/ \E permanent \in BOOLEAN : EffectFailed(w, permanent)
  \/ GiveUp(w)
  \/ ReleaseLanded(w)
  \/ Admit(w)
  \/ AdmitRefused(w)
  \/ CommitAdmission(w)

Next ==
  \/ IngressMessage
  \/ ReconcileMailbox
  \/ BindMessage
  \/ \E renewed \in BOOLEAN : RevisePlan(renewed)
  \/ StopCase
  \/ \E o \in Obligations : CallCapability(o)
  \/ \E w \in Workers : DeliveryStep(w) \/ Crash(w) \/ LoseLease(w)
  \/ \E j \in Jobs :
       \/ \E status \in {"SUCCEEDED", "CLOSED"} : ReportCompletion(j, status)
       \/ WithdrawEvidence(j)
       \/ DeadLeaseExpires(j)

\* Workers deliver, the controller is advanced, messages get bound and the
\* leases of dead workers expire.  Nothing is asked of users and agents.
Fairness ==
  /\ WF_vars(ReconcileMailbox)
  /\ WF_vars(BindMessage)
  /\ \A w \in Workers : WF_vars(DeliveryStep(w))
  /\ \A j \in Jobs : WF_vars(DeadLeaseExpires(j))

Spec == Init /\ [][Next]_vars /\ Fairness
-----------------------------------------------------------------------------
\* A capability result is admitted, and the job, its obligation and the
\* evidence are settled together or not at all, however often and by
\* whomever T2 is tried: T2 leaves no half behind.
SettledTogether ==
  \A j \in Jobs : j[2] \notin Reported =>
    /\ disposition[j] = "COMPLETED" <=> completion[j] = "SUCCEEDED"
    /\ completion[j] = "SUCCEEDED" => validity[j] # "none"
    /\ validity[j] # "none" => /\ receipt[j] # "none"
                              /\ completion[j] \in {"SUCCEEDED", "SUPERSEDED"}

\* The two staleness checks of T2 do not agree: the schedule asks only for
\* the authority of the job (same_obligation_business_authority), the evidence
\* for that of its plan too (_authority_matches).  So evidence is usable
\* exactly if its obligation succeeded, it fits, and no message came between
\* the adoption of the plan and the schedule: after a message that leaves the
\* plan as it is, an obligation succeeds and its evidence is rejected.
UsableEvidenceIsOfItsPlan ==
  \A j \in Jobs :
    validity[j] \in {"ADMITTED_VALID", "WITHDRAWN"} <=>
      /\ completion[j] = "SUCCEEDED"
      /\ receipt[j] = "fit"
      /\ adopted[j[1]] = j[1]

\* The satisfaction head of an obligation is what its evidence of all
\* authorities adds up to now, after admissions and withdrawals in any order.
SatisfactionMatchesEvidence ==
  \A r \in Revisions, o \in Obligations :
    satisfaction[<<r, o>>] = Satisfaction(r, o, validity)

\* A stale schedule is superseded as a whole: nothing of it stays open behind
\* a superseded obligation, and no job of it can be delivered again.
SupersededAsAWhole ==
  \A a \in Revisions :
    (\E o \in Obligations : completion[<<a, o>>] = "SUPERSEDED") =>
      \A o \in Obligations :
        /\ completion[<<a, o>>] # "none"
        /\ <<a, o>> \in dispatched => disposition[<<a, o>>] # "none"

\* The case waits for work that can still be done: what the checkpoint waits
\* for was handed out, is stale only while there is a message to bind, and
\* until then is open, or admitted and about to be let go.
WaitsForLiveWork ==
  phase \in {"WAITING_FOR_EFFECT", "WAITING_FOR_EVIDENCE_ADMISSION"} =>
    /\ pending \in dispatched
    /\ Drifted(pending[1]) <=> unread > 0
    /\ \/ Drifted(pending[1])
       \/ disposition[pending] = "none"
       \/ validity[pending] # "none"
    /\ phase = "WAITING_FOR_EVIDENCE_ADMISSION" => receipt[pending] # "none"

\* The schedule implements the ledger of obligations.
standing ==
  [j \in Jobs |-> IF completion[j] # "none" THEN completion[j]
                  ELSE IF j \in dispatched THEN "dispatched" ELSE "waiting"]

Ledger == INSTANCE ObligationLedger

ImplementsLedger == Ledger!Spec

\* An obligation that waits for the evidence of another one is never handed
\* out, and not all it waits for ever succeeds: landing evidence changes the
\* snapshot its schedule was sealed with, so the dispatch that T2 would record
\* is refused and T2 with it (admit_landed_result, resume).
DependentsAreStranded ==
  \A a \in Revisions, p \in Executable :
    ~(DependsOn[p] \subseteq Reported) =>
      /\ <<a, p>> \notin dispatched
      /\ \E q \in DependsOn[p] : completion[<<a, q>>] # "SUCCEEDED"

\* Every landed result is disposed of: its evidence is admitted or rejected,
\* or its job is, unless the case is stopped before.
LandedResultIsDisposed ==
  \A j \in Jobs :
    receipt[j] # "none" ~> \/ validity[j] # "none"
                           \/ disposition[j] # "none"
                           \/ phase = "STOPPED"

\* The wait for an admission ends.
AdmissionWaitEnds ==
  phase = "WAITING_FOR_EVIDENCE_ADMISSION"
    ~> phase # "WAITING_FOR_EVIDENCE_ADMISSION"
=============================================================================
