# WAJE BI: TLA+ models, model checks and proofs

This directory is a verification development for the two generations of the
product that share this repository. Most of it is about the `vnext` analysis
core (`src/vnext/services/analysis_core/src/waje_vnext`): the controller that
runs an investigation case, the durable outbox its workers deliver jobs from,
the records it keeps of model calls, the obligations of a plan with the evidence
that settles them, and the review of measurement frames. The last module is
about the first generation (`src/bi_agent`, `src/app`, `src/tools/runtime`): the
dispatch of its analysis runs.

The gate-3 adversarial review of the repository
(`docs/reviews/2026-07-30-bi-agent-vnext-durable-async-gate3-adversarial-review.md`,
item DA-E3) asks for a model-based state machine of exactly the durable parts,
because their hazards are interleavings that tests have to be lucky to meet.
Paths below are relative to `waje_vnext/` unless they begin with `src/`,
`docs/` or `bi_agent/` (`src/bi_agent/`).

## 1. Inventory

### The parts, their state and their operations

| part | code | state | operations |
|---|---|---|---|
| outbox and delivery leases | `storage/in_memory.py` (`acquire_job_lease` .. `record_job_disposition`), `controller/supervision.py` | outbox messages, lease rows, fencing tokens, terminal dispositions; in each worker a heartbeat thread with its copy of the lease | claim, heartbeat, assert, commit a disposition, release |
| durable model jobs | `controller/runtime.py` (`deliver_pending_*`, attempt observer, `_persist_*`, `_provider_failure_attempt_records`), `providers/chat_completions.py` | logical model job, attempt requests, attempt receipts, durable result | call with retries, record request / receipt / result, commit answer, commit failure |
| case controller and mailbox | `controller/runtime.py`, `storage/in_memory.py`, `domain/controller.py`, `domain/admission.py` | mailbox, checkpoints, the case row (accepted question, frame, plan, lifecycle), frame candidates and reviews, journal, outbox | start, ingress a message, submit a user decision, advance, dispatch, deliver a binding / a proposal / a review / an effect, supersede, stop |
| obligation scheduler | `controller/obligation_runtime.py`, `domain/obligation_scheduler.py` | schedule, dispatches, completions, schedule checkpoints | create, resume, admit a completion, propagate a failed prerequisite, supersede |
| evidence landing and admission | `controller/evidence_runtime.py`, `domain/evidence.py`, `storage/in_memory.py` | capability receipts (T1), admissions, validity, satisfaction heads (T2) | land, admit, recover, withdraw |
| frame review | `controller/runtime.py` (`_commit_frame_review`), `domain/admission.py`, `storage/in_memory.py` | candidates, reviews, objections, closures | propose, review, close, supersede |
| planning, measurement algebra | `domain/planning.py`, `domain/measurement*.py` | none | pure compilation and resolution |
| answers and settlement | `domain/answering.py`, `storage/answer_admission.py`, `storage/settlement_validation.py` | provisional answers, claims | precheck, settle |
| read model | `domain/workflow.py`, `domain/workflow_adapter.py` | projection with a cursor | project, rebuild |
| postgres, codecs, trace manifests | `storage/postgres.py`, `storage/codec.py`, `storage/trace_validation.py` | the same records in tables | the same contract behind row locks |
| first generation: conversation store | `bi_agent/conversation/postgres_store.py`, `bi_agent/conversation/agent_core.py` | run rows, run dispatches with leases, the lifecycle of a run, decisions | claim, heartbeat, finish, ask, revise, settle, seal, publish, fail, sweep |
| first generation: gateway and recovery tool | `src/app/api`, `src/tools/runtime` | child processes | request a clarification, lease, start, observe an exit; poll and sweep |
| first generation: everything else | `bi_agent/runtime`, `bi_agent/capabilities`, ... | durable call journal, sealed authority, compilers | superseded by vnext |
| web application, tools, evaluations, contracts | `src/app`, `src/tools`, ... | | forwarding, rendering, offline work |

Every part, modelled or not, is a component of `PROJECT.json`, with the reason
when it is left out.

### How they interact

*Core.* Users write messages into the mailbox of a case (`ingress_message`,
`submit_user_decision`); the transaction that appends a message also enqueues
its message-binding job and advances the authority epoch. The controller's
checkpoint names the one job the case waits for. A worker (`deliver_pending_*`)
reads the checkpoint, claims the job's lease, works outside of any transaction
(a model call with retries under a heartbeat thread, an inspection or a probe),
and commits in one transaction: the lease is asserted, the checkpoint has to be
the one it read, the authority is compared with the one the job was enqueued
under, the job gets its terminal disposition, and the next checkpoint (and job)
is written. A job whose authority is gone is superseded in favour of the first
unbound message (`_reconcile_mailbox_locked`).

*Evidence.* An adopted plan has obligations. When the agent calls a capability,
the schedule of the present authority is created or resumed, what can be
executed is dispatched through the outbox, and the checkpoint waits for one of
the jobs. Its result is landed in one transaction (T1) and admitted in another
(T2), which writes the evidence, its validity, the satisfaction of the
obligation, the completion, the disposition of the job and the checkpoint, and
dispatches what has become possible. Whoever finds a landed result does T2.

*Frames.* A plan needs an accepted measurement frame. The agent proposes a
candidate, a reviewer accepts it or objects, and a replacement has to close the
objections by changing the measurement nodes they name.

*First generation.* A run has a dispatch row. The gateway leases it and starts a
process, or a recovery worker leases it and works itself; the process claims it,
renews it from a heartbeat thread, and ends run and dispatch in one transaction.
A run that needs the user waits, and the answer inserts the next dispatch.
Stages of the lifecycle (decision, settlement, seal, publication) are recorded
in between, without the fence of the dispatch. Sweeps release or fail what its
owner lost.

### What is hard

* *Takeover.* A lease expires under a live worker; the zombie comes back.
* *Two threads per delivery.* The heartbeat renews, or fails, or loses the
  answer of a renewal it made, while the model is being called.
* *Crashes between durable steps*: request, receipt, result, commit; T1, T2;
  seal, publication, end of the run.
* *Retries over a history* that an earlier delivery left half written.
* *Corrections at any time*, in particular while something is on its way, and
  several of them before the first is bound.
* *Two-transaction operations*: a user decision is a message first and a
  checkpoint later; an answer to a clarification is a decision first and a
  stage of the lifecycle later.
* *Two staleness checks of one transaction*, the one of the evidence and the one
  of the schedule, which do not agree: the first also compares the authority the
  plan was adopted under, and after a message that leaves the plan as it is an
  obligation succeeds whose evidence is rejected.
* *Memory that outlives a delivery*: the provider keeps the traces of a call in a
  buffer of the thread, where the next delivery finds what the last one left.
* *Checks that come late*: what a frame is grounded on is looked up only when it
  is accepted, after its review has become durable.
* *Two rows with one meaning*: run and dispatch, written by the gateway, the
  processes and the sweeps.

What each part has to guarantee is the list of properties in section 3; what is
exposed to each hazard, line by line, is the `hazards` list of `PROJECT.json`.

## 2. Modules

```
OutboxDelivery            what the outbox promises about one job
  ^ implemented by
JobLease                  leases, fencing tokens, heartbeats      MCJobLease
  ^ EXTENDS
JobLease_proofs

JobHolding                what a delivery may rely on in a lease
  ^ implemented by JobLease, and by
ModelJob                  attempts, receipts, durable result      MCModelJob
  ^ ModelJob_proofs

CaseController            mailbox, checkpoint, authority, jobs    MCCaseController
  ^ CaseController_proofs

ObligationLedger          what the obligation runtime promises
  ^ implemented by
ObligationEvidence        schedules, T1 and T2, satisfaction      MCObligationEvidence
  ^ ObligationEvidence_proofs

FrameReview               candidates, objections, closures        MCFrameReview
  ^ FrameReview_proofs

RunDispatch               runs, dispatches, gateway, recovery     MCRunDispatch
  ^ RunDispatch_proofs    invariants
  ^ RunDispatchSteps_proofs   what steps can never do
```

JobLease, ModelJob and CaseController look at one system at three scales. Each
keeps what the one below shows, and not how: ModelJob and CaseController name
the holder of a lease (JobLease shows that a holder is fenced, and JobHolding
says what a holder may rely on: both modules are proved to implement it); CaseController
has a durable answer or none (ModelJob shows that there is one at most, and that
it is reused). ObligationEvidence and FrameReview take up two branches that
CaseController keeps coarse: the capability jobs, and what a candidate and its
review say. RunDispatch stands alone: the two generations share no state.

### JobLease

| TLA+ | code |
|---|---|
| `lease`, `token`, `disposition` | `_job_leases`, `_job_lease_tokens`, `_job_dispositions` |
| `worker[w]` | one run of a `deliver_*` handler: where it is, its copy of the lease, whether its heartbeat failed |
| `Claim`, `Heartbeat`, `Release` | `acquire_job_lease`, `heartbeat_job_lease`, `release_job_lease` |
| `HeartbeatAnswerLost`, `HeartbeatFailed` | `JobHeartbeatSupervisor._run`, whose `except` keeps the failure |
| `StopHeartbeat` | `stop_and_get` |
| `CommitDisposition` / `CommitWithoutVerdict` | a commit that asserts the lease and records a disposition / a retryable effect attempt, which records none |
| `Supersede` | `_reconcile_mailbox_locked`, which disposes a job without a lease |
| `Tick`, `Crash` | the storage clock, the end of a process |

A lease is kept with the ticks it has left rather than with an absolute expiry,
so that the clock needs no bound; the whole-record comparison of the code is
kept by owner, fence and one bit of the heartbeat time, for a heartbeat thread
that misses an answer never renews again.

### ModelJob

`requested`, `receipt`, `result` and `disposition` are the durable records of
one logical job; `worker[w]` walks through a delivery: `BeforeAttempt` (request
recorded), the answers of the provider (`AnswerSucceeds`, `AnswerIsTransient`,
`AnswerDoesNotDecode`, `RequestIsRejected`), the receipt, `StoreResult`,
`Commit`, or the failure path. The retry loop of `chat_completions.py` and the
store's idempotency rules (`record_provider_attempt_receipt` accepts an
identical record and refuses a different one) are all there. A receipt carries
the times of its own call, so receipts of two calls are never identical: it is
represented by its author and its disposition, and an author that is over
becomes `"past"`.

A worker is a thread, and `traces[w]` is its provider's buffer
(`take_last_attempt_trace`): traces of a call of this job, of another one, or
none. Only finished attempts write it and only a commit of a failure (or the
return of a call) empties it. A delivery that leaves through `LeaseFenceLost`
keeps it (`LeaveTraces`), and a later delivery of the thread whose request is
rejected, which has no trace of its own, commits its failure with what it finds
(`CommitFailure`, `RecordTraces`): identical receipts if they are of this job,
a history that is not its own, or a conflict, if they are of another one
(`DeliverAnother`). A process that ends takes the buffer with it.

### CaseController

| TLA+ | code |
|---|---|
| `head`, `checkpoint.cursor` | last mailbox sequence, `mailbox_cursor` |
| `case` | the case row and the active frame candidate with its review; a revision is named by the question it belongs to |
| `checkpoint` | `ControllerState`: phase, the pending job, cursor |
| `outbox`, `stale`, `answer`, `lease` | per job: disposition; whether `_job_is_stale`; the durable model result; the holder of the lease |
| `decision` | a `submit_user_decision` between its two transactions |
| `worker[w].view` | whether the checkpoint the delivery loaded is still the latest (`_require_same_checkpoint`) |
| `IngressMessage`, `SubmitUserDecision`, `RecordUserDecision` | `ingress_message` and the two halves of `submit_user_decision` |
| `AdvanceMailbox`, `EnqueuePrimaryAgentJob` | `advance` and `dispatch_outbox` |
| `Load`, `Acquire`, `ModelAnswers`, `Commit*`, `Supersede*`, `GiveUp`, `Release` | `deliver_pending_message_binding`, `_llm`, `_frame_review`, `_effect` and their `_commit_*` |

Abstractions. The `content_sha256` of a checkpoint is only ever compared for
equality with the latest one, and the authority snapshot of a job with the
present one, so both are kept as one bit per delivery and per job; no authority
comes back, for each of its parts is counted. The controller lease is held for
one transaction, so the transaction is one action. A new agent, review or effect
job takes the name of the last one of its kind; a delivery of the old one is
marked `"gone"`. `RUN_EFFECT` stands for an inspection or a probe, `BLOCK` for
a review that blocks or asks for a revision, `UNGROUNDED` for one that accepts a
candidate `accept_frame` refuses, `STOP` and `CLOSE` for the two outcomes of a
stop, `UNSOUND` for an admitted proposal whose application raises. The
transaction of an `UNGROUNDED` review or an `UNSOUND` proposal is rolled back
(`CommitRaises`), and the durable answer is replayed by the next delivery.
Left out: capability jobs (they are ObligationEvidence), recorded
interpretations, several runs of a case, step and rejection counters, concurrent
submissions of several decisions.

### ObligationEvidence

| TLA+ | code |
|---|---|
| `authority`, `unread` | what `same_obligation_business_authority` compares, as a number that only grows; messages not bound yet |
| `adopted` | per authority, the one its plan was adopted under (`PlanAdoptionRecord.authority_snapshot`): a message carries it over, a plan revision renews it |
| `schedules`, `sealed` | schedules by authority; those whose sealed snapshot is still the one of the case |
| `dispatched`, `completion` | dispatch records with their outbox messages; obligation completions |
| `receipt`, `validity`, `satisfaction` | landed capability results, the validity head of admitted evidence, the satisfaction head of an obligation |
| `CallCapability` | `CALL_CAPABILITY` and `RUN_SENSITIVITY`, `_resolve_evidence_dispatch`, `create_schedule`, `resume` |
| `Resume`, `Propagated`, `SupersedeSchedule` | `resume`, `propagate_dependency_terminals`, `_supersede_schedule` |
| `BeginEffect`, `LandResult`, `EffectFailed`, `GiveUp` | `deliver_pending_effect`, `land_capability_result` (T1), `_commit_effect_attempt` |
| `BeginAdmission`, `RecoverReceipt`, `ReleaseLanded` | the three ways into T2: the checkpoint waits for it, a worker finds a receipt, the landing worker goes on |
| `Admit`, `AdmitRefused`, `CommitAdmission` | `admit_result` with `admit_landed_result` and `admit_completion` in one transaction, and the checkpoint transaction of `_admit_pending_evidence` |
| `Admits` | `_authority_matches`, which wants the authority of the job and that of its plan's adoption to be the present one |
| `ReportCompletion` | `admit_completion` called with a bare completion |
| `WithdrawEvidence` | `transition_evidence_validity` |

Abstractions and what they rest on. `FAILED` and `TYPED_BOUNDARY`, two ways to
end without having been executed, are one status, `CLOSED`; which result is fit
is data (`"fit"`, `"unfit"`). A superseded disposition without a result hash is
`FENCED` (the mailbox reconciliation writes it), one with a hash is `SUPERSEDED`
(the schedule does). A plan revision may keep the obligations that were resolved
or renew them, and a dispatch that failed for good needs one before the
obligation can be asked for again. The satisfaction of an obligation is computed
from the evidence of every authority it was resolved under. Messages after
`STOPPED` are left out. Within `src/`, `admit_completion` with a bare completion
and `transition_evidence_validity` are called by tests only: both are modelled
as commands of the environment, the second one as a fault with a bound.

ObligationLedger says the same without jobs, leases, receipts and transactions:
an obligation is handed out under its own authority only, after everything it
depends on has succeeded; it is settled once; it succeeds only under the
authority it was handed out for; it is superseded only after that authority is
gone. The refinement mapping is `standing`: the completion if there is one, else
whether it was dispatched.

### FrameReview

| TLA+ | code |
|---|---|
| `candidates`, `active`, `answers`, `reviews`, `closures`, `frame` | frame candidates by number, the active one, durable results of their reviewers, frame reviews, objection closures, the accepted frame |
| `candidates[i].grounded` | whether the grounding spans lie in existing messages, and the decision records exist in the case |
| `ProposeFrame` | the frame branch of `_apply_action` with `record_frame_candidate` and `record_objection_closure` |
| `ReviewerAnswers` | the reviewer's call, up to `_persist_successful_model_result` |
| `CommitFrameReview`, `Recordable`, `Acceptable` | `_commit_frame_review` with `record_frame_review`, `record_frame_admission_proof`, `accept_frame`: one transaction, made only if all of them pass |
| `Changed`, `Evidenced` | `derive_changed_measurement_node_ids`, `measurement_paths_overlap` |
| `Finding` | a finding of `validate_executable_design`, made an objection of the review |
| `BindQuestion`, `BindContext` | `_commit_message_binding` with `supersede_active_frame_candidate` / without |

A design is a function from nodes to contents; the paths of the code become
disjoint nodes, of which an objection names some, or none: the code asks of an
objection only that its references are not empty, never that they are paths of
the design. A proposal is one step and a review two (the durable answer and its
commit), for the deliveries, their leases and stale jobs are those of
CaseController; a proposal that cannot be applied leaves the case as it is, and
so does a stored review that cannot be committed: its transaction is rolled
back, and it is there for the next delivery.
Closures bind a candidate to the one before it, and to no earlier one: the
third generation may undo what the second one changed, in the code as in the
model, and `ObjectionsAreAnswered` claims no more.

### RunDispatch

| TLA+ | code (`bi_agent/conversation/postgres_store.py` unless named) |
|---|---|
| `status`, `life`, `dispatch` | `analysis_runs.status`; stage, retry state and decision of the lifecycle; the row of `run_dispatches` |
| `worker[w]` | a process the gateway started (`Children`) or a recovery worker (`Recoverers`): where it is, the dispatch it leased, the one it works under |
| `Answer`, `Observed`, `StartupTimeout`, `GatewayLost` | `claimRunDispatchRequest`, `observeOwnedRunDispatchExit`, `runAgentCoreDetached` in `src/app/api` |
| `Lease`, `Sweep`, `FailOwned` | `lease_recoverable_run_dispatches`, `sweep_expired_run_dispatches`, `fail_owned_run_dispatch`, called by `src/tools/runtime/recover_run_dispatches.py` |
| `Claim`, `Owns`, `LeaseExpires`, `HeartbeatFails` | `claim_run_dispatch`, `_lock_active_run_dispatch`, `renew_run_dispatch_lease`, the thread of `_start_run_dispatch_heartbeat` |
| `StartWorkflow`, `Resume`, `Complete`, `Fail`, `FinalizeWaiting`, `InteractionDone` | the fenced writes of a run and its dispatch (`_upsert_owned_run`, `finalize_waiting_clarification`) |
| `RecordDecision`, `Activate`, `ReplayDecision`, `Cancel`, `Challenge`, `Revise` | what an answer of the user may turn out to be |
| `Settle`, `Seal`, `Publish`, `PostSealFail`, `Ask` | the stages that are recorded without the fence |

`beat` is the process whose heartbeat thread renews the dispatch, and `live`
whether its lease has not expired; the owner of the code is a uuid drawn for one
lease, and `<<id, epoch>>` stands for it. A run keeps its latest dispatch, for an
older one is terminal for good. The terminal statuses of an analysis that stops
at an earlier stage are merged as `completed`; the replay of a seal changes no
state and is left out. A process of the gateway is one start, for a
clarification. `Raise` stands for every refused claim or write and for every
exception. A process that starts, or reports its failure, is faster than its
lease unless the fault `"slow"` happens. `cancel_run_attempt`,
`completeOwnedRunDispatch` and `finalize_run_failure` have no caller and are not
modelled; the cascade to controlled investigations and the resume outbox of
conversational tasks are left out.

## 3. Runs

| run | instance | question |
|---|---|---|
| `job_lease` | 1 job, 2 workers, lease of 2 ticks, 3 claims | is only the newest claim believed; do the leases implement `OutboxDelivery` |
| `model_job` | 2 workers, 2 attempts, 2 faults (traces of another job among them), permanent rejections | is there one chain of receipts and one result; is a result reused and settled; does only the thread that has the traces, or the controller, settle a call whose receipt outlived its delivery |
| `case_controller` | 2 workers, 3 messages and user decisions, 1 fault, failing models; frame and plan revisions, effects and questions | does the checkpoint name the open work; does accepted work belong to one question; are messages bound in order; is a disposition final; does a message fence what is under way; does nothing pass a lost message |
| `case_liveness` | 2 workers, 2 messages, 1 fault, proposals and reviews that cannot be applied | is every message bound; is every job disposed whose answer can be applied |
| `obligation_evidence` | 2 workers, 4 obligations (one that yields evidence, one that is reported, one that waits for it, a boundary), 1 change of authority, 1 fault | are schedule, jobs and evidence settled together; which evidence is usable; is a schedule given up as a whole; does the case wait for live work; does the schedule implement the ledger |
| `obligation_liveness` | 2 workers, 1 obligation, 1 change of authority, 1 fault | is a landed result disposed of, and does the wait for its admission end |
| `frame_review` | 2 nodes with 2 contents, 3 candidates, 2 messages, an objection of a reviewer that blocks and one that does not, findings that name no node, candidates with and without grounds | is the accepted frame sound; is no objection forgotten; can every stored review be committed but an acceptance without grounds; does a stranded candidate stay until the question is revised |
| `run_dispatch` | 2 recovery workers, 1 process of the gateway, 2 runs, 2 answers, 2 faults of any of 4 kinds | do run and dispatch agree; is nobody's claim shared; are dispatches ended; is a lost retry never found again |
| `model_job_crash`, `case_decision_race`, `obligation_chain`, `run_dispatch_recovery` | small instances | the divergences of section 6, as counterexamples |

*Why the bounds are enough.* One job is enough for JobLease, whose jobs share
nothing but the workers. Three claims give a zombie, its successor and the
successor's successor, which is where a token restarted from a deleted row
repeats itself; a lease of two ticks is live, about to expire and expired. Two
attempts are the first one and a retry. Two faults let a delivery be lost and
its successor be disturbed too. Two messages give a correction with every kind
of job under way; three give a burst behind an unbound message, and a decision
that overtakes a correction. Messages without impact or that stop the case, and
proposals that close or stop it, give an answer or raise, are further steps of
the same transactions: widening `Impacts` and `AgentActions` to all of them
(with two messages, 2.6 million states) changes no result, and the theorems of
section 5 hold for any two such sets. The four obligations of
`obligation_evidence` are the four ways one can end, with one dependency that is
fulfilled and can fail; one change of authority gives a stale schedule beside
the present one, and a second one gives no new kind of pair. Three candidates
are a proposal, its replacement and the replacement's replacement, with a
correction that starts a new lineage in between; two objections of a reviewer,
with the finding that names no node, can be closed together, one by one, or not
at all. Two runs are one and its
successor; two answers are a clarification and one that follows it; two faults
are a crash, and a disturbed recovery from it. For each property a mutant of the
code that breaks it is listed in `PROJECT.json`, and TLC finds the violation in
the same instance.

*Named bounds.* `MaxClaims`, `MaxAttempts` (a setting of the code as well),
`MaxMessages`, `MaxFaults`, `MaxRevisions`, `MaxCandidates`, `MaxRuns`,
`MaxAnswers`. `CHECK_DEADLOCK FALSE` everywhere: a case that is completed, a
run that is ended, or either while it waits for a user who says nothing, rests.
`SYMMETRY` permutes workers, and only in runs without liveness properties.

*Safety.* `VerdictByNewestClaim`, `ClaimsAreDistinct`; `AnswerIsDurable`,
`ReceiptChain`, `OneDeliveryPerChain`, `VerdictMatchesHistory`;
`CheckpointNamesOpenWork`, `AuthorityIsCoherent`, `BoundUpToCursor`;
`SettledTogether`, `UsableEvidenceIsOfItsPlan`, `SatisfactionMatchesEvidence`,
`SupersededAsAWhole`, `WaitsForLiveWork`; `AcceptedFrameIsSound`,
`ObjectionsAreAnswered`, `OnlyUngroundedReviewsReplay`; `DispatchMatchesRun`,
`OneOwner`. *Action properties:* `NoVerdictAfterFailedHeartbeat`,
`ExpiredClaimStaysExpired`, `StoredResultIsReused`, `AbandonedNeedsItsTraces`,
`NewMessageFences`, `DispositionsAreFinal`, `LostMessageEndsTheCase`,
`StrandedUntilRevised`, `LostRetriesStayLost`. *Refinement:* `DeliveryPromise`, `ImplementsLedger`.
*Liveness:* `AbandonedLeaseExpires`, `StoredResultSettles`, `MessagesAreBound`,
`JobsSettle`, `LandedResultIsDisposed`, `AdmissionWaitEnds`, `DispatchEnds`.
`TypeOK` is checked where a run names it and proved in every module: the runs of
ModelJob, FrameReview and RunDispatch leave it to the proof.

*Dead ends.* `AbandonedNeedsItsTraces`, `LostMessageEndsTheCase`,
`StrandedUntilRevised` and `LostRetriesStayLost` say of a state the code can get
into that no step leads out of it, or only the ones they name: an abandoned call
is settled by the controller, or by the thread that still has its traces, a
stranded candidate by a revised question. The runs that expect a violation show that
the first, the second and the last of these states are reached, and in the
instance of `frame_review` the third is; that there is no way out of them is a
property of the passing runs and a theorem.

*Where the liveness properties hold.* `MessagesAreBound` and `JobsSettle` are
properties of cases whose models answer, whose messages revise the question and
whose corrections do not overlap while a candidate is active. Proposals and
reviews that cannot be applied are among the answers: `MessagesAreBound` holds
all the same, and `JobsSettle` says that a job is disposed unless its durable
answer is one of them, which every delivery replays until a message supersedes
the job.
`LandedResultIsDisposed` is one of obligations that do not wait for each other
(`obligation_chain` is the other case); `DispatchEnds` is about the first run,
not about its successors. Section 6 and the hazard list say what happens
outside of that.

## 4. Fairness

JobLease: the storage clock ticks, nothing else. ModelJob, CaseController and
ObligationEvidence: each worker that can take a step of its delivery takes one
(a process that runs goes on; what ends it otherwise is `Crash`, which is not
fair), the lease
of a dead worker expires (shown in JobLease), and somebody keeps calling
`advance` / `dispatch_outbox` for a case that can move (`run_until_boundary`
does; in ObligationEvidence that is `ReconcileMailbox` and `BindMessage`).
That a call of a provider or of an effect executor returns, with an answer or an
error, is an assumption about the environment and no property of the code:
`timeout_seconds` of the provider is `None` unless it is set
(`providers/chat_completions.py:65`), and a call that hangs keeps its job under a
heartbeat that goes on. The liveness properties of these three modules rest on
it (that of ModelJob too: a result may be stored by a zombie while its successor
is calling), and `CalledJobSettles` is refuted in spite of it.
RunDispatch: a process that runs goes on, a recovery worker keeps polling and
sweeping (`recover_run_dispatches.py` loops), and a lease that nobody renews
expires.

Never fair: messages, user decisions *and the second half of one* (a client may
die between its two transactions), agents that call capabilities or revise
plans, answers, everything the gateway does, crashes, lost leases, failed
heartbeats, retryable effect failures, withdrawn evidence and needless wakes.
Faults are bounded by `MaxFaults`, so that liveness says what happens once they
stop.

## 5. Proofs

Every invariant, every action property and both refinements that the runs check
are proved for every value of the constants, and so are further ones that no run checks.
None of the invariants is inductive: each `_proofs` module has an `IInv` that adds what a
transaction has to know of the work around it, proves that the initial states
have it (`InvInit`), that every step keeps it (`InvStep`, one step or one lemma
per action, under it the conjuncts the action can disturb), and derives the
listed theorems from it.

`JobLease_proofs`: `TypeCorrect`, `VerdictIsOfNewestClaim`,
`ClaimsNeverShareAFence`, `FailedHeartbeatIsFenced` and `ExpiredClaimNeverRevived`
(action properties), `ImplementsDelivery` and `LeasesAreHeld` (refinements), for
every set of jobs and workers, every lease length and every bound on claims. That a verdict carries the newest token
needs that the row which passed `assert_job_lease` carries it
(`LeaseIsNewest`), and that a job without a verdict has no fence recorded
(`PendingHasNoFence`); that two deliveries differ needs that every token a
worker carries was granted (`ClaimsAreGranted`), for then the next one is larger
than all. Failed heartbeats need `FailedNeverCommits`. A claim that is live after
a step and was not before it was granted by that step (`RevivedByClaim`), and a
claim grants a new token. `LeasesAreHeld` maps rows and worker memory to the
holder of each job (JobHolding): a claim takes a free job, a renewal changes no
holder, and everything else that touches a lease can only lose it
(`Losing`). Assumptions: `NoWorker`
and `NoJob` are not a worker and not a job, `LeaseTicks` is positive,
`MaxClaims` is a natural number.

`ModelJob_proofs`: `TypeCorrect`, `AnswersAreDurable`, `HistoriesAreChains`,
`OneDeliveryOneChain`, `VerdictsMatch`, `ResultsAreReused` and
`AbandonedCallsNeedTraces` (action properties) and `DeliveriesRestOnLeases` (a
refinement), for all workers, provider settings and numbers of faults. The
strengthening is `DeliveryMatches`: a delivery that asks the provider knows that
all attempts before its own failed under its own hand, one that stores a result
has its receipt; `TracesMatch`: traces of this job, on
whatever thread and however old, end in the last receipt of the job, which that
thread wrote; and `HistoryInv`: the
durable result belongs to the delivery of the successful receipt. With these,
what another delivery left behind can only be refused or repeated, never
continued. `AbandonedCallsNeedTraces` is where this leads: once
the receipt of the first attempt is left behind without a result, no delivery
has a receipt of its own, so none stores a result or commits one; the job can
fail only under a thread that still has the traces of the call, no further
thread gets them, and without them only the controller ends it. `DeliveriesRestOnLeases` closes the gap to JobLease:
what this module lets a holder do is what JobHolding promises, and that is what
`LeasesAreHeld` proves of the rows. Assumptions: at least one attempt, a natural number
of faults, workers that are not called `"nobody"`, `"dead"` or `"past"`.

`CaseController_proofs`: `TypeCorrect`, `CheckpointIsTruthful`,
`AuthorityStaysCoherent`, `MessagesAreBoundInOrder`, and the action properties
`MessageFences`, `DispositionsFinal` and `LostMessagesEndTheCase`, for every set of workers, every number
of messages and of faults, whatever a message means (`Impacts`), an agent
proposes (`AgentActions`) or a reviewer answers (`ReviewAnswers`), and whether
models may fail for good (`MayFail`).
`IInv` adds:

* `ViewIsCurrent` and `BusyHasJob`: a delivery that passes
  `_require_same_checkpoint` delivers the job the case waits for, so that a
  commit disposes that job and no other one;
* `FutureIsAbsent`: a message that is yet to come has no job, so that ingress
  cannot reopen one;
* `FreshJobsAreCurrent`: an agent, review or effect job whose authority is the
  present one has seen every message (this is what makes `_job_is_stale` a
  fence);
* `FreshWhenCaughtUp`: a stale job is superseded only when the mailbox is ahead,
  so that the reconciliation finds a binding to wait for instead of leaving the
  checkpoint with a job that has just been disposed;
* `DecisionIsAhead`: the second half of a user decision points the checkpoint at
  a binding that is still open;
* `QuestionsAreBound` and `FreshReviewHasCandidate`: a candidate belongs to a
  question, and a review that is committed reviews a candidate, so that what it
  accepts is a frame of the present question.

One lemma per kind of transaction (`CheckpointEffect`, `CompletionStep`,
`CompletionWithJobStep`, `ReconcileStep`, `BookkeepingStep`), one per action on
top of them; `OutboxMoves` says what any step may do to any job, and the action
properties follow from it. `LostMessagesEndTheCase` says what a lost binding costs:
the cursor never reaches its message, so the mailbox stays ahead of it, and a
mailbox that is ahead fences every agent, review and effect job. That the least of a non-empty set of messages exists
(`FirstIsMember`) comes from the well-foundedness of the naturals. Assumptions:
at least one message, a natural number of faults, impacts, actions and
reviews among the known ones, workers that are not called `"nobody"` or `"dead"`.

`ObligationEvidence_proofs`: `TypeCorrect`, `ResultsSettleTogether`,
`UsableEvidenceNeedsItsPlan`, `SatisfactionIsCurrent`,
`StaleSchedulesAreGivenUp`, `CaseWaitsForLiveWork`, `KeepsTheLedger` (the refinement) and
`DependentsNeverRun`, for every plan and
its dependencies (cyclic ones too), every set of workers, any number of
revisions and of faults. `IInv` adds:

* `DispatchedInOrder`, `SupersededIsPast`: what was handed out can be executed,
  belongs to an authority the case has had, and came after what it depends on;
  only the past is superseded;
* `EvidenceIsGrounded`: evidence comes from a landed result, a landed result
  from a dispatch;
* `CheckpointIsTruthful`: the checkpoint names a job exactly while it waits;
* `DeliveryIsSound`: a delivery whose checkpoint is the newest works on the job
  the case waits for, and an executing one that holds the lease while the
  authority stands finds no other result.

The closing of obligations is a least fixed point (`Propagated`);
`PropagationHasReason` and the lemmas around it show that what it closes was
open, and has a reason in the plan or in another closed obligation, which is
what the ledger asks for. `DependentsNeverRun` says of every plan what
`obligation_chain` shows of one: an obligation with a prerequisite that yields
evidence is never handed out, for the admission of that evidence changes the
snapshot the dispatch is compared with. Assumptions: the executable obligations are
obligations, the reported ones are executable, `DependsOn` maps obligations to
sets of them, the bounds are natural numbers, workers are not called `"nobody"`
or `"dead"`.

`FrameReview_proofs`: `TypeCorrect`, `AcceptedFramesAreSound`,
`ReplacementsAnswer` and `ReviewsCommitOrAreUngrounded`, and the action properties
`HistoryIsFinal` (nothing that was proposed, reviewed or closed is rewritten),
`FramesSucceed` (an accepted frame gives way to a revised question or to a
candidate that extends exactly it) and `StrandedCandidatesStay`, for all designs, findings and
objections, any number of candidates and messages. `IInv` adds the tables (what
is not made is neither a candidate nor reviewed, `TablesOK`), the counting of
messages and questions (`MailboxOK`) and the lineage (`LineageOK`: the active
candidate is the last one made and is about the accepted question; what was replaced had been reviewed
before, so that a later review cannot add an objection behind the replacement)
and `ReviewIsDue` (while a review is waited for, its candidate is the active one,
of the accepted question, extends the accepted frame, has its closure records
and no review). What is left that `accept_frame` can refuse is an acceptance
without grounds: `ReviewsCommitOrAreUngrounded`. Assumptions: the refused designs
are designs, the objections of a reviewer are objections (whether they name nodes
or not), the bounds are natural numbers.

`RunDispatch_proofs`: `DispatchTypes`, `DispatchFollowsRun` and
`RunHasOneOwner`, for any number of processes, runs, answers and faults of every
kind. `OneOwner` rests on three facts: a claim is never newer than the dispatch
of its run (`ClaimsAreOld`), no claim is held twice (`ClaimsDiffer`), and a
process at work has a claim (`Seated`). A lease raises the epoch above every
claim that is held, and a successor run has no claim on it before it exists; two
processes that both own a run would hold the claim that its dispatch names, the
same one. `RunDispatchSteps_proofs` adds, on the same invariant, what no step
does: `EndsAreFinal` (an ended run keeps its row and its dispatch),
`ClaimsAreNotRegained` (an expired or released claim is never live again: the
epoch has moved, or the dispatch is another one), `OnlyOwnersMove` (while a claim
is live the status of its run is moved by its owner: every other writer requires
that the dispatch is not running, or that its lease has expired) and
`LostRetriesAreLost`. They need two facts more: a live dispatch is leased or
running (`LiveOK`), and a process works under the lease it was given unless it
revised the run of that lease, which has then ended (`LeasesOK`). `DispatchMatchesRun` is inductive with the types and needs, for every
transaction, what its guards say about the pair of rows. Assumptions: children,
recovery workers and `Nobody` are distinct, there is a run, the bounds are
natural numbers, the faults are known ones.

Only model-checked: the four counterexamples and, everywhere, liveness under
fairness, which the prover has no rules for (`AbandonedLeaseExpires`,
`StoredResultSettles`, `MessagesAreBound`, `JobsSettle`,
`LandedResultIsDisposed`, `AdmissionWaitEnds`, `DispatchEnds`).

## 6. Where the code and its documents differ

| run | what happens |
|---|---|
| `model_job_crash` | a crash after the receipt of a call and before its durable result: every later delivery calls the model, gets another receipt for the same attempt and is refused; the job is pending for ever |
| `case_decision_race` | a decision submitted behind an unbound correction: its binding is delivered first, found not to be next and superseded; nothing binds it later |
| `obligation_chain` | an obligation that waits for another one: the transaction that admits the evidence of the first changes the very snapshot the schedule sealed, so the dispatch of the second is refused as stale and the admission is rolled back, every time |
| `run_dispatch_recovery` | a run that crashed behind its seal is released with `retry_state` scheduled; a first attempt at it claims (`running`) and fails, the exit releases the dispatch without resetting the retry state, and no claim accepts it any more |

`PROJECT.json` quotes the lines the runs refute. Each counterexample is one
behaviour of one instance; what it means for every instance is a theorem:
`AbandonedCallsNeedTraces` (such a job is settled by the controller, or fails
under the one thread that still has the traces of the call; when the process is
gone, nobody has them), `LostMessagesEndTheCase`
(nothing later is bound, and no agent, review or effect job completes any more),
`DependentsNeverRun` (no plan gets such an obligation out) and
`LostRetriesAreLost` (such a run never moves again). More of the same kind is in the
models or met on the way, and has no run of its own:

* a transient failure of a model followed by a permanent one: the failure commit
  rewrites the first attempt and is refused, so that the case is not blocked and
  the job stays (`FailureConflicts` in ModelJob);
* a delivery that leaves through `LeaseFenceLost` does not take the traces of its
  failed call, and the next call of the thread that is rejected before it has a
  trace reports them as its own, of another job if that is what they are
  (`controller/runtime.py:1156-1171`, `LeaveTraces` and `DeliverAnother` in
  ModelJob);
* a message that leaves the plan as it is moves the mailbox epoch: a schedule made
  afterwards is current and its obligations succeed, while their evidence is
  rejected as `stale_authority`, for the plan was adopted under the epoch before
  (`domain/evidence.py:1558-1565`, `Admits` in ObligationEvidence);
* a candidate with a grounding span or a decision record that does not exist is
  recorded and reviewed, and if it is accepted `accept_frame` raises
  (`storage/in_memory.py:1651-1695`): the review is durable and replayed by every
  delivery, until a message supersedes its job and leaves the candidate active
  without a review (`OnlyUngroundedReviewsReplay`, `CandidateIsStranded`). A
  proposal that raises while it is applied is replayed likewise;
* two corrections while a frame candidate is active:
  `supersede_active_frame_candidate` wants the newest epoch, which the first
  correction does not have; neither is ever bound (`Bindable` in
  CaseController, `BindQuestion` in FrameReview);
* a message without impact, or a failed reviewer, during a measurement review:
  the review is gone, its candidate stays active without one, and no frame can
  be proposed any more (`Replaceable`; `StrandedCandidatesStay` proves that only
  a revision of the question helps);
* a finding of the deterministic validation names identifiers of rules and
  graphs, never paths of a design, so no replacement can close the objection it
  becomes (`Finding`): the primary agent, which is to create a new candidate
  after a blocking review
  (`docs/plans/2026-07-30-bi-agent-vnext-gate-3-universal-measurement-authority.md:388`),
  cannot (the other way into `StrandedCandidatesStay`);
* a completed run closes its case, and a closed case refuses the second run that
  documents promise;
* an ambiguous first message is neither bound nor asked about (`Bindable`), and
  a binding that failed for good leaves the messages after it unbound
  (`CommitProviderFailure`);
* a late result whose job the mailbox reconciliation has disposed runs no T2, so
  that the stale schedule stays open, where
  `docs/reviews/2026-07-31-bi-agent-vnext-gate-3-2-3-implementation.md:255`
  has the late completion supersede the whole schedule (`FENCED`);
* in the read model, which is not modelled: a dispatch of a task that has
  succeeded is refused by `_task_transition_allowed`
  (`domain/workflow.py:1134`), and `_satisfaction_fact`
  (`domain/workflow_adapter.py:608`) takes the first projection it finds;
* a recovery worker that raises under the dispatch of a successor run fails the
  dispatch it leased, while the heartbeat thread of the successor's renews for
  ever: without any fault, that dispatch is running for good. `DispatchEnds` is
  about the first run for this reason;
* a run whose publication is durable and whose process dies before it is
  completed is failed by the sweep;
* an answer that chose an option is refused when it is delivered again after a
  crash between the decision and its lifecycle (`bi_agent/conversation/agent_core.py:2264`).

## 7. What is not modelled, and what could come next

* *Read model* (`domain/workflow.py`): an incremental projection against a
  rebuild, over some thirty kinds of journal event. It is a fold over a journal
  that one process writes; what is hard in it is data (which event carries which
  fact), and a model of it would repeat the tables of the code.
* *Planning, measurement algebra, resolver, answering* (`domain/planning.py`,
  `domain/measurement*.py`, `domain/answering.py`): pure computations over rich
  records. The calendar windows are candidates for operators checked against a
  reference definition; the rest has no state.
* *Settlement of answers*: the review a provisional answer waits for is of a
  kind that no worker of the repository delivers, so there is no behaviour to
  model behind it.
* *`storage/postgres.py`*: the models assume the store contract that
  `in_memory.py` states, in which a transaction is one step. The isolation of
  the row locks is left to a module of its own.
* *The dispatcher's recovery cursor*: called by tests only.
* *First generation*: the durable call journal (the predecessor of ModelJob),
  the resume outbox of conversational tasks, the sealed content with its own
  outbox, the turn runtime and its graph workflows, compilers and capabilities.
  They are being replaced; RunDispatch models the part that has several
  processes on one row.
* *Codecs, migrations, contracts, rendering, HTTP routes, evaluations, trace
  manifests*: no runtime state, or read-only.

Worth doing next: ties from the leases of CaseController and ObligationEvidence to
`JobHolding`, as that of ModelJob is (it needs a promise that says more: the
first uses the name of a job again, and the admission of a landed result (T2)
completes its job without a lease); the resume outbox as a module beside RunDispatch; the call
journal of the first generation.

Runs are few on purpose: one per question. A run whose divergence the code has
settled is to be dropped, or turned into a passing one, when a module needs it.

## 8. Running

    tlc -workers 2 -config MCJobLease.cfg MCJobLease
    tlapm JobLease_proofs.tla
    tlapm ModelJob_proofs.tla
    tlapm CaseController_proofs.tla
    tlapm ObligationEvidence_proofs.tla
    tlapm FrameReview_proofs.tla
    tlapm RunDispatch_proofs.tla
    tlapm RunDispatchSteps_proofs.tla

The largest run, `frame_review`, has 7.6 million distinct states, the next one,
`case_controller`, 3.3 million; each takes about two minutes. The longest proof takes a few minutes.
