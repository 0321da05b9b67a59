--------------------------- MODULE CaseController ---------------------------
(***************************************************************************)
(* WAJEController over one investigation case: users put messages into the *)
(* case's mailbox, every message gets a message-binding job, and the       *)
(* checkpoint says what the controller waits for.  Delivery workers load   *)
(* the checkpoint, lease the pending job, call a model or execute an       *)
(* effect, and commit the outcome in one transaction that asserts the      *)
(* lease, requires the checkpoint they loaded and compares the authority   *)
(* the job was enqueued under with the present one.                        *)
(*                                                                         *)
(* Two things that grow without end in the code are kept by what they are  *)
(* compared for.  Checkpoints: a worker's view of the checkpoint it loaded *)
(* is "same" until somebody writes another one.  Authority snapshots: a    *)
(* job is stale once the authority differs from the one it was enqueued    *)
(* under (no authority ever comes back, for every part of it is counted).  *)
(*                                                                         *)
(* JobLease and ModelJob say what the lease and the durable result of a    *)
(* model call rest on; here a lease is its holder and a result is there or *)
(* is not.  Evidence (obligation) jobs are not in this module.             *)
(***************************************************************************)
EXTENDS Naturals, FiniteSets

CONSTANTS
  Workers,       \* delivery workers
  MaxMessages,   \* bound: mailbox messages
  MaxFaults,     \* bound: crashes, lost leases, needless wakes, effect retries
  Impacts,       \* what a message may turn out to mean
  AgentActions,  \* what the primary agent may propose
  ReviewAnswers, \* what the reviewer of a frame candidate may answer
  MayFail        \* whether model calls may fail for good

MessageImpacts == {"QUESTION_REVISION", "CONTEXT_ONLY", "NEEDS_USER_DECISION",
                   "STOP_REQUEST"}

\* RUN_EFFECT: a semantic inspection or a data probe.  STOP and CLOSE: the two
\* terminal states of a stop.  UNSOUND: a proposal that is admitted and that
\* its application refuses, such as a plan that does not compile.
ActionKinds == {"REVISE_FRAME", "REVISE_PLAN", "PROPOSE_ANSWER", "RUN_EFFECT",
                "ASK_USER", "STOP", "CLOSE", "UNSOUND"}

\* What is recorded of a review.  BLOCK is a review that asks for a revision or
\* blocks.  An answer may also be UNGROUNDED: an acceptance that accept_frame
\* refuses, because the source spans, identities or decisions that the frame
\* is grounded on are not those of the case.
Reviews == {"ACCEPT", "BLOCK"}

ASSUME MaxMessagesAssumption == MaxMessages \in Nat \ {0}
ASSUME MaxFaultsAssumption == MaxFaults \in Nat
ASSUME ImpactsAssumption == Impacts \subseteq MessageImpacts
ASSUME AgentActionsAssumption == AgentActions \subseteq ActionKinds
ASSUME ReviewAnswersAssumption ==
  ReviewAnswers \subseteq Reviews \cup {"UNGROUNDED"}
ASSUME MayFailAssumption == MayFail \in BOOLEAN
ASSUME WorkerNames == {"nobody", "dead"} \cap Workers = {}

VARIABLES
  head,        \* sequence (and authority epoch) of the last mailbox message
  case,        \* accepted authority of the case
  checkpoint,  \* the latest checkpoint
  outbox,      \* state of every outbox job
  stale,       \* jobs enqueued under an authority that is gone
  answer,      \* durable model result of a job
  lease,       \* who holds the delivery lease of a job
  worker,      \* the delivery each worker is running
  decision,    \* message of a user decision whose checkpoint is still due
  faults       \* faults that happened

mailboxVars == <<head, decision>>
jobVars == <<outbox, stale, answer>>
vars == <<head, case, checkpoint, outbox, stale, answer, lease, worker,
          decision, faults>>
-----------------------------------------------------------------------------
Sequences == 1 .. MaxMessages

Binding(n) == [kind |-> "message_binding", n |-> n]

\* Jobs other than bindings exist one at a time per kind; a new one takes the
\* name of the old one.
System(kind) == [kind |-> kind, n |-> 0]
SystemKinds == {"primary_agent", "reviewer", "effect", "answer_review"}
SystemJobs == {System(kind) : kind \in SystemKinds}
Jobs == {Binding(n) : n \in Sequences} \cup SystemJobs
NoJob == System("none")

\* Kinds answered by a model, whose results are durable.
ModelKinds == {"message_binding", "primary_agent", "reviewer"}

\* Without WAITING_FOR_EVIDENCE_ADMISSION, which only evidence jobs lead to.
ControllerPhase ==
  {"READY_FOR_AGENT", "WAITING_FOR_LLM", "WAITING_FOR_MESSAGE_BINDING",
   "WAITING_FOR_MEASUREMENT_REVIEW", "WAITING_FOR_USER", "WAITING_FOR_EFFECT",
   "WAITING_FOR_REVIEW", "BLOCKED", "COMPLETED", "STOPPED"}

\* The phase that waits for a job of a kind.
WaitingFor(kind) ==
  CASE kind = "message_binding" -> "WAITING_FOR_MESSAGE_BINDING"
    [] kind = "primary_agent" -> "WAITING_FOR_LLM"
    [] kind = "reviewer" -> "WAITING_FOR_MEASUREMENT_REVIEW"
    [] kind = "effect" -> "WAITING_FOR_EFFECT"
    [] kind = "answer_review" -> "WAITING_FOR_REVIEW"

Answers == Impacts \cup AgentActions \cup ReviewAnswers \cup {"none"}

\* Accepted revisions are named by the question revision they belong to, 0
\* for none; the active frame candidate carries its review.
NoCandidate == [question |-> 0, review |-> "none"]
Candidates == [question : 0 .. MaxMessages, review : Reviews \cup {"none"}]
Cases == [question : 0 .. MaxMessages, frame : 0 .. MaxMessages,
          plan : 0 .. MaxMessages, candidate : Candidates,
          lifecycle : {"OPEN", "STOPPED", "CLOSED"}]

Checkpoints == [phase : ControllerPhase, pending : Jobs \cup {NoJob},
                cursor : 0 .. MaxMessages]

\* view: "same" while the checkpoint is the one the worker loaded, "gone"
\* once the name of its job stands for a later job.
Deliveries == [at : {"idle", "loaded", "calling", "answered", "superseding",
                     "releasing"},
               job : Jobs \cup {NoJob}, view : {"same", "changed", "gone"}]

Idle == [at |-> "idle", job |-> NoJob, view |-> "gone"]

Dispositions == {"COMPLETED", "SUPERSEDED", "TERMINAL_FAILURE"}

TypeOK ==
  /\ head \in Sequences
  /\ case \in Cases
  /\ checkpoint \in Checkpoints
  /\ outbox \in [Jobs -> Dispositions \cup {"absent", "pending"}]
  /\ stale \subseteq Jobs
  /\ answer \in [Jobs -> Answers]
  /\ lease \in [Jobs -> Workers \cup {"nobody", "dead"}]
  /\ worker \in [Workers -> Deliveries]
  /\ decision \in 0 .. MaxMessages
  /\ faults \in 0 .. MaxFaults

Fault == faults < MaxFaults /\ faults' = faults + 1
-----------------------------------------------------------------------------
\* start(): the case is opened with its first message, the checkpoint waits
\* for the binding of that message.
Init ==
  /\ head = 1
  /\ case = [question |-> 0, frame |-> 0, plan |-> 0,
             candidate |-> NoCandidate, lifecycle |-> "OPEN"]
  /\ checkpoint = [phase |-> "WAITING_FOR_MESSAGE_BINDING",
                   pending |-> Binding(1), cursor |-> 0]
  /\ outbox = [j \in Jobs |-> IF j = Binding(1) THEN "pending" ELSE "absent"]
  /\ stale = Jobs \ {Binding(1)}
  /\ answer = [j \in Jobs |-> "none"]
  /\ lease = [j \in Jobs |-> "nobody"]
  /\ worker = [w \in Workers |-> Idle]
  /\ decision = 0
  /\ faults = 0
-----------------------------------------------------------------------------
(* The checkpoint, the mailbox and the outbox as every transaction sees    *)
(* them.                                                                   *)

\* What a worker knows of the checkpoint and of its job after a checkpoint
\* was written in a transaction that enqueued job new (or NoJob).
Outdated(d, new) ==
  IF d.at = "idle" THEN d
  ELSE [d EXCEPT !.view = IF d.job = new THEN "gone"
                          ELSE IF @ = "same" THEN "changed" ELSE @]

Finished(d) == [d EXCEPT !.at = "releasing", !.view = "changed"]

\* _checkpoint, written by worker w (or nobody of them).
Checkpoint(w, phase, pending, cursor, new) ==
  /\ checkpoint' = [phase |-> phase, pending |-> pending, cursor |-> cursor]
  /\ decision' = 0
  /\ worker' = [v \in Workers |-> IF v = w THEN Finished(worker[v])
                                  ELSE Outdated(worker[v], new)]

\* enqueue_outbox together with the authority the transaction leaves behind:
\* an authority that changed makes every job but the new one stale.
Enqueue(ob, new) ==
  /\ outbox' = [ob EXCEPT ![new] = "pending"]
  /\ answer' = [answer EXCEPT ![new] = "none"]
  /\ lease' = [lease EXCEPT ![new] = "nobody"]

EnqueueNothing(ob) ==
  outbox' = ob /\ UNCHANGED <<answer, lease>>

AuthorityChanges(new) == stale' = Jobs \ {new}
AuthorityStays(new) == stale' = stale \ {new}

Disposed(j, how) == [outbox EXCEPT ![j] = how]

\* Mutant: the latest message wins.
Unbound_LatestWins(ob) ==
  {n \in checkpoint.cursor + 1 .. head :
     ob[Binding(n)] = "pending" /\ n = head}

\* Mailbox messages after the cursor whose binding job is not disposed.
Unbound(ob) ==
  {n \in checkpoint.cursor + 1 .. head : ob[Binding(n)] = "pending"}

First(ns) == CHOOSE n \in ns : \A m \in ns : n <= m

\* Mutant: the jobs the checkpoint waited for are left alone.
Superseded_Nothing(ob, selected) == ob

\* Jobs the checkpoint waited for are superseded, the selected one excepted.
Superseded(ob, selected) ==
  [j \in Jobs |->
     IF j = checkpoint.pending /\ j # selected /\ ob[j] = "pending"
     THEN "SUPERSEDED" ELSE ob[j]]

\* "mailbox advance has no durable message-binding job" is raised otherwise.
Reconcilable(ob) == head = checkpoint.cursor \/ Unbound(ob) # {}

\* _reconcile_mailbox_locked: the case waits for the binding of its first
\* unbound message; without a new message the checkpoint stays as it is.
Reconcile(w, ob) ==
  /\ Reconcilable(ob)
  /\ IF head = checkpoint.cursor
     THEN /\ EnqueueNothing(ob)
          /\ worker' = [v \in Workers |-> IF v = w THEN Finished(worker[v])
                                          ELSE worker[v]]
          /\ UNCHANGED <<checkpoint, decision>>
     ELSE LET selected == Binding(First(Unbound(ob))) IN
          /\ EnqueueNothing(Superseded(ob, selected))
          /\ Checkpoint(w, "WAITING_FOR_MESSAGE_BINDING", selected,
                        checkpoint.cursor, NoJob)
  /\ UNCHANGED <<head, case, stale>>
-----------------------------------------------------------------------------
(* Users and the dispatcher.                                               *)

\* ingress_message: mailbox message, pending message and binding job in one
\* transaction; the checkpoint of a running case is not touched.
AppendMessage ==
  /\ head < MaxMessages
  /\ head' = head + 1
  /\ Enqueue(outbox, Binding(head + 1))
  /\ AuthorityChanges(Binding(head + 1))
  /\ UNCHANGED <<case, checkpoint, worker, faults>>

IngressMessage == AppendMessage /\ UNCHANGED decision

\* submit_user_decision, first half: the decision is ingressed as a message
\* in a transaction of its own.
SubmitUserDecision ==
  /\ checkpoint.phase = "WAITING_FOR_USER"
  /\ decision = 0
  /\ AppendMessage
  /\ decision' = head + 1

\* Second half: the checkpoint waits for the binding of the decision.  If a
\* checkpoint was written in between, the half is refused (decision is 0).  A
\* client that dies in between never gets here; one that submits the same
\* decision again finds its message and takes this step later.
RecordUserDecision ==
  /\ decision # 0
  /\ Checkpoint("nobody", "WAITING_FOR_MESSAGE_BINDING", Binding(decision),
                checkpoint.cursor, NoJob)
  /\ UNCHANGED <<head, case, outbox, stale, answer, lease, faults>>

\* advance (or the dispatch of a binding job the checkpoint does not wait
\* for) when the mailbox is ahead of the checkpoint.
AdvanceMailbox ==
  /\ head > checkpoint.cursor
  /\ Reconcile("nobody", outbox)
  /\ checkpoint' # checkpoint
  /\ UNCHANGED faults

\* The same for a case that waits for that binding already: the checkpoint
\* is written again.
AdvanceAgain ==
  /\ head > checkpoint.cursor
  /\ Reconcile("nobody", outbox)
  /\ checkpoint' = checkpoint
  /\ Fault

\* advance of a ready case: a primary agent job is enqueued.
EnqueuePrimaryAgentJob ==
  /\ checkpoint.phase = "READY_FOR_AGENT"
  /\ head = checkpoint.cursor
  /\ Enqueue(outbox, System("primary_agent"))
  /\ AuthorityStays(System("primary_agent"))
  /\ Checkpoint("nobody", "WAITING_FOR_LLM", System("primary_agent"),
                checkpoint.cursor, System("primary_agent"))
  /\ UNCHANGED <<head, case, faults>>
-----------------------------------------------------------------------------
(* Deliveries.                                                             *)

Job(w) == worker[w].job

\* Mutant: a job is stale only once the question, frame or plan changed.
IsStale_SameBusiness(w) == FALSE

\* _job_is_stale
IsStale(w) == Job(w) \in stale

\* Mutant: a delivery that has the answer commits it.
Entitled_AnyDelivery(w) == answer[Job(w)] # "none"

\* Every commit asserts the job lease and requires the loaded checkpoint; a
\* job that has a disposition already gets no other one.
Entitled(w) ==
  /\ lease[Job(w)] = w
  /\ worker[w].view = "same"
  /\ outbox[Job(w)] = "pending"

\* deliver_pending_*: the worker loads the checkpoint and its pending job.
\* Nobody delivers the review of a provisional answer.
Load(w) ==
  /\ worker[w].at = "idle"
  /\ checkpoint.pending \notin {NoJob, System("answer_review")}
  /\ worker' = [worker EXCEPT ![w] = [at |-> "loaded", view |-> "same",
                                      job |-> checkpoint.pending]]
  /\ UNCHANGED <<mailboxVars, jobVars, case, checkpoint, lease, faults>>

\* _acquire_job.  A binding is called for even if it is stale: messages are
\* bound in their order, whatever arrived later.
Acquire(w) ==
  /\ worker[w].at = "loaded"
  /\ worker[w].view # "gone"
  /\ outbox[Job(w)] = "pending" /\ lease[Job(w)] = "nobody"
  /\ lease' = [lease EXCEPT ![Job(w)] = w]
  /\ worker' = [worker EXCEPT ![w].at =
                 IF Job(w).kind # "message_binding" /\ IsStale(w)
                 THEN "superseding"
                 ELSE IF answer[Job(w)] # "none" THEN "answered" ELSE "calling"]
  /\ UNCHANGED <<mailboxVars, jobVars, case, checkpoint, faults>>

\* The job is leased to somebody else or disposed: ControllerConflict.
CannotAcquire(w) ==
  /\ worker[w].at = "loaded"
  /\ \/ worker[w].view = "gone"
     \/ outbox[Job(w)] # "pending"
     \/ lease[Job(w)] # "nobody"
  /\ worker' = [worker EXCEPT ![w] = Idle]
  /\ UNCHANGED <<mailboxVars, jobVars, case, checkpoint, lease, faults>>

AnswersTo(kind) ==
  CASE kind = "message_binding" -> Impacts
    [] kind = "primary_agent" -> AgentActions
    [] kind = "reviewer" -> ReviewAnswers

\* The model answers: the result is durable before it is committed.
ModelAnswers(w) ==
  /\ worker[w].at = "calling" /\ Job(w).kind \in ModelKinds
  /\ worker[w].view # "gone" /\ answer[Job(w)] = "none"
  /\ \E a \in AnswersTo(Job(w).kind) :
       answer' = [answer EXCEPT ![Job(w)] = a]
  /\ worker' = [worker EXCEPT ![w].at = "answered"]
  /\ UNCHANGED <<mailboxVars, case, checkpoint, outbox, stale, lease, faults>>

\* A job of the past, or one another delivery stored a result for.
ModelAnswersTooLate(w) ==
  /\ worker[w].at = "calling" /\ Job(w).kind \in ModelKinds
  /\ \/ worker[w].view = "gone"
     \/ answer[Job(w)] # "none"
  /\ worker' = [worker EXCEPT ![w].at = "releasing"]
  /\ UNCHANGED <<mailboxVars, jobVars, case, checkpoint, lease, faults>>

\* _supersede_job_locked
Supersede(w) ==
  Reconcile(w, Disposed(Job(w), "SUPERSEDED"))

Supersedable(w) == Reconcilable(Disposed(Job(w), "SUPERSEDED"))

\* _supersede_job: a stale job is not called for at all.
SupersedeStale(w) ==
  /\ worker[w].at = "superseding"
  /\ Entitled(w)
  /\ Supersede(w)
  /\ UNCHANGED faults

\* A commit that completes its job, leaves the case waiting for job pending
\* (or ready, or at rest) and enqueues nothing.
Complete(w, phase, pending, cursor) ==
  /\ EnqueueNothing(Disposed(Job(w), "COMPLETED"))
  /\ Checkpoint(w, phase, pending, cursor, NoJob)

\* The same with a next job.
CompleteAndEnqueue(w, next) ==
  /\ Enqueue(Disposed(Job(w), "COMPLETED"), next)
  /\ Checkpoint(w, WaitingFor(next.kind), next, checkpoint.cursor, next)
-----------------------------------------------------------------------------
(* Message bindings.                                                       *)

\* Mutant: any message after the cursor is bound next.
IsNext_AnyLater(w) == Job(w).n > checkpoint.cursor

IsNext(w) == Job(w).n = checkpoint.cursor + 1

\* Mutant: the work on the previous question stays accepted.
AcceptQuestion_KeepFrame(c) ==
  [c EXCEPT !.question = @ + 1, !.plan = 0, !.candidate = NoCandidate]

\* Mutant: a revision is counted twice.
AcceptQuestion_CountsTwice(c) ==
  [c EXCEPT !.question = @ + 2, !.frame = 0, !.plan = 0,
            !.candidate = NoCandidate]

\* accept_question and supersede_active_frame_candidate
AcceptQuestion(c) ==
  [c EXCEPT !.question = @ + 1, !.frame = 0, !.plan = 0,
            !.candidate = NoCandidate]

\* What stops the commit of the next message's binding: the supersession of
\* a frame candidate has to observe the newest epoch, the first message has
\* to establish a question, and a case is stopped once.
Bindable(w) ==
  LET impact == answer[Job(w)] IN
  /\ impact = "QUESTION_REVISION" =>
       case.candidate = NoCandidate \/ Job(w).n = head
  /\ impact # "QUESTION_REVISION" => case.question > 0
  /\ impact = "STOP_REQUEST" => case.lifecycle = "OPEN"

\* _commit_message_binding
CommitMessageBinding(w) ==
  /\ worker[w].at = "answered" /\ Job(w).kind = "message_binding"
  /\ Entitled(w) /\ IsNext(w) /\ Bindable(w)
  /\ \/ /\ answer[Job(w)] = "QUESTION_REVISION"
        /\ case' = AcceptQuestion(case)
        /\ AuthorityChanges(NoJob)
        /\ Complete(w, "READY_FOR_AGENT", NoJob, Job(w).n)
     \/ /\ answer[Job(w)] = "CONTEXT_ONLY"
        /\ AuthorityStays(NoJob) /\ UNCHANGED case
        /\ Complete(w, "READY_FOR_AGENT", NoJob, Job(w).n)
     \/ /\ answer[Job(w)] = "NEEDS_USER_DECISION"
        /\ AuthorityStays(NoJob) /\ UNCHANGED case
        /\ Complete(w, "WAITING_FOR_USER", NoJob, Job(w).n)
     \/ /\ answer[Job(w)] = "STOP_REQUEST"
        /\ case' = [case EXCEPT !.lifecycle = "STOPPED"]
        /\ AuthorityChanges(NoJob)
        /\ Complete(w, "STOPPED", NoJob, Job(w).n)
  /\ UNCHANGED <<head, faults>>

\* The message is not the next one: its job is superseded.
SupersedeBinding(w) ==
  /\ worker[w].at = "answered" /\ Job(w).kind = "message_binding"
  /\ Entitled(w) /\ ~IsNext(w)
  /\ Supersede(w)
  /\ UNCHANGED faults
-----------------------------------------------------------------------------
(* Primary agent proposals, reviews and effects.                           *)

\* admit_action rejects: nothing happens to the authority and the agent is
\* asked again.
Rejected(action) ==
  \/ case.lifecycle # "OPEN"
  \/ action = "REVISE_PLAN" /\ case.frame = 0
  \/ action = "PROPOSE_ANSWER" /\ case.plan = 0

\* record_frame_candidate raises unless the candidate it replaces has been
\* reviewed.
Replaceable == case.candidate = NoCandidate \/ case.candidate.review # "none"

Applicable(w) ==
  /\ answer[Job(w)] # "UNSOUND"
  /\ answer[Job(w)] = "REVISE_FRAME" => Replaceable

\* _commit_proposal of an action that leaves the case without a job.
CommitProposal(w) ==
  /\ worker[w].at = "answered" /\ Job(w).kind = "primary_agent"
  /\ Entitled(w) /\ ~IsStale(w)
  /\ \/ /\ Rejected(answer[Job(w)])
        /\ AuthorityStays(NoJob) /\ UNCHANGED case
        /\ Complete(w, "READY_FOR_AGENT", NoJob, checkpoint.cursor)
     \/ /\ ~Rejected(answer[Job(w)])
        /\ answer[Job(w)] = "REVISE_PLAN"
        /\ case' = [case EXCEPT !.plan = case.frame]
        /\ AuthorityChanges(NoJob)
        /\ Complete(w, "READY_FOR_AGENT", NoJob, checkpoint.cursor)
     \/ /\ ~Rejected(answer[Job(w)])
        /\ answer[Job(w)] = "PROPOSE_ANSWER"  \* its claims fail the precheck
        /\ AuthorityStays(NoJob) /\ UNCHANGED case
        /\ Complete(w, "READY_FOR_AGENT", NoJob, checkpoint.cursor)
     \/ /\ ~Rejected(answer[Job(w)])
        /\ answer[Job(w)] = "ASK_USER"
        /\ AuthorityStays(NoJob) /\ UNCHANGED case
        /\ Complete(w, "WAITING_FOR_USER", NoJob, checkpoint.cursor)
     \/ /\ ~Rejected(answer[Job(w)])
        /\ answer[Job(w)] = "STOP"
        /\ case' = [case EXCEPT !.lifecycle = "STOPPED"]
        /\ AuthorityChanges(NoJob)
        /\ Complete(w, "STOPPED", NoJob, checkpoint.cursor)
     \/ /\ ~Rejected(answer[Job(w)])
        /\ answer[Job(w)] = "CLOSE"
        /\ case' = [case EXCEPT !.lifecycle = "CLOSED"]
        /\ AuthorityChanges(NoJob)
        /\ Complete(w, "COMPLETED", NoJob, checkpoint.cursor)
  /\ UNCHANGED <<head, faults>>

\* _commit_proposal of an action that enqueues the next job.
CommitProposalWithJob(w) ==
  /\ worker[w].at = "answered" /\ Job(w).kind = "primary_agent"
  /\ Entitled(w) /\ ~IsStale(w)
  /\ ~Rejected(answer[Job(w)]) /\ Applicable(w)
  /\ \/ /\ answer[Job(w)] = "REVISE_FRAME"
        /\ case' = [case EXCEPT !.candidate = [question |-> case.question,
                                               review |-> "none"]]
        /\ AuthorityChanges(System("reviewer"))
        /\ CompleteAndEnqueue(w, System("reviewer"))
     \/ /\ answer[Job(w)] = "PROPOSE_ANSWER"
        /\ AuthorityChanges(System("answer_review")) /\ UNCHANGED case
        /\ CompleteAndEnqueue(w, System("answer_review"))
     \/ /\ answer[Job(w)] = "RUN_EFFECT"
        /\ AuthorityStays(System("effect")) /\ UNCHANGED case
        /\ CompleteAndEnqueue(w, System("effect"))
  /\ UNCHANGED <<head, faults>>

\* _commit_frame_review: an accepting review makes the candidate the frame.
\* One that is UNGROUNDED cannot be committed.
CommitFrameReview(w) ==
  /\ worker[w].at = "answered" /\ Job(w).kind = "reviewer"
  /\ Entitled(w) /\ ~IsStale(w)
  /\ \/ /\ answer[Job(w)] = "ACCEPT"
        /\ case' = [case EXCEPT !.candidate.review = "ACCEPT", !.plan = 0,
                                !.frame = case.candidate.question]
        /\ AuthorityChanges(NoJob)
     \/ /\ answer[Job(w)] = "BLOCK"
        /\ case' = [case EXCEPT !.candidate.review = "BLOCK"]
        /\ AuthorityStays(NoJob)
  /\ Complete(w, "READY_FOR_AGENT", NoJob, checkpoint.cursor)
  /\ UNCHANGED <<head, faults>>

\* A proposal or a review of a stale job, at its commit.
SupersedeAnswered(w) ==
  /\ worker[w].at = "answered"
  /\ Job(w).kind \in {"primary_agent", "reviewer"}
  /\ Entitled(w) /\ IsStale(w)
  /\ Supersede(w)
  /\ UNCHANGED faults

\* _commit_effect_attempt, success or terminal failure.
CommitEffect(w) ==
  /\ worker[w].at = "calling" /\ Job(w).kind = "effect"
  /\ Entitled(w) /\ ~IsStale(w)
  /\ \E how \in {"COMPLETED", "TERMINAL_FAILURE"} :
       EnqueueNothing(Disposed(Job(w), how))
  /\ Checkpoint(w, "READY_FOR_AGENT", NoJob, checkpoint.cursor, NoJob)
  /\ UNCHANGED <<head, case, stale, faults>>

\* A retryable failure: the case goes on waiting for the same job.
CommitEffectRetry(w) ==
  /\ worker[w].at = "calling" /\ Job(w).kind = "effect"
  /\ Entitled(w) /\ ~IsStale(w)
  /\ Fault
  /\ Checkpoint(w, checkpoint.phase, checkpoint.pending, checkpoint.cursor,
                NoJob)
  /\ UNCHANGED <<head, case, outbox, stale, answer, lease>>

SupersedeEffect(w) ==
  /\ worker[w].at = "calling" /\ Job(w).kind = "effect"
  /\ Entitled(w) /\ IsStale(w)
  /\ Supersede(w)
  /\ UNCHANGED faults

\* _commit_provider_failure: the case is blocked, the cursor stays.
CommitProviderFailure(w) ==
  /\ MayFail
  /\ worker[w].at = "calling" /\ Job(w).kind \in ModelKinds
  /\ Entitled(w) /\ answer[Job(w)] = "none"
  /\ IF IsStale(w) THEN Supersede(w)
     ELSE /\ EnqueueNothing(Disposed(Job(w), "TERMINAL_FAILURE"))
          /\ Checkpoint(w, "BLOCKED", NoJob, checkpoint.cursor, NoJob)
          /\ UNCHANGED <<head, case, stale>>
  /\ UNCHANGED faults
-----------------------------------------------------------------------------
\* The transaction of a commit raises and is rolled back.
CommitRaises(w) ==
  \/ ~Entitled(w)
  \/ worker[w].at = "superseding" /\ ~Supersedable(w)
  \/ /\ worker[w].at = "answered" /\ Job(w).kind = "message_binding"
     /\ IF IsNext(w) THEN ~Bindable(w) ELSE ~Supersedable(w)
  \/ /\ worker[w].at = "answered" /\ Job(w).kind # "message_binding"
     /\ IF IsStale(w) THEN ~Supersedable(w)
        ELSE \/ answer[Job(w)] = "UNGROUNDED"
             \/ ~Rejected(answer[Job(w)]) /\ ~Applicable(w)
  \/ /\ worker[w].at = "calling" /\ IsStale(w) /\ ~Supersedable(w)
     /\ (Job(w).kind = "effect" \/ MayFail)

\* The delivery leaves through its finally.
GiveUp(w) ==
  /\ worker[w].at \in {"calling", "answered", "superseding"}
  /\ CommitRaises(w)
  /\ worker' = [worker EXCEPT ![w] = Finished(@)]
  /\ UNCHANGED <<mailboxVars, jobVars, case, checkpoint, lease, faults>>

Release(w) ==
  /\ worker[w].at = "releasing"
  /\ lease' = IF lease[Job(w)] = w THEN [lease EXCEPT ![Job(w)] = "nobody"]
              ELSE lease
  /\ worker' = [worker EXCEPT ![w] = Idle]
  /\ UNCHANGED <<mailboxVars, jobVars, case, checkpoint, faults>>

\* The process of a delivery dies; its lease lives on until it expires.
Crash(w) ==
  /\ Fault
  /\ worker[w].at # "idle"
  /\ lease' = IF lease[Job(w)] = w THEN [lease EXCEPT ![Job(w)] = "dead"]
              ELSE lease
  /\ worker' = [worker EXCEPT ![w] = Idle]
  /\ UNCHANGED <<mailboxVars, jobVars, case, checkpoint>>

\* The lease of a delivery that goes on expires, or a lease of a dead one.
LoseLease(w) ==
  /\ Fault
  /\ worker[w].at # "idle" /\ lease[Job(w)] = w
  /\ lease' = [lease EXCEPT ![Job(w)] = "nobody"]
  /\ UNCHANGED <<mailboxVars, jobVars, case, checkpoint, worker>>

DeadLeaseExpires(j) ==
  /\ lease[j] = "dead"
  /\ lease' = [lease EXCEPT ![j] = "nobody"]
  /\ UNCHANGED <<mailboxVars, jobVars, case, checkpoint, worker, faults>>
-----------------------------------------------------------------------------
DeliveryStep(w) ==
  \/ Load(w)
  \/ Acquire(w)
  \/ CannotAcquire(w)
  \/ ModelAnswers(w)
  \/ ModelAnswersTooLate(w)
  \/ SupersedeStale(w)
  \/ CommitMessageBinding(w)
  \/ SupersedeBinding(w)
  \/ CommitProposal(w)
  \/ CommitProposalWithJob(w)
  \/ CommitFrameReview(w)
  \/ SupersedeAnswered(w)
  \/ CommitEffect(w)
  \/ SupersedeEffect(w)
  \/ CommitProviderFailure(w)
  \/ GiveUp(w)
  \/ Release(w)

ControllerStep ==
  \/ AdvanceMailbox
  \/ EnqueuePrimaryAgentJob

Next ==
  \/ IngressMessage
  \/ SubmitUserDecision
  \/ RecordUserDecision
  \/ ControllerStep
  \/ AdvanceAgain
  \/ \E w \in Workers :
       DeliveryStep(w) \/ CommitEffectRetry(w) \/ Crash(w) \/ LoseLease(w)
  \/ \E j \in Jobs : DeadLeaseExpires(j)

\* Somebody advances the case and delivers its pending job, and the leases of
\* dead workers expire.  Users, faults and needless wakes are not fair.
Fairness ==
  /\ WF_vars(ControllerStep)
  /\ \A w \in Workers : WF_vars(DeliveryStep(w))
  /\ \A j \in Jobs : WF_vars(DeadLeaseExpires(j))

Spec == Init /\ [][Next]_vars /\ Fairness
-----------------------------------------------------------------------------
\* The checkpoint names the open work: the job it waits for has no
\* disposition yet, and no other agent, review or effect job is open, so no
\* job is lost and none is left behind when the case moves on.
CheckpointNamesOpenWork ==
  /\ checkpoint.pending # NoJob =>
       /\ outbox[checkpoint.pending] = "pending"
       /\ checkpoint.phase = WaitingFor(checkpoint.pending.kind)
  /\ \A j \in SystemJobs : outbox[j] = "pending" => j = checkpoint.pending

\* What is accepted belongs together: the frame, the frame candidate and the
\* plan were made for the question that is accepted now.
AuthorityIsCoherent ==
  /\ case.frame \in {0, case.question}
  /\ case.plan \in {0, case.frame}
  /\ case.candidate # NoCandidate => case.candidate.question = case.question
  /\ case.frame # 0 => case.candidate # NoCandidate

\* Messages are bound one by one in their order: the bound ones are those up
\* to the cursor, whoever delivered them and whatever was superseded.
BoundUpToCursor ==
  \A n \in Sequences :
    outbox[Binding(n)] = "COMPLETED" <=> n <= checkpoint.cursor

\* A message fences the work in flight: no agent, review or effect job is
\* completed while the mailbox holds a message it could not know.
NewMessageFences ==
  [][\A j \in SystemJobs :
       outbox[j] = "pending" /\ outbox'[j] = "COMPLETED"
         => head = checkpoint.cursor]_vars

\* A disposition is final: the binding job of a message that is bound, failed
\* or superseded is never disposed a second time, whoever still delivers it.
DispositionsAreFinal ==
  [][\A n \in Sequences :
       outbox[Binding(n)] \in Dispositions
         => outbox'[Binding(n)] = outbox[Binding(n)]]_vars

\* A message whose binding was superseded or failed for good is lost, and the
\* case with it: that message and the later ones stay unbound, and no agent,
\* review or effect job is completed any more, whatever users and workers do
\* (_commit_message_binding wants the message after the cursor, _job_is_stale
\* sees a mailbox that is ahead, nobody enqueues a binding again).
LostMessageEndsTheCase ==
  [][\A n \in Sequences :
       outbox[Binding(n)] \in {"SUPERSEDED", "TERMINAL_FAILURE"} =>
         /\ checkpoint'.cursor < n
         /\ \A j \in SystemJobs :
              outbox'[j] = "COMPLETED" => outbox[j] = "COMPLETED"]_vars

\* No message is skipped: as long as a message is not bound, its binding job
\* is there to be delivered.
NoMessageIsSkipped ==
  \A n \in checkpoint.cursor + 1 .. head : outbox[Binding(n)] = "pending"

\* Every message is bound in the end.
MessagesAreBound ==
  \A n \in Sequences : n <= head ~> checkpoint.cursor >= n

\* Every job the controller waits for reaches a disposition, unless its durable
\* answer is one that cannot be applied and is replayed by every delivery: an
\* unsound proposal, or a review that accepts a frame without grounds.
JobsSettle ==
  \A j \in Jobs :
    outbox[j] = "pending"
      ~> outbox[j] # "pending" \/ answer[j] \in {"UNSOUND", "UNGROUNDED"}
=============================================================================
