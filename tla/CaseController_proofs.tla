----------------------- MODULE CaseController_proofs -----------------------
(***************************************************************************)
(* Machine-checked facts about CaseController, for every set of workers,   *)
(* every number of messages and of faults, whatever messages mean, agents  *)
(* propose and models fail.                                                *)
(***************************************************************************)
EXTENDS CaseController, WellFoundedInduction, TLAPS

\* A delivery is a delivery of a job.
BusyHasJob ==
  \A w \in Workers : worker[w].at # "idle" => worker[w].job \in Jobs

\* The cursor never runs ahead of the mailbox, and what is not in the mailbox
\* has no binding job.
FutureIsAbsent ==
  /\ checkpoint.cursor <= head
  /\ \A n \in Sequences : n > head => outbox[Binding(n)] = "absent"

\* A delivery whose checkpoint is still the latest delivers what that
\* checkpoint waits for, and supersedes it only if it is stale.
ViewIsCurrent ==
  \A w \in Workers :
    worker[w].at # "idle" /\ worker[w].view = "same" =>
      /\ worker[w].job = checkpoint.pending
      /\ worker[w].at = "superseding" => worker[w].job \in stale \cap SystemJobs

\* Without a new message the job the case waits for is up to date.
FreshWhenCaughtUp ==
  head = checkpoint.cursor => checkpoint.pending \notin stale

\* An open job that is not stale has seen every message.
FreshJobsAreCurrent ==
  \A j \in SystemJobs :
    outbox[j] = "pending" /\ j \notin stale => head = checkpoint.cursor

\* A decision between its two transactions is an unbound message of a case
\* that still waits for its user.
DecisionIsAhead ==
  decision # 0 =>
    /\ decision \in checkpoint.cursor + 1 .. head
    /\ outbox[Binding(decision)] = "pending"
    /\ checkpoint.phase = "WAITING_FOR_USER"

\* Questions are accepted with messages, and the first message brings one.
QuestionsAreBound ==
  /\ case.question <= checkpoint.cursor
  /\ checkpoint.cursor > 0 => case.question > 0

\* A review that is up to date is the review of a candidate.
FreshReviewHasCandidate ==
  outbox[System("reviewer")] = "pending" /\ System("reviewer") \notin stale
    => case.candidate # NoCandidate

WorkIsTracked ==
  /\ BusyHasJob
  /\ FutureIsAbsent
  /\ BoundUpToCursor
  /\ ViewIsCurrent
  /\ FreshWhenCaughtUp
  /\ FreshJobsAreCurrent
  /\ DecisionIsAhead
  /\ CheckpointNamesOpenWork

AuthorityIsTracked ==
  /\ QuestionsAreBound
  /\ FreshReviewHasCandidate
  /\ AuthorityIsCoherent

IInv == TypeOK /\ WorkIsTracked /\ AuthorityIsTracked
-----------------------------------------------------------------------------
(* Jobs, and how one of them is selected.                                  *)

LEMMA BindingJobs ==
  ASSUME NEW n \in Sequences
  PROVE  /\ Binding(n) \in Jobs \ SystemJobs
         /\ Binding(n).n = n
         /\ Binding(n).kind = "message_binding"
BY DEF Jobs, SystemJobs, SystemKinds, System, Binding

LEMMA BindingsDiffer ==
  ASSUME NEW m, NEW n, m # n
  PROVE  Binding(m) # Binding(n)
BY DEF Binding

LEMMA SystemJobsAreJobs ==
  /\ SystemJobs \subseteq Jobs
  /\ NoJob \notin Jobs
  /\ \A kind \in SystemKinds :
       System(kind) \in SystemJobs /\ System(kind).kind = kind
BY DEF Jobs, SystemJobs, SystemKinds, System, Binding, NoJob

\* A job that binds a message is the binding of its message, any other is the
\* system job of its kind.
LEMMA JobsAreNamed ==
  ASSUME NEW j \in Jobs
  PROVE  /\ j.kind = "message_binding" =>
              j.n \in Sequences /\ j = Binding(j.n) /\ j \notin SystemJobs
         /\ j.kind # "message_binding" =>
              j \in SystemJobs /\ j.kind \in SystemKinds /\ j = System(j.kind)
BY DEF Jobs, SystemJobs, SystemKinds, System, Binding

\* A non-empty set of messages has a first one.
LEMMA FirstIsMember ==
  ASSUME NEW ns \in SUBSET Nat, ns # {}
  PROVE  First(ns) \in ns
<1>1. PICK n \in ns : \A m \in ns : <<m, n>> \notin OpToRel(<, Nat)
  BY NatLessThanWellFounded, WFMin, Zenon
<1>2. \A m \in Nat : m < n => <<m, n>> \in OpToRel(<, Nat)
  BY DEF OpToRel
<1>3. \A m \in ns : n <= m
  <2> TAKE m \in ns
  <2>1. ~(m < n)
    BY <1>1, <1>2
  <2> QED BY <2>1
<1> QED BY <1>3 DEF First

LEMMA PhaseOfJob ==
  ASSUME NEW j \in Jobs
  PROVE  /\ WaitingFor(j.kind) \in ControllerPhase
         /\ WaitingFor(j.kind) \notin {"READY_FOR_AGENT", "WAITING_FOR_USER"}
<1>1. j.kind \in SystemKinds \cup {"message_binding"}
  BY JobsAreNamed
<1> QED BY <1>1 DEF WaitingFor, SystemKinds, ControllerPhase

-----------------------------------------------------------------------------
(* The transactions the commits are made of.                               *)

\* After a checkpoint no other delivery has the latest one, and no decision is
\* due.
LEMMA CheckpointEffect ==
  ASSUME TypeOK, BusyHasJob,
         NEW w, w \in Workers => worker[w].at # "idle",
         NEW phase \in ControllerPhase, NEW pending \in Jobs \cup {NoJob},
         NEW cursor \in 0 .. MaxMessages, NEW new,
         Checkpoint(w, phase, pending, cursor, new)
  PROVE  /\ checkpoint' \in Checkpoints
         /\ worker' \in [Workers -> Deliveries]
         /\ decision' \in 0 .. MaxMessages
         /\ BusyHasJob' /\ ViewIsCurrent' /\ DecisionIsAhead'
<1>1. checkpoint' \in Checkpoints
  BY DEF Checkpoint, Checkpoints
<1>2. decision' \in 0 .. MaxMessages /\ DecisionIsAhead'
  BY MaxMessagesAssumption DEF Checkpoint, DecisionIsAhead
<1>3. ASSUME NEW v \in Workers
      PROVE  /\ worker'[v] \in Deliveries
             /\ worker'[v].at # "idle" =>
                  worker'[v].job \in Jobs /\ worker'[v].view # "same"
  <2>1. worker[v] \in Deliveries
    BY DEF TypeOK
  <2>2. CASE v = w
    <3>1. worker'[v] = Finished(worker[v])
      BY <2>2 DEF Checkpoint
    <3>2. worker[v].job \in Jobs
      BY <2>2 DEF BusyHasJob
    <3> QED BY <2>1, <3>1, <3>2 DEF Finished, Deliveries
  <2>3. CASE v # w
    <3>1. worker'[v] = Outdated(worker[v], new)
      BY <2>3 DEF Checkpoint
    <3>2. CASE worker[v].at = "idle"
      BY <2>1, <3>1, <3>2 DEF Outdated
    <3>3. CASE worker[v].at # "idle"
      <4>1. worker[v].job \in Jobs
        BY <3>3 DEF BusyHasJob
      <4> QED BY <2>1, <3>1, <3>3, <4>1 DEF Outdated, Deliveries
    <3> QED BY <3>2, <3>3
  <2> QED BY <2>2, <2>3
<1>4. worker' = [v \in Workers |-> worker'[v]]
  BY DEF Checkpoint
<1>5. worker' \in [Workers -> Deliveries]
  BY <1>3, <1>4
<1> QED BY <1>1, <1>2, <1>3, <1>5 DEF BusyHasJob, ViewIsCurrent

\* What a commit knows of the job it disposes.
LEMMA EntitledJob ==
  ASSUME IInv, NEW w \in Workers, worker[w].at # "idle", Entitled(w)
  PROVE  /\ Job(w) \in Jobs
         /\ Job(w) = checkpoint.pending
         /\ outbox[Job(w)] = "pending"
         /\ Job(w).kind = "message_binding" =>
              Job(w).n \in checkpoint.cursor + 1 .. head
         /\ Job(w) \in stale => head > checkpoint.cursor
         /\ \A j \in SystemJobs : j # Job(w) => outbox[j] # "pending"
<1> USE DEF IInv, WorkIsTracked
<1>1. Job(w) \in Jobs /\ Job(w) = checkpoint.pending
  BY DEF BusyHasJob, ViewIsCurrent, Entitled, Job
<1>2. outbox[Job(w)] = "pending"
  BY DEF Entitled
<1>3. ASSUME Job(w).kind = "message_binding"
      PROVE  Job(w).n \in checkpoint.cursor + 1 .. head
  <2>1. Job(w).n \in Sequences /\ Job(w) = Binding(Job(w).n)
    BY <1>1, <1>3, JobsAreNamed
  <2>2. ~(Job(w).n > head)
    BY <1>2, <2>1 DEF FutureIsAbsent
  <2>3. ~(Job(w).n <= checkpoint.cursor)
    BY <1>2, <2>1 DEF BoundUpToCursor
  <2> QED BY <2>1, <2>2, <2>3, MaxMessagesAssumption
          DEF Sequences, TypeOK, Checkpoints
<1>4. Job(w) \in stale => head > checkpoint.cursor
  BY <1>1, MaxMessagesAssumption
  DEF FreshWhenCaughtUp, FutureIsAbsent, TypeOK, Sequences, Checkpoints
<1>5. \A j \in SystemJobs : j # Job(w) => outbox[j] # "pending"
  BY <1>1 DEF CheckpointNamesOpenWork
<1> QED BY <1>1, <1>2, <1>3, <1>4, <1>5

\* A commit that enqueues nothing: it leaves no agent, review or effect job
\* open, and if it completes a binding, that message is the next one.
LEMMA CompletionStep ==
  ASSUME IInv, NEW w \in Workers, worker[w].at # "idle", Entitled(w),
         NEW how \in Dispositions, NEW phase \in ControllerPhase,
         NEW cursor \in 0 .. MaxMessages,
         \/ /\ Job(w).kind = "message_binding" /\ how = "COMPLETED"
            /\ cursor = checkpoint.cursor + 1 /\ Job(w).n = cursor
         \/ /\ cursor = checkpoint.cursor
            /\ Job(w).kind # "message_binding" \/ how # "COMPLETED",
         EnqueueNothing(Disposed(Job(w), how)),
         Checkpoint(w, phase, NoJob, cursor, NoJob),
         head' = head, case' \in Cases, stale' \subseteq Jobs,
         faults' \in 0 .. MaxFaults
  PROVE  /\ TypeOK' /\ WorkIsTracked'
         /\ \A j \in SystemJobs : outbox'[j] # "pending"
         /\ checkpoint'.cursor = cursor
<1>1. /\ Job(w) \in Jobs
      /\ outbox[Job(w)] = "pending"
      /\ Job(w).kind = "message_binding" =>
           Job(w).n \in checkpoint.cursor + 1 .. head
      /\ \A j \in SystemJobs : j # Job(w) => outbox[j] # "pending"
  BY EntitledJob
<1>2. /\ checkpoint' \in Checkpoints
      /\ worker' \in [Workers -> Deliveries]
      /\ decision' \in 0 .. MaxMessages
      /\ BusyHasJob' /\ ViewIsCurrent' /\ DecisionIsAhead'
  <2>1. TypeOK /\ BusyHasJob
    BY DEF IInv, WorkIsTracked
  <2>2. NoJob \in Jobs \cup {NoJob}
    OBVIOUS
  <2> QED BY <2>1, <2>2, CheckpointEffect
<1>3. checkpoint'.cursor = cursor /\ checkpoint'.pending = NoJob
  BY DEF Checkpoint
<1>4. outbox' = [outbox EXCEPT ![Job(w)] = how]
  BY DEF EnqueueNothing, Disposed
<1>5. outbox \in [Jobs -> Dispositions \cup {"absent", "pending"}]
  BY DEF IInv, TypeOK
<1>6. \A j \in Jobs : outbox'[j] = IF j = Job(w) THEN how ELSE outbox[j]
  BY <1>1, <1>4, <1>5
<1>7. TypeOK'
  <2>1. outbox' \in [Jobs -> Dispositions \cup {"absent", "pending"}]
    BY <1>4, <1>5
  <2> QED BY <1>2, <2>1 DEF IInv, TypeOK, EnqueueNothing
<1>8. \A j \in SystemJobs : outbox'[j] # "pending"
  BY <1>1, <1>6, SystemJobsAreJobs DEF Dispositions
<1>9. FutureIsAbsent'
  <2>1. /\ checkpoint.cursor \in Nat /\ checkpoint.cursor <= head
        /\ head \in Nat
    BY MaxMessagesAssumption
    DEF IInv, TypeOK, Checkpoints, WorkIsTracked, FutureIsAbsent, Sequences
  <2>2. cursor <= head
    BY <1>1, <2>1
  <2>3. ASSUME NEW n \in Sequences, n > head
        PROVE  outbox'[Binding(n)] = "absent"
    <3>1. Binding(n) \in Jobs /\ outbox[Binding(n)] = "absent"
      BY <2>3, BindingJobs DEF IInv, WorkIsTracked, FutureIsAbsent
    <3> QED BY <1>1, <1>6, <3>1
  <2> QED BY <1>3, <2>2, <2>3 DEF FutureIsAbsent
<1>10. BoundUpToCursor'
  <2> SUFFICES ASSUME NEW n \in Sequences
               PROVE  outbox'[Binding(n)] = "COMPLETED" <=> n <= cursor
    BY <1>3 DEF BoundUpToCursor
  <2>1. /\ Binding(n) \in Jobs
        /\ Binding(n).n = n /\ Binding(n).kind = "message_binding"
    BY BindingJobs
  <2>2. outbox[Binding(n)] = "COMPLETED" <=> n <= checkpoint.cursor
    BY DEF IInv, WorkIsTracked, BoundUpToCursor
  <2>3. checkpoint.cursor \in Nat /\ n \in Nat /\ cursor \in Nat
    BY MaxMessagesAssumption DEF IInv, TypeOK, Checkpoints, Sequences
  <2>4. CASE Binding(n) = Job(w)
    BY <1>1, <1>6, <2>1, <2>2, <2>3, <2>4
  <2>5. CASE Binding(n) # Job(w)
    <3>1. CASE Job(w).kind = "message_binding"
      <4>1. Job(w) = Binding(Job(w).n)
        BY <1>1, <3>1, JobsAreNamed
      <4>2. Job(w).n # n
        BY <2>5, <4>1
      <4> QED BY <1>6, <2>1, <2>2, <2>3, <2>5, <4>2
    <3>2. CASE Job(w).kind # "message_binding"
      BY <1>6, <2>1, <2>2, <2>5, <3>2
    <3> QED BY <3>1, <3>2
  <2> QED BY <2>4, <2>5
<1>11. FreshWhenCaughtUp' /\ FreshJobsAreCurrent' /\ CheckpointNamesOpenWork'
  BY <1>3, <1>8, SystemJobsAreJobs
  DEF FreshWhenCaughtUp, FreshJobsAreCurrent, CheckpointNamesOpenWork
<1> QED BY <1>2, <1>3, <1>7, <1>8, <1>9, <1>10, <1>11 DEF WorkIsTracked

\* A commit that enqueues the next agent, review or effect job.
LEMMA CompletionWithJobStep ==
  ASSUME IInv, NEW w \in Workers, worker[w].at # "idle", Entitled(w),
         ~IsStale(w), Job(w).kind # "message_binding",
         NEW next \in SystemJobs, CompleteAndEnqueue(w, next),
         head' = head, case' \in Cases, stale' \subseteq Jobs \ {next},
         faults' \in 0 .. MaxFaults
  PROVE  /\ TypeOK' /\ WorkIsTracked'
         /\ \A j \in SystemJobs : outbox'[j] = "pending" => j = next
         /\ checkpoint'.cursor = checkpoint.cursor
         /\ head = checkpoint.cursor
<1>1. /\ Job(w) \in Jobs
      /\ outbox[Job(w)] = "pending"
      /\ \A j \in SystemJobs : j # Job(w) => outbox[j] # "pending"
  BY EntitledJob
<1>2. Job(w) \in SystemJobs /\ next \in Jobs
  BY <1>1, JobsAreNamed, SystemJobsAreJobs
<1>3. head = checkpoint.cursor
  BY <1>1, <1>2 DEF IInv, WorkIsTracked, FreshJobsAreCurrent, IsStale
<1>4. /\ checkpoint' \in Checkpoints
      /\ worker' \in [Workers -> Deliveries]
      /\ decision' \in 0 .. MaxMessages
      /\ BusyHasJob' /\ ViewIsCurrent' /\ DecisionIsAhead'
  <2>1. TypeOK /\ BusyHasJob /\ checkpoint.cursor \in 0 .. MaxMessages
    BY DEF IInv, WorkIsTracked, TypeOK, Checkpoints
  <2>2. next \in Jobs \cup {NoJob} /\ WaitingFor(next.kind) \in ControllerPhase
    BY <1>2, PhaseOfJob
  <2>3. Checkpoint(w, WaitingFor(next.kind), next, checkpoint.cursor, next)
    BY DEF CompleteAndEnqueue
  <2> QED BY <2>1, <2>2, <2>3, CheckpointEffect
<1>5. /\ checkpoint'.cursor = checkpoint.cursor
      /\ checkpoint'.pending = next
      /\ checkpoint'.phase = WaitingFor(next.kind)
  BY DEF CompleteAndEnqueue, Checkpoint
<1>6. /\ outbox' = [[outbox EXCEPT ![Job(w)] = "COMPLETED"]
                      EXCEPT ![next] = "pending"]
      /\ answer' = [answer EXCEPT ![next] = "none"]
      /\ lease' = [lease EXCEPT ![next] = "nobody"]
  BY DEF CompleteAndEnqueue, Enqueue, Disposed
<1>7. /\ outbox \in [Jobs -> Dispositions \cup {"absent", "pending"}]
      /\ answer \in [Jobs -> Answers]
      /\ lease \in [Jobs -> Workers \cup {"nobody", "dead"}]
  BY DEF IInv, TypeOK
<1>8. \A j \in Jobs : outbox'[j] = IF j = next THEN "pending"
                                  ELSE IF j = Job(w) THEN "COMPLETED"
                                  ELSE outbox[j]
  BY <1>1, <1>2, <1>6, <1>7
<1>9. TypeOK'
  <2>1. outbox' \in [Jobs -> Dispositions \cup {"absent", "pending"}]
    BY <1>6, <1>7 DEF Dispositions
  <2>2. answer' \in [Jobs -> Answers]
    BY <1>6, <1>7 DEF Answers
  <2>3. lease' \in [Jobs -> Workers \cup {"nobody", "dead"}]
    BY <1>6, <1>7
  <2> QED BY <1>4, <2>1, <2>2, <2>3 DEF IInv, TypeOK
<1>10. \A j \in SystemJobs : outbox'[j] = "pending" => j = next
  BY <1>1, <1>8, SystemJobsAreJobs
<1>11. \A n \in Sequences : outbox'[Binding(n)] = outbox[Binding(n)]
  BY <1>2, <1>8, BindingJobs
<1>12. FutureIsAbsent' /\ BoundUpToCursor'
  BY <1>5, <1>11 DEF IInv, WorkIsTracked, FutureIsAbsent, BoundUpToCursor
<1>13. FreshWhenCaughtUp' /\ FreshJobsAreCurrent' /\ CheckpointNamesOpenWork'
  BY <1>2, <1>3, <1>5, <1>8, <1>10
  DEF FreshWhenCaughtUp, FreshJobsAreCurrent, CheckpointNamesOpenWork
<1> QED BY <1>3, <1>4, <1>5, <1>9, <1>10, <1>12, <1>13 DEF WorkIsTracked

\* The reconciliation with a mailbox that is ahead: the case waits for the
\* binding of an unbound message and for nothing else.
LEMMA ReconcileStep ==
  ASSUME IInv, NEW w, w \in Workers => worker[w].at # "idle",
         NEW ob \in [Jobs -> Dispositions \cup {"absent", "pending"}],
         \A j \in Jobs :
           ob[j] = outbox[j] \/ (outbox[j] = "pending" /\ ob[j] = "SUPERSEDED"),
         head > checkpoint.cursor, Reconcile(w, ob), faults' \in 0 .. MaxFaults
  PROVE  /\ TypeOK' /\ WorkIsTracked'
         /\ \A j \in SystemJobs : outbox'[j] # "pending"
         /\ checkpoint'.cursor = checkpoint.cursor
<1> DEFINE n == First(Unbound(ob))
           selected == Binding(n)
<1>1. head \in Sequences /\ checkpoint.cursor \in 0 .. MaxMessages
  BY DEF IInv, TypeOK, Checkpoints
<1>2. head # checkpoint.cursor
  BY <1>1, MaxMessagesAssumption DEF Sequences
<1>3. Unbound(ob) # {} /\ Unbound(ob) \subseteq Nat
  BY <1>1, <1>2, MaxMessagesAssumption
  DEF Reconcile, Reconcilable, Unbound, Sequences
<1>4. n \in checkpoint.cursor + 1 .. head /\ ob[selected] = "pending"
  <2>1. n \in Unbound(ob)
    BY <1>3, FirstIsMember
  <2> QED BY <2>1 DEF Unbound
<1>5. n \in Sequences
  BY <1>1, <1>4, MaxMessagesAssumption DEF Sequences
<1>6. /\ selected \in Jobs \ SystemJobs
      /\ selected.kind = "message_binding"
  BY <1>5, BindingJobs
<1>7. /\ EnqueueNothing(Superseded(ob, selected))
      /\ Checkpoint(w, "WAITING_FOR_MESSAGE_BINDING", selected,
                    checkpoint.cursor, NoJob)
      /\ UNCHANGED <<head, case, stale>>
  BY <1>2 DEF Reconcile
<1> HIDE DEF n, selected
<1>8. /\ checkpoint' \in Checkpoints
      /\ worker' \in [Workers -> Deliveries]
      /\ decision' \in 0 .. MaxMessages
      /\ BusyHasJob' /\ ViewIsCurrent' /\ DecisionIsAhead'
  <2>1. TypeOK /\ BusyHasJob
    BY DEF IInv, WorkIsTracked
  <2>2. "WAITING_FOR_MESSAGE_BINDING" \in ControllerPhase
    BY DEF ControllerPhase
  <2>3. selected \in Jobs \cup {NoJob}
    BY <1>6
  <2> QED BY <1>1, <1>7, <2>1, <2>2, <2>3, CheckpointEffect
<1>9. /\ checkpoint'.cursor = checkpoint.cursor
      /\ checkpoint'.pending = selected
      /\ checkpoint'.phase = "WAITING_FOR_MESSAGE_BINDING"
  BY <1>7 DEF Checkpoint
<1>10. /\ outbox' = Superseded(ob, selected)
       /\ answer' = answer /\ lease' = lease
  BY <1>7 DEF EnqueueNothing
<1>11. outbox' \in [Jobs -> Dispositions \cup {"absent", "pending"}]
  BY <1>10 DEF Superseded, Dispositions
<1>12. \A j \in Jobs :
         outbox'[j] = IF j = checkpoint.pending /\ j # selected
                         /\ ob[j] = "pending"
                      THEN "SUPERSEDED" ELSE ob[j]
  BY <1>10 DEF Superseded
<1>13. TypeOK'
  BY <1>7, <1>8, <1>10, <1>11 DEF IInv, TypeOK
<1>14. \A j \in SystemJobs : outbox'[j] # "pending"
  <2> SUFFICES ASSUME NEW j \in SystemJobs, outbox'[j] = "pending"
               PROVE  FALSE
    OBVIOUS
  <2>1. j \in Jobs /\ j # selected
    BY <1>6, SystemJobsAreJobs
  <2>2. ob[j] = "pending" /\ j # checkpoint.pending
    BY <1>12, <2>1
  <2>3. outbox[j] = "pending"
    BY <2>1, <2>2
  <2> QED BY <2>2, <2>3 DEF IInv, WorkIsTracked, CheckpointNamesOpenWork
<1>15. \A m \in Sequences :
         /\ outbox[Binding(m)] = "absent" => outbox'[Binding(m)] = "absent"
         /\ outbox'[Binding(m)] = "COMPLETED" <=>
              outbox[Binding(m)] = "COMPLETED"
  BY <1>12, BindingJobs
<1>16. FutureIsAbsent' /\ BoundUpToCursor'
  BY <1>7, <1>9, <1>15
  DEF IInv, WorkIsTracked, FutureIsAbsent, BoundUpToCursor
<1>17. CheckpointNamesOpenWork'
  <2>1. outbox'[selected] = "pending"
    BY <1>4, <1>6, <1>12
  <2>2. WaitingFor("message_binding") = "WAITING_FOR_MESSAGE_BINDING"
    BY DEF WaitingFor
  <2> QED BY <1>6, <1>9, <1>14, <2>1, <2>2 DEF CheckpointNamesOpenWork
<1>18. FreshWhenCaughtUp' /\ FreshJobsAreCurrent'
  BY <1>2, <1>7, <1>9, <1>14 DEF FreshWhenCaughtUp, FreshJobsAreCurrent
<1> QED BY <1>8, <1>9, <1>13, <1>14, <1>16, <1>17, <1>18 DEF WorkIsTracked

-----------------------------------------------------------------------------
(* The inductive invariant: its start, and the steps of users, of the      *)
(* dispatcher and of deliveries that commit nothing.                       *)

LEMMA InvInit == Init => IInv
<1> SUFFICES ASSUME Init PROVE IInv
  OBVIOUS
<1>1. 1 \in Sequences /\ 0 \in 0 .. MaxMessages /\ 0 \in 0 .. MaxFaults
  BY MaxMessagesAssumption, MaxFaultsAssumption DEF Sequences
<1>2. Binding(1) \in Jobs \ SystemJobs /\ Binding(1).kind = "message_binding"
  BY <1>1, BindingJobs
<1>3. NoCandidate \in Candidates
  BY <1>1 DEF NoCandidate, Candidates
<1>4. TypeOK
  <2>1. case \in Cases
    BY <1>1, <1>3 DEF Init, Cases
  <2>2. checkpoint \in Checkpoints
    BY <1>1, <1>2 DEF Init, Checkpoints, ControllerPhase
  <2>3. worker \in [Workers -> Deliveries]
    BY DEF Init, Idle, Deliveries
  <2> QED BY <1>1, <2>1, <2>2, <2>3 DEF Init, TypeOK, Answers
<1>5. FutureIsAbsent /\ BoundUpToCursor
  <2>1. \A n \in Sequences : Binding(n) \in Jobs /\ (n > 1 => Binding(n) # Binding(1))
    BY BindingJobs, BindingsDiffer
  <2> QED BY <2>1 DEF Init, FutureIsAbsent, BoundUpToCursor, Sequences
<1>6. CheckpointNamesOpenWork
  <2>1. WaitingFor("message_binding") = "WAITING_FOR_MESSAGE_BINDING"
    BY DEF WaitingFor
  <2> QED BY <1>2, <2>1, SystemJobsAreJobs DEF Init, CheckpointNamesOpenWork
<1>7. FreshJobsAreCurrent /\ FreshReviewHasCandidate
  <2>1. \A j \in SystemJobs : outbox[j] # "pending"
    BY <1>2, SystemJobsAreJobs DEF Init
  <2> QED BY <2>1, SystemJobsAreJobs
          DEF FreshJobsAreCurrent, FreshReviewHasCandidate, SystemKinds
<1>8. BusyHasJob /\ ViewIsCurrent /\ FreshWhenCaughtUp /\ DecisionIsAhead
  BY DEF Init, Idle, BusyHasJob, ViewIsCurrent, FreshWhenCaughtUp,
         DecisionIsAhead
<1>9. QuestionsAreBound /\ AuthorityIsCoherent
  BY DEF Init, QuestionsAreBound, AuthorityIsCoherent
<1> QED BY <1>4, <1>5, <1>6, <1>7, <1>8, <1>9
        DEF IInv, WorkIsTracked, AuthorityIsTracked

\* The authority stays coherent when it is not touched and no review comes up.
LEMMA AuthorityKept ==
  ASSUME IInv, case' = case, checkpoint'.cursor = checkpoint.cursor,
         outbox'[System("reviewer")] = "pending"
           /\ System("reviewer") \notin stale'
           => outbox[System("reviewer")] = "pending"
                /\ System("reviewer") \notin stale
  PROVE  AuthorityIsTracked'
BY DEF IInv, AuthorityIsTracked, QuestionsAreBound, FreshReviewHasCandidate,
       AuthorityIsCoherent

\* Deliveries come and go, leases change hands and answers are stored without
\* any effect on what is tracked, as long as what a delivery loads is the
\* latest checkpoint.
LEMMA BookkeepingStep ==
  ASSUME IInv, UNCHANGED <<head, decision, case, checkpoint, outbox, stale>>,
         answer' \in [Jobs -> Answers],
         lease' \in [Jobs -> Workers \cup {"nobody", "dead"}],
         worker' \in [Workers -> Deliveries], faults' \in 0 .. MaxFaults,
         \A v \in Workers :
           worker'[v].at # "idle" =>
             /\ worker'[v].job \in Jobs
             /\ worker'[v].view = "same" =>
                  /\ worker'[v].job = checkpoint.pending
                  /\ worker'[v].at = "superseding" =>
                       worker'[v].job \in stale \cap SystemJobs
  PROVE  IInv'
<1>1. TypeOK'
  BY DEF IInv, TypeOK
<1>2. BusyHasJob' /\ ViewIsCurrent'
  BY DEF BusyHasJob, ViewIsCurrent
<1>3. /\ FutureIsAbsent' /\ BoundUpToCursor' /\ FreshWhenCaughtUp'
      /\ FreshJobsAreCurrent' /\ DecisionIsAhead' /\ CheckpointNamesOpenWork'
  BY DEF IInv, WorkIsTracked, FutureIsAbsent, BoundUpToCursor,
         FreshWhenCaughtUp, FreshJobsAreCurrent, DecisionIsAhead,
         CheckpointNamesOpenWork
<1>4. AuthorityIsTracked'
  BY AuthorityKept
<1> QED BY <1>1, <1>2, <1>3, <1>4 DEF IInv, WorkIsTracked

\* A message is enqueued: every open job becomes stale.
LEMMA AppendMessageStep ==
  ASSUME IInv, AppendMessage,
         decision' = decision \/ (checkpoint.phase = "WAITING_FOR_USER"
                                    /\ decision' = head + 1)
  PROVE  IInv'
<1> DEFINE new == Binding(head + 1)
<1>1. /\ head \in Sequences /\ head + 1 \in Sequences
      /\ head' = head + 1
      /\ checkpoint.cursor \in Nat /\ checkpoint.cursor <= head
  BY MaxMessagesAssumption
  DEF IInv, TypeOK, WorkIsTracked, FutureIsAbsent, AppendMessage, Sequences,
      Checkpoints
<1>2. new \in Jobs \ SystemJobs /\ outbox[new] = "absent"
  BY <1>1, BindingJobs DEF IInv, WorkIsTracked, FutureIsAbsent, Sequences
<1>3. /\ outbox' = [outbox EXCEPT ![new] = "pending"]
      /\ answer' = [answer EXCEPT ![new] = "none"]
      /\ lease' = [lease EXCEPT ![new] = "nobody"]
      /\ stale' = Jobs \ {new}
      /\ UNCHANGED <<case, checkpoint, worker, faults>>
  BY DEF AppendMessage, Enqueue, AuthorityChanges
<1>4. /\ outbox \in [Jobs -> Dispositions \cup {"absent", "pending"}]
      /\ answer \in [Jobs -> Answers]
      /\ lease \in [Jobs -> Workers \cup {"nobody", "dead"}]
  BY DEF IInv, TypeOK
<1>5. \A j \in Jobs : outbox'[j] = IF j = new THEN "pending" ELSE outbox[j]
  BY <1>2, <1>3, <1>4
<1>6. \A n \in Sequences : n # head + 1 => outbox'[Binding(n)] = outbox[Binding(n)]
  BY <1>5, BindingJobs, BindingsDiffer
<1> HIDE DEF new
<1>7. TypeOK'
  <2>1. outbox' \in [Jobs -> Dispositions \cup {"absent", "pending"}]
    BY <1>3, <1>4
  <2>2. answer' \in [Jobs -> Answers]
    BY <1>3, <1>4 DEF Answers
  <2>3. lease' \in [Jobs -> Workers \cup {"nobody", "dead"}]
    BY <1>3, <1>4
  <2>4. decision' \in 0 .. MaxMessages
    BY <1>1 DEF IInv, TypeOK, Sequences
  <2> QED BY <1>1, <1>3, <2>1, <2>2, <2>3, <2>4 DEF IInv, TypeOK
<1>8. FutureIsAbsent'
  BY <1>1, <1>3, <1>6
  DEF IInv, WorkIsTracked, FutureIsAbsent, Sequences
<1>9. BoundUpToCursor'
  <2>1. outbox'[Binding(head + 1)] = "pending"
    BY <1>2, <1>5 DEF new
  <2> QED BY <1>1, <1>3, <1>6, <2>1
          DEF IInv, WorkIsTracked, BoundUpToCursor, Sequences
<1>10. BusyHasJob' /\ ViewIsCurrent'
  <2>1. SystemJobs \subseteq stale'
    BY <1>2, <1>3, SystemJobsAreJobs
  <2> QED BY <1>3, <2>1 DEF IInv, WorkIsTracked, BusyHasJob, ViewIsCurrent
<1>11. FreshWhenCaughtUp'
  BY <1>1, <1>3 DEF FreshWhenCaughtUp, Sequences
<1>12. \A j \in SystemJobs : j \in stale' /\ outbox'[j] = outbox[j]
  BY <1>2, <1>3, <1>5, SystemJobsAreJobs
<1>13. FreshJobsAreCurrent'
  BY <1>12 DEF FreshJobsAreCurrent
<1>14. DecisionIsAhead'
  <2>1. outbox'[Binding(head + 1)] = "pending"
    BY <1>2, <1>5 DEF new
  <2>2. CASE decision' = decision
    <3>1. ASSUME decision # 0
          PROVE  /\ decision \in checkpoint.cursor + 1 .. head
                 /\ outbox[Binding(decision)] = "pending"
                 /\ checkpoint.phase = "WAITING_FOR_USER"
      BY <3>1 DEF IInv, WorkIsTracked, DecisionIsAhead
    <3>2. ASSUME decision # 0
          PROVE  decision \in Sequences /\ decision # head + 1
      <4>1. decision \in checkpoint.cursor + 1 .. head
        BY <3>1, <3>2
      <4> QED BY <1>1, <4>1, MaxMessagesAssumption DEF Sequences
    <3> QED BY <1>1, <1>3, <1>6, <2>2, <3>1, <3>2
            DEF DecisionIsAhead, Sequences
  <2>3. CASE decision' = head + 1 /\ checkpoint.phase = "WAITING_FOR_USER"
    BY <1>1, <1>3, <2>1, <2>3 DEF DecisionIsAhead, Sequences
  <2> QED BY <2>2, <2>3
<1>15. CheckpointNamesOpenWork'
  <2>1. /\ checkpoint.pending \in Jobs \cup {NoJob}
        /\ checkpoint.pending # NoJob => outbox[checkpoint.pending] = "pending"
    BY DEF IInv, TypeOK, Checkpoints, WorkIsTracked, CheckpointNamesOpenWork
  <2>2. checkpoint.pending # NoJob =>
          outbox'[checkpoint.pending] = "pending"
    BY <1>5, <2>1
  <2> QED BY <1>3, <1>12, <2>2
          DEF IInv, WorkIsTracked, CheckpointNamesOpenWork
<1>16. AuthorityIsTracked'
  BY <1>3, <1>12, AuthorityKept, SystemJobsAreJobs DEF SystemKinds
<1> QED BY <1>7, <1>8, <1>9, <1>10, <1>11, <1>13, <1>14, <1>15, <1>16
        DEF IInv, WorkIsTracked

\* The second half of a decision: nothing else is open, for the case waited
\* for its user.
LEMMA RecordUserDecisionStep == ASSUME IInv, RecordUserDecision PROVE IInv'
<1>1. /\ decision \in checkpoint.cursor + 1 .. head
      /\ outbox[Binding(decision)] = "pending"
      /\ checkpoint.phase = "WAITING_FOR_USER"
  BY DEF RecordUserDecision, IInv, WorkIsTracked, DecisionIsAhead
<1>2. head \in Sequences /\ checkpoint.cursor \in 0 .. MaxMessages
  BY DEF IInv, TypeOK, Checkpoints
<1>3. decision \in Sequences /\ head # checkpoint.cursor
  BY <1>1, <1>2, MaxMessagesAssumption DEF Sequences
<1>4. /\ Binding(decision) \in Jobs \ SystemJobs
      /\ Binding(decision).kind = "message_binding"
  BY <1>3, BindingJobs
<1>5. /\ checkpoint.pending \in Jobs \cup {NoJob}
      /\ checkpoint.pending # NoJob =>
           checkpoint.phase = WaitingFor(checkpoint.pending.kind)
      /\ \A j \in SystemJobs : outbox[j] = "pending" => j = checkpoint.pending
  BY DEF IInv, TypeOK, Checkpoints, WorkIsTracked, CheckpointNamesOpenWork
<1>6. checkpoint.pending = NoJob
  BY <1>1, <1>5, PhaseOfJob
<1>7. \A j \in SystemJobs : outbox[j] # "pending"
  BY <1>5, <1>6, SystemJobsAreJobs
<1>8. /\ checkpoint' \in Checkpoints
      /\ worker' \in [Workers -> Deliveries]
      /\ decision' \in 0 .. MaxMessages
      /\ BusyHasJob' /\ ViewIsCurrent' /\ DecisionIsAhead'
  <2>1. TypeOK /\ BusyHasJob
    BY DEF IInv, WorkIsTracked
  <2>2. "WAITING_FOR_MESSAGE_BINDING" \in ControllerPhase
    BY DEF ControllerPhase
  <2>3. Binding(decision) \in Jobs \cup {NoJob} /\ "nobody" \notin Workers
    BY <1>4, WorkerNames
  <2>4. Checkpoint("nobody", "WAITING_FOR_MESSAGE_BINDING", Binding(decision),
                   checkpoint.cursor, NoJob)
    BY DEF RecordUserDecision
  <2> QED BY <1>2, <2>1, <2>2, <2>3, <2>4, CheckpointEffect
<1>9. /\ checkpoint'.cursor = checkpoint.cursor
      /\ checkpoint'.pending = Binding(decision)
      /\ checkpoint'.phase = "WAITING_FOR_MESSAGE_BINDING"
      /\ UNCHANGED <<head, case, outbox, stale, answer, lease, faults>>
  BY DEF RecordUserDecision, Checkpoint
<1>10. TypeOK'
  BY <1>8, <1>9 DEF IInv, TypeOK
<1>11. FutureIsAbsent' /\ BoundUpToCursor'
  BY <1>9 DEF IInv, WorkIsTracked, FutureIsAbsent, BoundUpToCursor
<1>12. FreshWhenCaughtUp' /\ FreshJobsAreCurrent'
  BY <1>3, <1>7, <1>9 DEF FreshWhenCaughtUp, FreshJobsAreCurrent
<1>13. CheckpointNamesOpenWork'
  <2>1. WaitingFor("message_binding") = "WAITING_FOR_MESSAGE_BINDING"
    BY DEF WaitingFor
  <2> QED BY <1>1, <1>4, <1>7, <1>9, <2>1 DEF CheckpointNamesOpenWork
<1>14. AuthorityIsTracked'
  BY <1>9, AuthorityKept
<1> QED BY <1>8, <1>10, <1>11, <1>12, <1>13, <1>14 DEF IInv, WorkIsTracked

LEMMA AdvanceStep ==
  ASSUME IInv, head > checkpoint.cursor, Reconcile("nobody", outbox),
         faults' \in 0 .. MaxFaults
  PROVE  IInv'
<1>1. /\ "nobody" \notin Workers
      /\ outbox \in [Jobs -> Dispositions \cup {"absent", "pending"}]
  BY WorkerNames DEF IInv, TypeOK
<1>2. /\ TypeOK' /\ WorkIsTracked'
      /\ \A j \in SystemJobs : outbox'[j] # "pending"
      /\ checkpoint'.cursor = checkpoint.cursor
  BY <1>1, ReconcileStep
<1>3. case' = case
  BY DEF Reconcile
<1> QED BY <1>2, <1>3, AuthorityKept, SystemJobsAreJobs DEF IInv, SystemKinds

\* A ready case waits for nothing, so its agent job is the only open one.
LEMMA EnqueuePrimaryAgentJobStep ==
  ASSUME IInv, EnqueuePrimaryAgentJob
  PROVE  IInv'
<1> DEFINE new == System("primary_agent")
<1>1. /\ new \in SystemJobs /\ new \in Jobs /\ new.kind = "primary_agent"
      /\ new # System("reviewer")
  BY SystemJobsAreJobs DEF SystemKinds, System
<1>2. /\ checkpoint.pending \in Jobs \cup {NoJob}
      /\ checkpoint.pending # NoJob =>
           checkpoint.phase = WaitingFor(checkpoint.pending.kind)
      /\ \A j \in SystemJobs : outbox[j] = "pending" => j = checkpoint.pending
      /\ checkpoint.cursor \in 0 .. MaxMessages
  BY DEF IInv, TypeOK, Checkpoints, WorkIsTracked, CheckpointNamesOpenWork
<1>3. checkpoint.pending = NoJob
  BY <1>2, PhaseOfJob DEF EnqueuePrimaryAgentJob
<1>4. \A j \in SystemJobs : outbox[j] # "pending"
  BY <1>2, <1>3, SystemJobsAreJobs
<1>5. /\ Checkpoint("nobody", "WAITING_FOR_LLM", new, checkpoint.cursor, new)
      /\ outbox' = [outbox EXCEPT ![new] = "pending"]
      /\ answer' = [answer EXCEPT ![new] = "none"]
      /\ lease' = [lease EXCEPT ![new] = "nobody"]
      /\ stale' = stale \ {new}
      /\ head = checkpoint.cursor
      /\ UNCHANGED <<head, case, faults>>
  BY DEF EnqueuePrimaryAgentJob, Enqueue, AuthorityStays
<1> HIDE DEF new
<1>6. /\ checkpoint' \in Checkpoints
      /\ worker' \in [Workers -> Deliveries]
      /\ decision' \in 0 .. MaxMessages
      /\ BusyHasJob' /\ ViewIsCurrent' /\ DecisionIsAhead'
  <2>1. TypeOK /\ BusyHasJob /\ "nobody" \notin Workers
    BY WorkerNames DEF IInv, WorkIsTracked
  <2>2. "WAITING_FOR_LLM" \in ControllerPhase /\ new \in Jobs \cup {NoJob}
    BY <1>1 DEF ControllerPhase
  <2> QED BY <1>2, <1>5, <2>1, <2>2, CheckpointEffect
<1>7. /\ checkpoint'.cursor = checkpoint.cursor
      /\ checkpoint'.pending = new
      /\ checkpoint'.phase = "WAITING_FOR_LLM"
  BY <1>5 DEF Checkpoint
<1>8. /\ outbox \in [Jobs -> Dispositions \cup {"absent", "pending"}]
      /\ answer \in [Jobs -> Answers]
      /\ lease \in [Jobs -> Workers \cup {"nobody", "dead"}]
  BY DEF IInv, TypeOK
<1>9. \A j \in Jobs : outbox'[j] = IF j = new THEN "pending" ELSE outbox[j]
  BY <1>1, <1>5, <1>8
<1>10. TypeOK'
  <2>1. outbox' \in [Jobs -> Dispositions \cup {"absent", "pending"}]
    BY <1>5, <1>8
  <2>2. answer' \in [Jobs -> Answers]
    BY <1>5, <1>8 DEF Answers
  <2>3. lease' \in [Jobs -> Workers \cup {"nobody", "dead"}]
    BY <1>5, <1>8
  <2>4. stale' \subseteq Jobs
    BY <1>5 DEF IInv, TypeOK
  <2> QED BY <1>5, <1>6, <2>1, <2>2, <2>3, <2>4 DEF IInv, TypeOK
<1>11. \A j \in SystemJobs : outbox'[j] = "pending" => j = new
  BY <1>4, <1>9, SystemJobsAreJobs
<1>12. \A n \in Sequences : outbox'[Binding(n)] = outbox[Binding(n)]
  BY <1>1, <1>9, BindingJobs
<1>13. FutureIsAbsent' /\ BoundUpToCursor'
  BY <1>5, <1>7, <1>12 DEF IInv, WorkIsTracked, FutureIsAbsent, BoundUpToCursor
<1>14. FreshWhenCaughtUp' /\ FreshJobsAreCurrent'
  BY <1>5, <1>7 DEF FreshWhenCaughtUp, FreshJobsAreCurrent
<1>15. CheckpointNamesOpenWork'
  <2>1. WaitingFor("primary_agent") = "WAITING_FOR_LLM"
    BY DEF WaitingFor
  <2> QED BY <1>1, <1>7, <1>9, <1>11, <2>1 DEF CheckpointNamesOpenWork
<1>16. AuthorityIsTracked'
  BY <1>1, <1>5, <1>7, <1>11, AuthorityKept, SystemJobsAreJobs DEF SystemKinds
<1> QED BY <1>6, <1>10, <1>13, <1>14, <1>15, <1>16 DEF IInv, WorkIsTracked

\* Deliveries that commit nothing, and the leases they hold.
LEMMA QuietStep ==
  ASSUME IInv, NEW w \in Workers,
         \/ Load(w) \/ Acquire(w) \/ CannotAcquire(w) \/ ModelAnswers(w)
         \/ ModelAnswersTooLate(w) \/ GiveUp(w) \/ Release(w) \/ Crash(w)
         \/ LoseLease(w)
  PROVE  IInv'
<1>1. /\ worker \in [Workers -> Deliveries]
      /\ answer \in [Jobs -> Answers]
      /\ lease \in [Jobs -> Workers \cup {"nobody", "dead"}]
      /\ faults \in 0 .. MaxFaults
      /\ checkpoint.pending \in Jobs \cup {NoJob}
  BY DEF IInv, TypeOK, Checkpoints
<1>2. \A v \in Workers :
        worker[v].at # "idle" =>
          /\ worker[v].job \in Jobs
          /\ worker[v].view = "same" =>
               /\ worker[v].job = checkpoint.pending
               /\ worker[v].at = "superseding" =>
                    worker[v].job \in stale \cap SystemJobs
  BY DEF IInv, WorkIsTracked, BusyHasJob, ViewIsCurrent
<1>3. UNCHANGED <<head, decision, case, checkpoint, outbox, stale>>
  BY DEF Load, Acquire, CannotAcquire, ModelAnswers, ModelAnswersTooLate,
         GiveUp, Release, Crash, LoseLease, mailboxVars, jobVars
<1>4. answer' \in [Jobs -> Answers]
  <2>1. CASE ModelAnswers(w)
    <3>1. PICK a \in AnswersTo(Job(w).kind) : answer' = [answer EXCEPT ![Job(w)] = a]
      BY <2>1 DEF ModelAnswers
    <3>2. AnswersTo(Job(w).kind) \subseteq Answers
      BY <2>1 DEF ModelAnswers, ModelKinds, AnswersTo, Answers
    <3> QED BY <1>1, <3>1, <3>2
  <2>2. CASE ~ModelAnswers(w)
    BY <1>1, <2>2 DEF Load, Acquire, CannotAcquire, ModelAnswersTooLate,
       GiveUp, Release, Crash, LoseLease, jobVars
  <2> QED BY <2>1, <2>2
<1>5. lease' \in [Jobs -> Workers \cup {"nobody", "dead"}]
  BY <1>1 DEF Load, Acquire, CannotAcquire, ModelAnswers, ModelAnswersTooLate,
       GiveUp, Release, Crash, LoseLease
<1>6. faults' \in 0 .. MaxFaults
  BY <1>1, MaxFaultsAssumption
  DEF Load, Acquire, CannotAcquire, ModelAnswers, ModelAnswersTooLate,
       GiveUp, Release, Crash, LoseLease, Fault
<1>7. PICK d \in Deliveries :
        /\ worker' = [worker EXCEPT ![w] = d]
        /\ d.at # "idle" =>
             /\ d.job \in Jobs
             /\ d.view = "same" =>
                  /\ d.job = checkpoint.pending
                  /\ d.at = "superseding" => d.job \in stale \cap SystemJobs
  <2>1. CASE Load(w)
    <3>1. checkpoint.pending \in Jobs
      BY <1>1, <2>1 DEF Load
    <3> DEFINE d == [at |-> "loaded", view |-> "same",
                     job |-> checkpoint.pending]
    <3>2. worker' = [worker EXCEPT ![w] = d]
      BY <2>1 DEF Load
    <3>3. d \in Deliveries /\ d.job = checkpoint.pending /\ d.at = "loaded"
      BY <3>1 DEF Deliveries
    <3> HIDE DEF d
    <3> QED BY <3>1, <3>2, <3>3
  <2>2. CASE Acquire(w) \/ ModelAnswers(w) \/ ModelAnswersTooLate(w)
    <3>1. PICK at \in {"calling", "answered", "superseding", "releasing"} :
            /\ worker' = [worker EXCEPT ![w].at = at]
            /\ at = "superseding" =>
                 Job(w).kind # "message_binding" /\ Job(w) \in stale
      BY <2>2 DEF Acquire, ModelAnswers, ModelAnswersTooLate, IsStale
    <3>2. worker[w].at # "idle" /\ Job(w) = worker[w].job
      BY <2>2 DEF Acquire, ModelAnswers, ModelAnswersTooLate, Job
    <3> DEFINE d == [worker[w] EXCEPT !.at = at]
    <3>3. worker' = [worker EXCEPT ![w] = d]
      BY <1>1, <3>1
    <3>4. /\ d \in Deliveries /\ d.at = at
          /\ d.job = worker[w].job /\ d.view = worker[w].view
      BY <1>1 DEF Deliveries
    <3>5. at = "superseding" => worker[w].job \in stale \cap SystemJobs
      BY <1>2, <3>1, <3>2, JobsAreNamed
    <3> HIDE DEF d
    <3> QED BY <1>2, <3>2, <3>3, <3>4, <3>5
  <2>3. CASE GiveUp(w)
    <3> DEFINE d == Finished(worker[w])
    <3>1. worker' = [worker EXCEPT ![w] = d] /\ worker[w].at # "idle"
      BY <1>1, <2>3 DEF GiveUp
    <3>2. d \in Deliveries /\ d.job = worker[w].job /\ d.view = "changed"
      BY <1>1 DEF Deliveries, Finished
    <3> HIDE DEF d
    <3> QED BY <1>2, <3>1, <3>2
  <2>4. CASE CannotAcquire(w) \/ Release(w) \/ Crash(w)
    <3>1. worker' = [worker EXCEPT ![w] = Idle]
      BY <2>4 DEF CannotAcquire, Release, Crash
    <3>2. Idle \in Deliveries /\ Idle.at = "idle"
      BY DEF Idle, Deliveries
    <3> QED BY <3>1, <3>2
  <2>5. CASE LoseLease(w)
    <3>1. worker' = [worker EXCEPT ![w] = worker[w]]
      BY <1>1, <2>5 DEF LoseLease
    <3> QED BY <1>1, <1>2, <3>1
  <2> QED BY <2>1, <2>2, <2>3, <2>4, <2>5
<1>8. worker' \in [Workers -> Deliveries]
  BY <1>1, <1>7
<1>9. \A v \in Workers :
        worker'[v].at # "idle" =>
          /\ worker'[v].job \in Jobs
          /\ worker'[v].view = "same" =>
               /\ worker'[v].job = checkpoint.pending
               /\ worker'[v].at = "superseding" =>
                    worker'[v].job \in stale \cap SystemJobs
  <2> TAKE v \in Workers
  <2>1. worker'[v] = IF v = w THEN d ELSE worker[v]
    BY <1>1, <1>7
  <2> QED BY <1>2, <1>7, <2>1
<1> QED BY <1>3, <1>4, <1>5, <1>6, <1>8, <1>9, BookkeepingStep

LEMMA DeadLeaseExpiresStep ==
  ASSUME IInv, NEW j \in Jobs, DeadLeaseExpires(j)
  PROVE  IInv'
<1>1. /\ worker \in [Workers -> Deliveries]
      /\ answer \in [Jobs -> Answers]
      /\ lease \in [Jobs -> Workers \cup {"nobody", "dead"}]
      /\ faults \in 0 .. MaxFaults
  BY DEF IInv, TypeOK
<1>2. \A v \in Workers :
        worker[v].at # "idle" =>
          /\ worker[v].job \in Jobs
          /\ worker[v].view = "same" =>
               /\ worker[v].job = checkpoint.pending
               /\ worker[v].at = "superseding" =>
                    worker[v].job \in stale \cap SystemJobs
  BY DEF IInv, WorkIsTracked, BusyHasJob, ViewIsCurrent
<1>3. /\ UNCHANGED <<head, decision, case, checkpoint, outbox, stale>>
      /\ UNCHANGED <<answer, worker, faults>>
      /\ lease' = [lease EXCEPT ![j] = "nobody"]
  BY DEF DeadLeaseExpires, mailboxVars, jobVars
<1>4. lease' \in [Jobs -> Workers \cup {"nobody", "dead"}]
  BY <1>1, <1>3
<1> QED BY <1>1, <1>2, <1>3, <1>4, BookkeepingStep

-----------------------------------------------------------------------------
(* The inductive invariant: commits.                                       *)

\* A job is superseded only while the mailbox is ahead.
LEMMA SupersedeStep ==
  ASSUME IInv, NEW w \in Workers, worker[w].at # "idle", Entitled(w),
         Job(w) \in stale \/ Job(w).kind = "message_binding",
         Supersede(w), faults' = faults
  PROVE  IInv'
<1> DEFINE ob == Disposed(Job(w), "SUPERSEDED")
<1>1. /\ Job(w) \in Jobs /\ outbox[Job(w)] = "pending"
      /\ Job(w).kind = "message_binding" =>
           Job(w).n \in checkpoint.cursor + 1 .. head
      /\ Job(w) \in stale => head > checkpoint.cursor
  BY EntitledJob
<1>2. /\ head \in Nat /\ checkpoint.cursor \in Nat
      /\ outbox \in [Jobs -> Dispositions \cup {"absent", "pending"}]
      /\ faults' \in 0 .. MaxFaults
  BY MaxMessagesAssumption DEF IInv, TypeOK, Checkpoints, Sequences
<1>3. head > checkpoint.cursor
  BY <1>1, <1>2
<1>4. ob \in [Jobs -> Dispositions \cup {"absent", "pending"}]
  BY <1>2 DEF Disposed, Dispositions
<1>5. \A j \in Jobs :
        ob[j] = outbox[j] \/ (outbox[j] = "pending" /\ ob[j] = "SUPERSEDED")
  BY <1>1, <1>2 DEF Disposed
<1>6. Reconcile(w, ob)
  BY DEF Supersede
<1> HIDE DEF ob
<1>7. /\ TypeOK' /\ WorkIsTracked'
      /\ \A j \in SystemJobs : outbox'[j] # "pending"
      /\ checkpoint'.cursor = checkpoint.cursor
  BY <1>2, <1>3, <1>4, <1>5, <1>6, ReconcileStep
<1>8. case' = case
  BY <1>6 DEF Reconcile
<1> QED BY <1>7, <1>8, AuthorityKept, SystemJobsAreJobs DEF IInv, SystemKinds

LEMMA CommitMessageBindingStep ==
  ASSUME IInv, NEW w \in Workers, CommitMessageBinding(w)
  PROVE  IInv'
<1>1. /\ worker[w].at # "idle" /\ Entitled(w)
      /\ Job(w).kind = "message_binding"
      /\ Job(w).n = checkpoint.cursor + 1
      /\ Bindable(w)
      /\ head' = head /\ faults' = faults
  BY DEF CommitMessageBinding, IsNext
<1>2. Job(w) \in Jobs /\ Job(w).n \in Sequences
  BY <1>1, EntitledJob, JobsAreNamed
<1>3. /\ checkpoint.cursor \in 0 .. MaxMessages
      /\ case \in Cases /\ stale \subseteq Jobs /\ faults \in 0 .. MaxFaults
      /\ AuthorityIsTracked
  BY DEF IInv, TypeOK, Checkpoints
<1>4. PICK phase \in ControllerPhase :
        Complete(w, phase, NoJob, Job(w).n)
  BY DEF CommitMessageBinding, ControllerPhase
<1>5. stale' \subseteq Jobs
  BY <1>3 DEF CommitMessageBinding, AuthorityChanges, AuthorityStays
<1>6. /\ case' \in Cases
      /\ case'.question <= checkpoint.cursor + 1 /\ case'.question > 0
      /\ AuthorityIsCoherent'
  <2>1. case.question \in 0 .. checkpoint.cursor
    BY <1>3 DEF AuthorityIsTracked, QuestionsAreBound, Cases
  <2>2. CASE answer[Job(w)] = "QUESTION_REVISION"
    <3>1. case' = [case EXCEPT !.question = @ + 1, !.frame = 0, !.plan = 0,
                               !.candidate = NoCandidate]
      BY <2>2 DEF CommitMessageBinding, AcceptQuestion
    <3>2. case.question + 1 \in 0 .. MaxMessages
      BY <1>1, <1>2, <1>3, <2>1, MaxMessagesAssumption DEF Sequences
    <3>3. 0 \in 0 .. MaxMessages /\ NoCandidate \in Candidates
      BY MaxMessagesAssumption DEF NoCandidate, Candidates
    <3>4. case' \in Cases
      BY <1>3, <3>1, <3>2, <3>3 DEF Cases
    <3>5. /\ case'.question = case.question + 1
          /\ case'.frame = 0 /\ case'.plan = 0 /\ case'.candidate = NoCandidate
      BY <1>3, <3>1 DEF Cases
    <3> QED BY <2>1, <1>3, <3>4, <3>5 DEF AuthorityIsCoherent
  <2>3. CASE answer[Job(w)] # "QUESTION_REVISION"
    <3>1. case.question > 0
      BY <1>1, <2>3 DEF Bindable
    <3>2. \/ case' = case
          \/ case' = [case EXCEPT !.lifecycle = "STOPPED"]
      BY <2>3 DEF CommitMessageBinding
    <3>3. /\ case' \in Cases
          /\ case'.question = case.question /\ case'.frame = case.frame
          /\ case'.plan = case.plan /\ case'.candidate = case.candidate
      BY <1>3, <3>2 DEF Cases
    <3> QED BY <1>3, <2>1, <3>1, <3>3
            DEF AuthorityIsTracked, AuthorityIsCoherent
  <2> QED BY <2>2, <2>3
<1>7. /\ TypeOK' /\ WorkIsTracked'
      /\ \A j \in SystemJobs : outbox'[j] # "pending"
      /\ checkpoint'.cursor = checkpoint.cursor + 1
  <2>1. /\ EnqueueNothing(Disposed(Job(w), "COMPLETED"))
        /\ Checkpoint(w, phase, NoJob, Job(w).n, NoJob)
    BY <1>4 DEF Complete
  <2>2. "COMPLETED" \in Dispositions /\ Job(w).n \in 0 .. MaxMessages
    BY <1>2 DEF Dispositions, Sequences
  <2> QED BY <1>1, <1>3, <1>5, <1>6, <2>1, <2>2, CompletionStep
<1>8. AuthorityIsTracked'
  BY <1>6, <1>7, SystemJobsAreJobs
  DEF AuthorityIsTracked, QuestionsAreBound, FreshReviewHasCandidate, SystemKinds
<1> QED BY <1>7, <1>8 DEF IInv

\* A completed agent, review or effect job, or a failed job, leaves the
\* cursor where it is: what remains to be shown is what becomes of the case.
LEMMA CompletedWithoutCursor ==
  ASSUME IInv, NEW w \in Workers, worker[w].at # "idle", Entitled(w),
         NEW how \in Dispositions, NEW phase \in ControllerPhase,
         Job(w).kind # "message_binding" \/ how # "COMPLETED",
         EnqueueNothing(Disposed(Job(w), how)),
         Checkpoint(w, phase, NoJob, checkpoint.cursor, NoJob),
         head' = head, stale' \subseteq Jobs, faults' = faults,
         case' \in Cases, case'.question = case.question, AuthorityIsCoherent'
  PROVE  IInv'
<1>1. checkpoint.cursor \in 0 .. MaxMessages /\ faults \in 0 .. MaxFaults
  BY DEF IInv, TypeOK, Checkpoints
<1>2. /\ TypeOK' /\ WorkIsTracked'
      /\ \A j \in SystemJobs : outbox'[j] # "pending"
      /\ checkpoint'.cursor = checkpoint.cursor
  BY <1>1, CompletionStep
<1>3. AuthorityIsTracked'
  BY <1>2, SystemJobsAreJobs
  DEF IInv, AuthorityIsTracked, QuestionsAreBound, FreshReviewHasCandidate,
      SystemKinds
<1> QED BY <1>2, <1>3 DEF IInv

LEMMA CommitProposalStep ==
  ASSUME IInv, NEW w \in Workers, CommitProposal(w)
  PROVE  IInv'
<1>1. /\ worker[w].at # "idle" /\ Entitled(w)
      /\ Job(w).kind # "message_binding"
      /\ head' = head /\ faults' = faults
  BY DEF CommitProposal
<1>2. case \in Cases /\ stale \subseteq Jobs /\ AuthorityIsCoherent
  BY DEF IInv, TypeOK, AuthorityIsTracked
<1>3. PICK phase \in ControllerPhase :
        Complete(w, phase, NoJob, checkpoint.cursor)
  BY DEF CommitProposal, ControllerPhase
<1>4. stale' \subseteq Jobs
  BY <1>2 DEF CommitProposal, AuthorityChanges, AuthorityStays
<1>5. \/ case' = case
      \/ case' = [case EXCEPT !.plan = case.frame]
      \/ \E lifecycle \in {"STOPPED", "CLOSED"} :
           case' = [case EXCEPT !.lifecycle = lifecycle]
  BY DEF CommitProposal
<1>6. /\ case' \in Cases /\ case'.question = case.question
      /\ case'.frame = case.frame /\ case'.candidate = case.candidate
      /\ case'.plan \in {case.plan, case.frame}
  BY <1>2, <1>5 DEF Cases
<1>7. AuthorityIsCoherent'
  BY <1>2, <1>6 DEF AuthorityIsCoherent
<1> QED BY <1>1, <1>3, <1>4, <1>6, <1>7, CompletedWithoutCursor
        DEF Complete, Dispositions

LEMMA CommitProposalWithJobStep ==
  ASSUME IInv, NEW w \in Workers, CommitProposalWithJob(w)
  PROVE  IInv'
<1>1. /\ worker[w].at # "idle" /\ Entitled(w) /\ ~IsStale(w)
      /\ Job(w).kind # "message_binding"
      /\ head' = head /\ faults' = faults
  BY DEF CommitProposalWithJob
<1>2. /\ case \in Cases /\ stale \subseteq Jobs /\ faults \in 0 .. MaxFaults
      /\ head \in Sequences /\ AuthorityIsTracked
  BY DEF IInv, TypeOK
<1>3. PICK next \in SystemJobs :
        /\ CompleteAndEnqueue(w, next)
        /\ stale' \subseteq Jobs \ {next}
        /\ \/ case' = case /\ next # System("reviewer")
           \/ case' = [case EXCEPT !.candidate = [question |-> case.question,
                                                  review |-> "none"]]
  <2>1. System("effect") # System("reviewer")
          /\ System("answer_review") # System("reviewer")
    BY DEF System
  <2> QED BY <1>2, <2>1, SystemJobsAreJobs
          DEF CommitProposalWithJob, AuthorityChanges, AuthorityStays, SystemKinds
<1>4. /\ case' \in Cases
      /\ case'.question = case.question /\ case'.frame = case.frame
      /\ case'.plan = case.plan
      /\ \/ case'.candidate = case.candidate /\ next # System("reviewer")
         \/ case'.candidate = [question |-> case.question, review |-> "none"]
  BY <1>2, <1>3 DEF Cases, Candidates
<1>5. /\ TypeOK' /\ WorkIsTracked'
      /\ \A j \in SystemJobs : outbox'[j] = "pending" => j = next
      /\ checkpoint'.cursor = checkpoint.cursor
      /\ head = checkpoint.cursor
  BY <1>1, <1>2, <1>3, <1>4, CompletionWithJobStep
<1>6. case.question > 0
  BY <1>2, <1>5 DEF AuthorityIsTracked, QuestionsAreBound, Sequences
<1>7. [question |-> case.question, review |-> "none"] # NoCandidate
  BY <1>6 DEF NoCandidate
<1>8. FreshReviewHasCandidate'
  BY <1>4, <1>5, <1>7, SystemJobsAreJobs
  DEF FreshReviewHasCandidate, SystemKinds
<1>9. QuestionsAreBound' /\ AuthorityIsCoherent'
  BY <1>2, <1>4, <1>5, <1>7
  DEF AuthorityIsTracked, QuestionsAreBound, AuthorityIsCoherent
<1> QED BY <1>5, <1>8, <1>9 DEF IInv, AuthorityIsTracked

LEMMA CommitFrameReviewStep ==
  ASSUME IInv, NEW w \in Workers, CommitFrameReview(w)
  PROVE  IInv'
<1>1. /\ worker[w].at # "idle" /\ Entitled(w) /\ ~IsStale(w)
      /\ Job(w).kind = "reviewer"
      /\ head' = head /\ faults' = faults
      /\ Complete(w, "READY_FOR_AGENT", NoJob, checkpoint.cursor)
  BY DEF CommitFrameReview
<1>2. case \in Cases /\ stale \subseteq Jobs /\ AuthorityIsTracked
  BY DEF IInv, TypeOK
<1>3. Job(w) = System("reviewer") /\ outbox[Job(w)] = "pending"
  BY <1>1, EntitledJob, JobsAreNamed
<1>4. /\ case.candidate # NoCandidate
      /\ case.candidate.question = case.question
  BY <1>1, <1>2, <1>3
  DEF AuthorityIsTracked, FreshReviewHasCandidate, AuthorityIsCoherent, IsStale
<1>5. stale' \subseteq Jobs
  BY <1>2 DEF CommitFrameReview, AuthorityChanges, AuthorityStays
<1>6. /\ case' \in Cases /\ case'.question = case.question
      /\ case'.candidate.question = case.question
      /\ case'.candidate.review \in Reviews
      /\ \/ case'.plan = 0 /\ case'.frame = case.question
         \/ case'.plan = case.plan /\ case'.frame = case.frame
  <2>1. /\ case.candidate \in Candidates
        /\ case.candidate.question \in 0 .. MaxMessages
    BY <1>2 DEF Cases, Candidates
  <2>2. CASE case' = [case EXCEPT !.candidate.review = "ACCEPT", !.plan = 0,
                                  !.frame = case.candidate.question]
    <3> DEFINE reviewed == [case.candidate EXCEPT !.review = "ACCEPT"]
    <3>1. /\ reviewed \in Candidates /\ reviewed.review \in Reviews
          /\ reviewed.question = case.question
      BY <1>4, <2>1 DEF Candidates, Reviews
    <3>2. case' = [case EXCEPT !.candidate = reviewed, !.plan = 0,
                               !.frame = case.candidate.question]
      BY <2>2
    <3> HIDE DEF reviewed
    <3>3. 0 \in 0 .. MaxMessages
      BY MaxMessagesAssumption
    <3>4. case' \in Cases
      BY <1>2, <2>1, <3>1, <3>2, <3>3 DEF Cases
    <3>5. /\ case'.question = case.question /\ case'.candidate = reviewed
          /\ case'.plan = 0 /\ case'.frame = case.candidate.question
      BY <1>2, <3>2 DEF Cases
    <3> QED BY <1>4, <3>1, <3>4, <3>5
  <2>3. CASE case' = [case EXCEPT !.candidate.review = "BLOCK"]
    BY <1>2, <1>4, <2>1, <2>3 DEF Cases, Candidates, Reviews
  <2> QED BY <2>2, <2>3 DEF CommitFrameReview
<1>7. case'.candidate # NoCandidate
  BY <1>6 DEF Reviews, NoCandidate
<1>8. AuthorityIsCoherent'
  BY <1>2, <1>6, <1>7 DEF AuthorityIsTracked, AuthorityIsCoherent
<1> QED BY <1>1, <1>5, <1>6, <1>8, CompletedWithoutCursor
        DEF Complete, Dispositions, ControllerPhase

LEMMA CommitEffectStep ==
  ASSUME IInv, NEW w \in Workers, CommitEffect(w)
  PROVE  IInv'
<1>1. /\ worker[w].at # "idle" /\ Entitled(w)
      /\ Job(w).kind # "message_binding"
      /\ head' = head /\ faults' = faults /\ case' = case /\ stale' = stale
      /\ Checkpoint(w, "READY_FOR_AGENT", NoJob, checkpoint.cursor, NoJob)
  BY DEF CommitEffect
<1>2. PICK how \in Dispositions : EnqueueNothing(Disposed(Job(w), how))
  BY DEF CommitEffect, Dispositions
<1>3. case' \in Cases /\ stale' \subseteq Jobs /\ AuthorityIsCoherent'
  BY <1>1 DEF IInv, TypeOK, AuthorityIsTracked, AuthorityIsCoherent
<1> QED BY <1>1, <1>2, <1>3, CompletedWithoutCursor DEF ControllerPhase

\* A retried effect writes the checkpoint again.
LEMMA CommitEffectRetryStep ==
  ASSUME IInv, NEW w \in Workers, CommitEffectRetry(w)
  PROVE  IInv'
<1>1. /\ worker[w].at # "idle"
      /\ Checkpoint(w, checkpoint.phase, checkpoint.pending,
                    checkpoint.cursor, NoJob)
      /\ UNCHANGED <<head, case, outbox, stale, answer, lease>>
      /\ faults' \in 0 .. MaxFaults
  BY MaxFaultsAssumption DEF CommitEffectRetry, Fault, IInv, TypeOK
<1>2. /\ TypeOK /\ BusyHasJob
      /\ checkpoint.phase \in ControllerPhase
      /\ checkpoint.pending \in Jobs \cup {NoJob}
      /\ checkpoint.cursor \in 0 .. MaxMessages
  BY DEF IInv, WorkIsTracked, TypeOK, Checkpoints
<1>3. /\ checkpoint' \in Checkpoints
      /\ worker' \in [Workers -> Deliveries]
      /\ decision' \in 0 .. MaxMessages
      /\ BusyHasJob' /\ ViewIsCurrent' /\ DecisionIsAhead'
  BY <1>1, <1>2, CheckpointEffect
<1>4. /\ checkpoint'.phase = checkpoint.phase
      /\ checkpoint'.pending = checkpoint.pending
      /\ checkpoint'.cursor = checkpoint.cursor
  BY <1>1 DEF Checkpoint
<1>5. TypeOK'
  BY <1>1, <1>3 DEF IInv, TypeOK
<1>6. /\ FutureIsAbsent' /\ BoundUpToCursor' /\ FreshWhenCaughtUp'
      /\ FreshJobsAreCurrent' /\ CheckpointNamesOpenWork'
  BY <1>1, <1>4 DEF IInv, WorkIsTracked, FutureIsAbsent, BoundUpToCursor,
     FreshWhenCaughtUp, FreshJobsAreCurrent, CheckpointNamesOpenWork
<1>7. AuthorityIsTracked'
  BY <1>1, <1>4, AuthorityKept
<1> QED BY <1>3, <1>5, <1>6, <1>7 DEF IInv, WorkIsTracked

LEMMA CommitProviderFailureStep ==
  ASSUME IInv, NEW w \in Workers, CommitProviderFailure(w)
  PROVE  IInv'
<1>1. worker[w].at # "idle" /\ Entitled(w) /\ faults' = faults
  BY DEF CommitProviderFailure
<1>2. CASE IsStale(w)
  BY <1>1, <1>2, SupersedeStep DEF CommitProviderFailure, IsStale
<1>3. CASE ~IsStale(w)
  <2>1. /\ EnqueueNothing(Disposed(Job(w), "TERMINAL_FAILURE"))
        /\ Checkpoint(w, "BLOCKED", NoJob, checkpoint.cursor, NoJob)
        /\ UNCHANGED <<head, case, stale>>
    BY <1>3 DEF CommitProviderFailure
  <2>2. case' \in Cases /\ stale' \subseteq Jobs /\ AuthorityIsCoherent'
    BY <2>1 DEF IInv, TypeOK, AuthorityIsTracked, AuthorityIsCoherent
  <2>3. "TERMINAL_FAILURE" \in Dispositions /\ "BLOCKED" \in ControllerPhase
          /\ "TERMINAL_FAILURE" # "COMPLETED"
    BY DEF Dispositions, ControllerPhase
  <2> QED BY <1>1, <2>1, <2>2, <2>3, CompletedWithoutCursor
<1> QED BY <1>2, <1>3

-----------------------------------------------------------------------------
(* The invariants of CaseController.                                       *)

\* One case per action.
LEMMA InvStep == ASSUME IInv, [Next]_vars PROVE IInv'
<1>1. CASE IngressMessage
  BY <1>1, AppendMessageStep DEF IngressMessage
<1>2. CASE SubmitUserDecision
  BY <1>2, AppendMessageStep DEF SubmitUserDecision
<1>3. CASE RecordUserDecision
  BY <1>3, RecordUserDecisionStep
<1>4. faults \in 0 .. MaxFaults
  BY DEF IInv, TypeOK
<1>5. CASE AdvanceMailbox
  BY <1>4, <1>5, AdvanceStep DEF AdvanceMailbox
<1>6. CASE AdvanceAgain
  BY <1>4, <1>6, AdvanceStep, MaxFaultsAssumption DEF AdvanceAgain, Fault
<1>7. CASE EnqueuePrimaryAgentJob
  BY <1>7, EnqueuePrimaryAgentJobStep
<1>8. ASSUME NEW w \in Workers,
             \/ Load(w) \/ Acquire(w) \/ CannotAcquire(w) \/ ModelAnswers(w)
             \/ ModelAnswersTooLate(w) \/ GiveUp(w) \/ Release(w)
             \/ Crash(w) \/ LoseLease(w)
      PROVE  IInv'
  BY <1>8, QuietStep
<1>9. ASSUME NEW w \in Workers,
             \/ SupersedeStale(w) \/ SupersedeBinding(w)
             \/ SupersedeAnswered(w) \/ SupersedeEffect(w)
      PROVE  IInv'
  <2>1. worker[w].at # "idle" /\ Entitled(w) /\ Supersede(w) /\ faults' = faults
    BY <1>9 DEF SupersedeStale, SupersedeBinding, SupersedeAnswered,
       SupersedeEffect
  <2>2. SupersedeStale(w) => Job(w) \in stale
    BY DEF SupersedeStale, Entitled, Job, IInv, WorkIsTracked, ViewIsCurrent
  <2>3. Job(w) \in stale \/ Job(w).kind = "message_binding"
    BY <1>9, <2>2 DEF SupersedeBinding, SupersedeAnswered, SupersedeEffect,
       IsStale
  <2> QED BY <2>1, <2>3, SupersedeStep
<1>10. ASSUME NEW w \in Workers, CommitMessageBinding(w) PROVE IInv'
  BY <1>10, CommitMessageBindingStep
<1>11. ASSUME NEW w \in Workers, CommitProposal(w) PROVE IInv'
  BY <1>11, CommitProposalStep
<1>12. ASSUME NEW w \in Workers, CommitProposalWithJob(w) PROVE IInv'
  BY <1>12, CommitProposalWithJobStep
<1>13. ASSUME NEW w \in Workers, CommitFrameReview(w) PROVE IInv'
  BY <1>13, CommitFrameReviewStep
<1>14. ASSUME NEW w \in Workers, CommitEffect(w) PROVE IInv'
  BY <1>14, CommitEffectStep
<1>15. ASSUME NEW w \in Workers, CommitEffectRetry(w) PROVE IInv'
  BY <1>15, CommitEffectRetryStep
<1>16. ASSUME NEW w \in Workers, CommitProviderFailure(w) PROVE IInv'
  BY <1>16, CommitProviderFailureStep
<1>17. ASSUME NEW j \in Jobs, DeadLeaseExpires(j) PROVE IInv'
  BY <1>17, DeadLeaseExpiresStep
<1>18. CASE UNCHANGED vars
  <2>1. /\ head' = head /\ case' = case /\ checkpoint' = checkpoint
        /\ outbox' = outbox /\ stale' = stale /\ answer' = answer
        /\ lease' = lease /\ worker' = worker /\ decision' = decision
        /\ faults' = faults
    BY <1>18 DEF vars
  <2> QED BY <2>1
      DEF IInv, TypeOK, WorkIsTracked, BusyHasJob, FutureIsAbsent,
          BoundUpToCursor, ViewIsCurrent, FreshWhenCaughtUp,
          FreshJobsAreCurrent, DecisionIsAhead, CheckpointNamesOpenWork,
          AuthorityIsTracked, QuestionsAreBound, FreshReviewHasCandidate,
          AuthorityIsCoherent
<1> QED BY <1>1, <1>2, <1>3, <1>5, <1>6, <1>7, <1>8, <1>9, <1>10, <1>11, <1>12,
           <1>13, <1>14, <1>15, <1>16, <1>17, <1>18
        DEF Next, ControllerStep, DeliveryStep

LEMMA Invariance == Spec => []IInv
BY InvInit, InvStep, PTL DEF Spec

\* Every reachable state is well typed, whatever workers, messages, faults and
\* answers there are.
THEOREM TypeCorrect == Spec => []TypeOK
<1>1. IInv => TypeOK
  BY DEF IInv
<1> QED BY <1>1, Invariance, PTL

\* _reconcile_mailbox_locked and the commits never lose the job a case waits
\* for, and never leave another agent, review or effect job behind.
THEOREM CheckpointIsTruthful == Spec => []CheckpointNamesOpenWork
<1>1. IInv => CheckpointNamesOpenWork
  BY DEF IInv, WorkIsTracked
<1> QED BY <1>1, Invariance, PTL

\* accept_question, _commit_frame_review and the plan adoption keep what is
\* accepted together.
THEOREM AuthorityStaysCoherent == Spec => []AuthorityIsCoherent
<1>1. IInv => AuthorityIsCoherent
  BY DEF IInv, AuthorityIsTracked
<1> QED BY <1>1, Invariance, PTL

\* _commit_message_binding binds the messages of the mailbox in their order,
\* each once.
THEOREM MessagesAreBoundInOrder == Spec => []BoundUpToCursor
<1>1. IInv => BoundUpToCursor
  BY DEF IInv, WorkIsTracked
<1> QED BY <1>1, Invariance, PTL

-----------------------------------------------------------------------------
(* The dispositions, step by step.                                         *)

\* What a transaction may do to a job: nothing, dispose it while it is open
\* (and complete agent, review or effect jobs only without a new message), or
\* enqueue it (a binding only once).
OutboxMove(j) ==
  \/ outbox'[j] = outbox[j]
  \/ outbox[j] = "pending" /\ outbox'[j] \in {"SUPERSEDED", "TERMINAL_FAILURE"}
  \/ /\ outbox[j] = "pending" /\ outbox'[j] = "COMPLETED"
     /\ j \in SystemJobs => head = checkpoint.cursor
  \/ outbox'[j] = "pending" /\ (j \in SystemJobs \/ outbox[j] = "absent")

LEMMA AppendMessageMove ==
  ASSUME IInv, AppendMessage, NEW j \in Jobs
  PROVE  OutboxMove(j)
<1>1. head \in Sequences /\ head + 1 \in Sequences /\ head + 1 > head
  BY MaxMessagesAssumption DEF AppendMessage, IInv, TypeOK, Sequences
<1>2. Binding(head + 1) \in Jobs /\ outbox[Binding(head + 1)] = "absent"
  BY <1>1, BindingJobs DEF IInv, WorkIsTracked, FutureIsAbsent
<1>3. /\ outbox' = [outbox EXCEPT ![Binding(head + 1)] = "pending"]
      /\ outbox \in [Jobs -> Dispositions \cup {"absent", "pending"}]
  BY DEF AppendMessage, Enqueue, IInv, TypeOK
<1> QED BY <1>2, <1>3 DEF OutboxMove

LEMMA ReconcileMove ==
  ASSUME NEW w, NEW ob, NEW j \in Jobs, Reconcile(w, ob),
         ob[j] = outbox[j] \/ (outbox[j] = "pending" /\ ob[j] = "SUPERSEDED")
  PROVE  OutboxMove(j)
<1>1. \/ outbox' = ob
      \/ \E selected : outbox' = Superseded(ob, selected)
  BY DEF Reconcile, EnqueueNothing
<1>2. outbox'[j] = ob[j] \/ (ob[j] = "pending" /\ outbox'[j] = "SUPERSEDED")
  BY <1>1 DEF Superseded
<1> QED BY <1>2 DEF OutboxMove

LEMMA SupersedeMove ==
  ASSUME IInv, NEW w \in Workers, Entitled(w), Supersede(w), NEW j \in Jobs
  PROVE  OutboxMove(j)
<1> DEFINE ob == Disposed(Job(w), "SUPERSEDED")
<1>1. outbox \in [Jobs -> Dispositions \cup {"absent", "pending"}]
  BY DEF IInv, TypeOK
<1>2. ob[j] = outbox[j] \/ (outbox[j] = "pending" /\ ob[j] = "SUPERSEDED")
  BY <1>1 DEF Disposed, Entitled
<1>3. Reconcile(w, ob)
  BY DEF Supersede
<1> QED BY <1>2, <1>3, ReconcileMove

\* A commit disposes its own job alone, and if it completes an agent, review
\* or effect job, that job is not stale.
LEMMA CommitMove ==
  ASSUME IInv, NEW w \in Workers, worker[w].at # "idle", Entitled(w),
         NEW how \in Dispositions,
         IsStale(w) => how # "COMPLETED" \/ Job(w).kind = "message_binding",
         NEW next \in SystemJobs,
         \/ outbox' = Disposed(Job(w), how)
         \/ outbox' = [Disposed(Job(w), how) EXCEPT ![next] = "pending"],
         NEW j \in Jobs
  PROVE  OutboxMove(j)
<1>1. outbox \in [Jobs -> Dispositions \cup {"absent", "pending"}]
  BY DEF IInv, TypeOK
<1>2. /\ Job(w) \in Jobs
      /\ outbox[Job(w)] = "pending"
  BY EntitledJob
<1>3. next \in Jobs
  BY SystemJobsAreJobs
<1>4. \/ outbox'[j] = outbox[j]
      \/ j = Job(w) /\ outbox'[j] = how
      \/ j = next /\ outbox'[j] = "pending"
  BY <1>1, <1>2, <1>3 DEF Disposed
<1>5. ASSUME how = "COMPLETED", Job(w) \in SystemJobs
      PROVE  head = checkpoint.cursor
  <2>1. Job(w) \notin stale
    BY <1>2, <1>5, JobsAreNamed DEF IsStale
  <2> QED BY <1>2, <1>5, <2>1 DEF IInv, WorkIsTracked, FreshJobsAreCurrent
<1> QED BY <1>2, <1>4, <1>5 DEF OutboxMove, Dispositions

\* One case per action that writes the outbox.
LEMMA OutboxMoves ==
  ASSUME IInv, [Next]_vars, NEW j \in Jobs
  PROVE  OutboxMove(j)
<1>1. CASE UNCHANGED outbox
  BY <1>1 DEF OutboxMove
<1>2. CASE IngressMessage \/ SubmitUserDecision
  BY <1>2, AppendMessageMove DEF IngressMessage, SubmitUserDecision
<1>3. CASE AdvanceMailbox \/ AdvanceAgain
  BY <1>3, ReconcileMove DEF AdvanceMailbox, AdvanceAgain
<1>4. CASE EnqueuePrimaryAgentJob
  <2>1. /\ outbox' = [outbox EXCEPT ![System("primary_agent")] = "pending"]
        /\ outbox \in [Jobs -> Dispositions \cup {"absent", "pending"}]
        /\ System("primary_agent") \in SystemJobs
    BY <1>4, SystemJobsAreJobs
    DEF EnqueuePrimaryAgentJob, Enqueue, IInv, TypeOK, SystemKinds
  <2> QED BY <2>1, SystemJobsAreJobs DEF OutboxMove
<1>5. ASSUME NEW w \in Workers,
             \/ SupersedeStale(w) \/ SupersedeBinding(w)
             \/ SupersedeAnswered(w) \/ SupersedeEffect(w)
      PROVE  OutboxMove(j)
  BY <1>5, SupersedeMove DEF SupersedeStale, SupersedeBinding,
     SupersedeAnswered, SupersedeEffect
<1>6. System("effect") \in SystemJobs
  BY SystemJobsAreJobs DEF SystemKinds
<1>7. ASSUME NEW w \in Workers, CommitMessageBinding(w)
      PROVE  OutboxMove(j)
  <2>1. /\ worker[w].at # "idle" /\ Entitled(w)
        /\ Job(w).kind = "message_binding"
        /\ outbox' = Disposed(Job(w), "COMPLETED")
    BY <1>7 DEF CommitMessageBinding, Complete, EnqueueNothing
  <2>2. "COMPLETED" \in Dispositions
    BY DEF Dispositions
  <2> QED BY <1>6, <2>1, <2>2, CommitMove
<1>8. ASSUME NEW w \in Workers,
             \/ CommitProposal(w) \/ CommitFrameReview(w) \/ CommitEffect(w)
      PROVE  OutboxMove(j)
  <2>1. /\ worker[w].at # "idle" /\ Entitled(w) /\ ~IsStale(w)
        /\ \E how \in Dispositions : outbox' = Disposed(Job(w), how)
    BY <1>8 DEF CommitProposal, CommitFrameReview, CommitEffect, Complete,
       EnqueueNothing, Dispositions
  <2> QED BY <1>6, <2>1, CommitMove
<1>9. ASSUME NEW w \in Workers, CommitProposalWithJob(w)
      PROVE  OutboxMove(j)
  <2>1. /\ worker[w].at # "idle" /\ Entitled(w) /\ ~IsStale(w)
        /\ "COMPLETED" \in Dispositions
    BY <1>9 DEF CommitProposalWithJob, Dispositions
  <2>2. \E next \in SystemJobs : CompleteAndEnqueue(w, next)
    BY <1>9, SystemJobsAreJobs DEF CommitProposalWithJob, SystemKinds
  <2>3. PICK next \in SystemJobs :
          outbox' = [Disposed(Job(w), "COMPLETED") EXCEPT ![next] = "pending"]
    BY <2>2 DEF CompleteAndEnqueue, Enqueue
  <2> QED BY <2>1, <2>3, CommitMove
<1>10. ASSUME NEW w \in Workers, CommitProviderFailure(w)
       PROVE  OutboxMove(j)
  <2>1. worker[w].at # "idle" /\ Entitled(w)
    BY <1>10 DEF CommitProviderFailure
  <2>2. \/ Supersede(w)
        \/ outbox' = Disposed(Job(w), "TERMINAL_FAILURE")
    BY <1>10 DEF CommitProviderFailure, EnqueueNothing
  <2>3. "TERMINAL_FAILURE" \in Dispositions /\ "TERMINAL_FAILURE" # "COMPLETED"
    BY DEF Dispositions
  <2> QED BY <1>6, <2>1, <2>2, <2>3, SupersedeMove, CommitMove
<1>11. CASE RecordUserDecision
  BY <1>1, <1>11 DEF RecordUserDecision
<1>12. ASSUME NEW w \in Workers,
              \/ Load(w) \/ Acquire(w) \/ CannotAcquire(w) \/ ModelAnswers(w)
              \/ ModelAnswersTooLate(w) \/ CommitEffectRetry(w) \/ GiveUp(w)
              \/ Release(w) \/ Crash(w) \/ LoseLease(w)
       PROVE  UNCHANGED outbox
  BY <1>12 DEF Load, Acquire, CannotAcquire, ModelAnswers,
     ModelAnswersTooLate, CommitEffectRetry, GiveUp, Release, Crash, LoseLease,
     jobVars
<1>13. ASSUME NEW i \in Jobs, DeadLeaseExpires(i) PROVE UNCHANGED outbox
  BY <1>13 DEF DeadLeaseExpires, jobVars
<1>14. CASE UNCHANGED vars
  BY <1>1, <1>14 DEF vars
<1> QED BY <1>1, <1>2, <1>3, <1>4, <1>5, <1>7, <1>8, <1>9, <1>10, <1>11, <1>12,
           <1>13, <1>14
        DEF Next, ControllerStep, DeliveryStep

\* _job_is_stale and the enqueueing of a binding with its message: no agent,
\* review or effect job is completed while a message it could not know waits.
THEOREM MessageFences == Spec => NewMessageFences
<1>1. ASSUME IInv, [Next]_vars, NEW j \in SystemJobs,
             outbox[j] = "pending", outbox'[j] = "COMPLETED"
      PROVE  head = checkpoint.cursor
  BY <1>1, OutboxMoves, SystemJobsAreJobs DEF OutboxMove
<1>2. IInv /\ [Next]_vars =>
        [\A j \in SystemJobs :
           outbox[j] = "pending" /\ outbox'[j] = "COMPLETED"
             => head = checkpoint.cursor]_vars
  BY <1>1
<1> QED BY <1>2, Invariance, PTL DEF Spec, NewMessageFences

\* record_job_disposition: the binding job of a message is disposed at most
\* once, whichever delivery disposes it.
THEOREM DispositionsFinal == Spec => DispositionsAreFinal
<1>1. ASSUME IInv, [Next]_vars, NEW n \in Sequences,
             outbox[Binding(n)] \in Dispositions
      PROVE  outbox'[Binding(n)] = outbox[Binding(n)]
  BY <1>1, OutboxMoves, BindingJobs DEF OutboxMove, Dispositions
<1>2. IInv /\ [Next]_vars =>
        [\A n \in Sequences :
           outbox[Binding(n)] \in Dispositions
             => outbox'[Binding(n)] = outbox[Binding(n)]]_vars
  BY <1>1
<1> QED BY <1>2, Invariance, PTL DEF Spec, DispositionsAreFinal

\* The binding of a lost message is in the outbox, so the message is in the
\* mailbox, and the cursor is before it.
LEMMA LostIsUnbound ==
  ASSUME IInv, NEW n \in Sequences,
         outbox[Binding(n)] \in {"SUPERSEDED", "TERMINAL_FAILURE"}
  PROVE  checkpoint.cursor < n /\ n <= head
<1>1. outbox[Binding(n)] # "COMPLETED" /\ outbox[Binding(n)] # "absent"
  OBVIOUS
<1>2. ~(n <= checkpoint.cursor) /\ ~(n > head)
  BY <1>1 DEF IInv, WorkIsTracked, BoundUpToCursor, FutureIsAbsent
<1>3. n \in Nat /\ checkpoint.cursor \in Nat /\ head \in Nat
  BY DEF IInv, TypeOK, Checkpoints, Sequences
<1> QED BY <1>2, <1>3

\* The finding of run case_decision_race, and a binding that fails for good,
\* for every number of messages: a lost message is never made up for.
THEOREM LostMessagesEndTheCase == Spec => LostMessageEndsTheCase
<1>1. ASSUME IInv, [Next]_vars, NEW n \in Sequences,
             outbox[Binding(n)] \in {"SUPERSEDED", "TERMINAL_FAILURE"}
      PROVE  /\ checkpoint'.cursor < n
             /\ \A j \in SystemJobs :
                  outbox'[j] = "COMPLETED" => outbox[j] = "COMPLETED"
  <2>1. outbox'[Binding(n)] = outbox[Binding(n)]
    BY <1>1, OutboxMoves, BindingJobs DEF OutboxMove
  <2>2. IInv'
    BY <1>1, InvStep
  <2>3. checkpoint'.cursor < n
    <3>1. ~(n <= checkpoint'.cursor)
      BY <1>1, <2>1, <2>2 DEF IInv, WorkIsTracked, BoundUpToCursor
    <3>2. n \in Nat /\ checkpoint'.cursor \in Nat
      BY <2>2 DEF IInv, TypeOK, Checkpoints, Sequences
    <3> QED BY <3>1, <3>2
  <2>4. head # checkpoint.cursor
    <3>1. n \in Nat /\ checkpoint.cursor \in Nat /\ head \in Nat
      BY <1>1 DEF IInv, TypeOK, Checkpoints, Sequences
    <3> QED BY <1>1, <3>1, LostIsUnbound
  <2>5. ASSUME NEW j \in SystemJobs, outbox'[j] = "COMPLETED"
        PROVE  outbox[j] = "COMPLETED"
    BY <1>1, <2>4, <2>5, OutboxMoves, SystemJobsAreJobs DEF OutboxMove
  <2> QED BY <2>3, <2>5
<1>2. IInv /\ [Next]_vars =>
        [\A n \in Sequences :
           outbox[Binding(n)] \in {"SUPERSEDED", "TERMINAL_FAILURE"} =>
             /\ checkpoint'.cursor < n
             /\ \A j \in SystemJobs :
                  outbox'[j] = "COMPLETED" => outbox[j] = "COMPLETED"]_vars
  BY <1>1
<1> QED BY <1>2, Invariance, PTL DEF Spec, LostMessageEndsTheCase
=============================================================================
