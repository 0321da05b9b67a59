----------------------- MODULE ObligationEvidence_proofs -----------------------
(***************************************************************************)
(* Machine-checked facts about ObligationEvidence, for every plan and its  *)
(* dependencies, every set of workers, and any number of revisions and of  *)
(* faults.                                                                 *)
(***************************************************************************)
EXTENDS ObligationEvidence, TLAPS

\* What was handed out belongs to an authority the case has had, can be
\* executed, and came after everything it depends on.
DispatchedInOrder ==
  \A j \in dispatched :
    /\ j[1] <= authority
    /\ j[2] \in Executable
    /\ \A q \in DependsOn[j[2]] : completion[<<j[1], q>>] = "SUCCEEDED"

\* Only schedules of the past are superseded.
SupersededIsPast ==
  \A j \in Jobs : completion[j] = "SUPERSEDED" => j[1] < authority

\* Evidence comes from a result that was landed for a job that was handed out.
EvidenceIsGrounded ==
  \A j \in Jobs :
    /\ receipt[j] # "none" => j \in dispatched /\ j[2] \notin Reported
    /\ validity[j] # "none" => receipt[j] # "none"

Waiting == {"WAITING_FOR_EFFECT", "WAITING_FOR_EVIDENCE_ADMISSION"}

\* The checkpoint names a job exactly while it waits for one, and a message
\* while it waits for a binding.
CheckpointIsTruthful ==
  /\ phase \in Waiting => pending \in dispatched /\ pending[2] \notin Reported
  /\ phase \notin Waiting => pending = NoJob
  /\ phase = "WAITING_FOR_MESSAGE_BINDING" => unread > 0
  /\ unread <= authority

\* A delivery works on a job that was handed out.  If its checkpoint is the
\* newest it is the job the case waits for; if it holds the lease and the
\* authority stands, nobody else landed a result or disposed of the job.
DeliveryIsSound(w) ==
  LET j == worker[w].job
  IN  /\ worker[w].at # "idle" => j \in dispatched /\ j[2] \notin Reported
      /\ worker[w].at \notin {"idle", "executing"} => receipt[j] # "none"
      /\ worker[w].fresh =>
           worker[w].at # "idle" /\ phase \in Waiting /\ pending = j
      /\ worker[w].at = "executing" /\ holder[j] = w =>
           /\ receipt[j] = "none"
           /\ ~ Drifted(j[1]) => disposition[j] = "none"

DeliveriesAreSound == \A w \in Workers : DeliveryIsSound(w)

ScheduleInv == DispatchedInOrder /\ SupersededIsPast /\ SupersededAsAWhole

EvidenceInv ==
  /\ EvidenceIsGrounded
  /\ SettledTogether
  /\ UsableEvidenceIsOfItsPlan
  /\ SatisfactionMatchesEvidence

ControlInv == CheckpointIsTruthful /\ WaitsForLiveWork /\ DeliveriesAreSound

IInv == TypeOK /\ ScheduleInv /\ EvidenceInv /\ ControlInv
-----------------------------------------------------------------------------
(* Jobs, and the closing of obligations.                                   *)

LEMMA JobsArePairs ==
  /\ \A j \in Jobs : /\ j[1] \in Revisions /\ j[2] \in Obligations
                     /\ j = <<j[1], j[2]>>
                     /\ j # NoJob
  /\ \A a \in Revisions, o \in Obligations :
       /\ <<a, o>> \in Jobs
       /\ <<a, o>>[1] = a /\ <<a, o>>[2] = o
BY DEF Jobs, NoJob

LEMMA RevisionsAreNatural ==
  /\ Revisions \subseteq Nat
  /\ \A a \in Revisions : a < MaxRevisions => a + 1 \in Revisions
BY MaxRevisionsAssumption DEF Revisions

\* What is propagated was open, and is closed for a reason: the obligation
\* cannot be executed, or something it depends on is closed as well.
LEMMA PropagationHasReason ==
  ASSUME NEW a, NEW done, NEW o \in Propagated(a, done)
  PROVE  /\ o \in Obligations
         /\ done[<<a, o>>] = "none"
         /\ \/ o \notin Executable
            \/ \E q \in DependsOn[o] :
                 q \in Propagated(a, done) \/ done[<<a, q>>] = "CLOSED"
<1> DEFINE P == Propagated(a, done)
           Waits(p) == \E q \in DependsOn[p] : q \in P \/ done[<<a, q>>] = "CLOSED"
           Q == {p \in P : /\ done[<<a, p>>] = "none"
                           /\ p \notin Executable \/ Waits(p)}
<1>1. Q \in SUBSET Obligations /\ P \in SUBSET Obligations
  BY DEF Propagated
<1>2. ASSUME NEW closed \in SUBSET Obligations, Propagates(a, done, closed)
      PROVE  P \subseteq closed
  BY <1>2 DEF Propagated
<1>3. CannotExecute(a, done) \subseteq Q
  <2>1. CannotExecute(a, done) \subseteq P
    BY DEF Propagated, Propagates, CannotExecute
  <2> QED BY <2>1 DEF CannotExecute
<1>4. ASSUME NEW p \in Obligations, done[<<a, p>>] = "none",
             \E q \in DependsOn[p] : q \in Q \/ done[<<a, q>>] = "CLOSED"
      PROVE  p \in Q
  <2>1. Waits(p)
    BY <1>4
  <2>2. ASSUME NEW closed \in SUBSET Obligations, Propagates(a, done, closed)
        PROVE  p \in closed
    <3>1. \E q \in DependsOn[p] : q \in closed \/ done[<<a, q>>] = "CLOSED"
      BY <1>2, <2>1, <2>2
    <3> QED BY <1>4, <2>2, <3>1 DEF Propagates
  <2>3. p \in P
    BY <2>2 DEF Propagated
  <2> QED BY <1>4, <2>1, <2>3
<1>5. Propagates(a, done, Q)
  BY <1>3, <1>4 DEF Propagates
<1>6. o \in Q
  BY <1>1, <1>2, <1>5
<1> QED BY <1>6, <1>1

\* Closing settles open obligations of one schedule, each for a reason, and
\* leaves alone what is settled and whatever has been handed out.
LEMMA ClosingEffect ==
  ASSUME NEW a \in Revisions, NEW done \in [Jobs -> ObligationTerminalStatus]
  PROVE  /\ Closing(a, done) \in [Jobs -> ObligationTerminalStatus]
         /\ \A j \in Jobs :
              \/ Closing(a, done)[j] = done[j]
              \/ /\ j[1] = a
                 /\ done[j] = "none"
                 /\ Closing(a, done)[j] = "CLOSED"
                 /\ \/ j[2] \notin Executable
                    \/ \E q \in DependsOn[j[2]] :
                         Closing(a, done)[<<a, q>>] = "CLOSED"
<1>1. Closing(a, done) \in [Jobs -> ObligationTerminalStatus]
  BY DEF Closing, ObligationTerminalStatus
<1>2. ASSUME NEW j \in Jobs, Closing(a, done)[j] # done[j]
      PROVE  /\ j[1] = a
             /\ done[j] = "none"
             /\ Closing(a, done)[j] = "CLOSED"
             /\ \/ j[2] \notin Executable
                \/ \E q \in DependsOn[j[2]] :
                     Closing(a, done)[<<a, q>>] = "CLOSED"
  <2>1. /\ j[1] = a
        /\ j[2] \in Propagated(a, done)
        /\ Closing(a, done)[j] = "CLOSED"
    BY <1>2 DEF Closing
  <2>2. done[<<a, j[2]>>] = "none" /\ <<a, j[2]>> = j
    BY <2>1, PropagationHasReason, JobsArePairs
  <2>3. ASSUME NEW q \in DependsOn[j[2]],
               q \in Propagated(a, done) \/ done[<<a, q>>] = "CLOSED"
        PROVE  Closing(a, done)[<<a, q>>] = "CLOSED"
    <3>1. q \in Obligations
      BY JobsArePairs, DependsOnAssumption
    <3> QED BY <2>3, <3>1, JobsArePairs DEF Closing
  <2> QED BY <2>1, <2>2, <2>3, PropagationHasReason
<1> QED BY <1>1, <1>2

LEMMA RunnableJobs ==
  ASSUME NEW a \in Revisions, NEW done, NEW j \in Runnable(a, done)
  PROVE  /\ j \in Jobs /\ j[1] = a
         /\ j[2] \in Executable
         /\ done[j] = "none"
         /\ \A q \in DependsOn[j[2]] : done[<<a, q>>] = "SUCCEEDED"
<1>1. PICK o \in Executable :
        /\ j = <<a, o>>
        /\ done[<<a, o>>] = "none"
        /\ \A q \in DependsOn[o] : done[<<a, q>>] = "SUCCEEDED"
  BY DEF Runnable
<1>2. o \in Obligations
  BY ExecutableAssumption
<1> QED BY <1>1, <1>2, JobsArePairs

\* What one transaction may do to a job: the promise of the ledger, spelled
\* out for the variables of the schedule.
JobMove(j) ==
  \/ completion'[j] = completion[j] /\ (j \in dispatched' <=> j \in dispatched)
  \/ /\ completion[j] = "none" /\ j \notin dispatched
     /\ j[1] = authority /\ j[2] \in Executable
     /\ \A q \in DependsOn[j[2]] : completion'[<<j[1], q>>] = "SUCCEEDED"
     /\ completion'[j] = "none" /\ j \in dispatched'
  \/ /\ completion[j] = "none" /\ j \notin dispatched
     /\ \/ j[2] \notin Executable
        \/ \E q \in DependsOn[j[2]] : completion'[<<j[1], q>>] = "CLOSED"
     /\ completion'[j] = "CLOSED" /\ j \notin dispatched'
  \/ /\ completion[j] = "none" /\ j \in dispatched
     /\ j[1] = authority
     /\ completion'[j] \in {"SUCCEEDED", "CLOSED"} /\ j \in dispatched'
  \/ /\ completion[j] = "none" /\ j[1] < authority
     /\ completion'[j] = "SUPERSEDED"
     /\ (j \in dispatched' <=> j \in dispatched)

ScheduleMoves ==
  /\ completion' \in [Jobs -> ObligationTerminalStatus]
  /\ dispatched' \in SUBSET Jobs
  /\ \A j \in Jobs : JobMove(j)

\* resume, after the completion of one obligation or of none.
LEMMA ResumeMoves ==
  ASSUME TypeOK, DispatchedInOrder,
         NEW done \in [Jobs -> ObligationTerminalStatus], NEW seals,
         \A j \in Jobs :
           \/ done[j] = completion[j]
           \/ /\ j \in dispatched /\ j[1] = authority
              /\ completion[j] = "none"
              /\ done[j] \in {"SUCCEEDED", "CLOSED"},
         Resume(authority, done, seals)
  PROVE  /\ ScheduleMoves
         /\ \A j \in Jobs : done[j] # "none" => completion'[j] = done[j]
         /\ \A j \in Jobs : j[1] # authority =>
              completion'[j] = completion[j] /\ (j \in dispatched' <=> j \in dispatched)
<1> DEFINE closing == Closing(authority, done)
           handed == Runnable(authority, closing) \ dispatched
<1>1. /\ authority \in Revisions /\ dispatched \subseteq Jobs
      /\ completion \in [Jobs -> ObligationTerminalStatus]
  BY DEF TypeOK
<1>2. completion' = closing /\ dispatched' = dispatched \cup handed
  BY DEF Resume
<1>3. /\ closing \in [Jobs -> ObligationTerminalStatus]
      /\ \A j \in Jobs :
           \/ closing[j] = done[j]
           \/ /\ j[1] = authority
              /\ done[j] = "none"
              /\ closing[j] = "CLOSED"
              /\ \/ j[2] \notin Executable
                 \/ \E q \in DependsOn[j[2]] : closing[<<authority, q>>] = "CLOSED"
  BY <1>1, ClosingEffect
<1>4. \A j \in handed :
        /\ j \in Jobs /\ j[1] = authority /\ j[2] \in Executable
        /\ closing[j] = "none" /\ j \notin dispatched
        /\ \A q \in DependsOn[j[2]] : closing[<<authority, q>>] = "SUCCEEDED"
  BY <1>1, RunnableJobs
<1>5. ASSUME NEW j \in Jobs, closing[j] # done[j]
      PROVE  j \notin dispatched
  <2>1. SUFFICES ASSUME j \in dispatched PROVE FALSE
    OBVIOUS
  <2>2. /\ j[1] = authority
        /\ \E q \in DependsOn[j[2]] : closing[<<authority, q>>] = "CLOSED"
    BY <1>3, <1>5, <2>1 DEF DispatchedInOrder
  <2>3. PICK q \in DependsOn[j[2]] : closing[<<authority, q>>] = "CLOSED"
    BY <2>2
  <2>4. completion[<<authority, q>>] = "SUCCEEDED" /\ <<authority, q>> \in Jobs
    BY <2>1, <2>2, <1>1, JobsArePairs, DependsOnAssumption DEF DispatchedInOrder
  <2> QED BY <1>3, <2>3, <2>4
<1>6. ASSUME NEW j \in Jobs PROVE JobMove(j)
  <2>1. CASE j \in handed
    BY <1>2, <1>3, <1>4, <2>1 DEF JobMove
  <2>2. CASE j \notin handed /\ closing[j] # done[j]
    BY <1>2, <1>3, <1>5, <2>2 DEF JobMove
  <2>3. CASE j \notin handed /\ closing[j] = done[j]
    BY <1>2, <2>3 DEF JobMove
  <2> QED BY <2>1, <2>2, <2>3
<1>7. dispatched' \in SUBSET Jobs
  BY <1>1, <1>2, <1>4
<1> QED BY <1>2, <1>3, <1>4, <1>6, <1>7 DEF ScheduleMoves

\* _supersede_schedule of a past authority.
LEMMA SupersedeMoves ==
  ASSUME TypeOK, NEW a \in Revisions, a < authority, SupersedeSchedule(a)
  PROVE  ScheduleMoves
<1>1. /\ completion \in [Jobs -> ObligationTerminalStatus]
      /\ dispatched \subseteq Jobs
  BY DEF TypeOK
<1>2. completion' \in [Jobs -> ObligationTerminalStatus]
  BY <1>1 DEF SupersedeSchedule, ObligationTerminalStatus
<1>3. ASSUME NEW j \in Jobs PROVE JobMove(j)
  BY <1>1, <1>3 DEF SupersedeSchedule, JobMove
<1> QED BY <1>1, <1>2, <1>3 DEF ScheduleMoves, SupersedeSchedule

\* The moves keep the order of a schedule.
LEMMA MovesKeepOrder ==
  ASSUME TypeOK, DispatchedInOrder, SupersededIsPast, ScheduleMoves,
         authority' = authority
  PROVE  DispatchedInOrder' /\ SupersededIsPast'
<1>1. authority \in Nat /\ dispatched \subseteq Jobs
  BY RevisionsAreNatural DEF TypeOK
<1>2. \A j \in Jobs : completion[j] # "none" => completion'[j] = completion[j]
  BY DEF ScheduleMoves, JobMove
<1>3. ASSUME NEW j \in dispatched'
      PROVE  /\ j[1] <= authority /\ j[2] \in Executable
             /\ \A q \in DependsOn[j[2]] : completion'[<<j[1], q>>] = "SUCCEEDED"
  <2>1. j \in Jobs
    BY <1>3 DEF ScheduleMoves
  <2>2. CASE j \in dispatched
    <3>1. /\ j[1] <= authority /\ j[2] \in Executable
          /\ \A q \in DependsOn[j[2]] : completion[<<j[1], q>>] = "SUCCEEDED"
      BY <2>2 DEF DispatchedInOrder
    <3>2. \A q \in DependsOn[j[2]] : <<j[1], q>> \in Jobs
      BY <2>1, JobsArePairs, DependsOnAssumption
    <3> QED BY <1>2, <3>1, <3>2
  <2>3. CASE j \notin dispatched
    BY <1>1, <1>3, <2>1, <2>3 DEF ScheduleMoves, JobMove
  <2> QED BY <2>2, <2>3
<1>4. DispatchedInOrder'
  BY <1>3 DEF DispatchedInOrder
<1>5. SupersededIsPast'
  BY DEF SupersededIsPast, ScheduleMoves, JobMove
<1> QED BY <1>4, <1>5

\* What admit_completion does to the disposition of a job.
DispositionMove(j, i, status) ==
  \/ disposition'[i] = disposition[i]
  \/ /\ i = j /\ j[1] = authority
     /\ disposition[i] = "none" /\ holder[i] = "nobody"
     /\ completion[i] = "none" /\ completion'[i] = status
     /\ disposition'[i] = "COMPLETED"
  \/ /\ i[1] < authority
     /\ disposition[i] = "none"
     /\ disposition'[i] = "SUPERSEDED"

LEMMA CompletionEffect ==
  ASSUME TypeOK, ScheduleInv, NEW j \in dispatched,
         NEW status \in {"SUCCEEDED", "CLOSED"}, AdmitCompletion(j, status)
  PROVE  /\ ScheduleMoves
         /\ disposition' \in [Jobs -> JobDisposition]
         /\ \A i \in Jobs : DispositionMove(j, i, status)
         /\ \A i \in Jobs :
              completion[i] = "none" /\ completion'[i] = "SUCCEEDED" =>
                i = j /\ status = "SUCCEEDED" /\ disposition'[i] = "COMPLETED"
         /\ completion'[j] \in {status, "SUPERSEDED"}
         /\ SupersededAsAWhole'
<1>1. /\ j \in Jobs /\ j[1] \in Revisions /\ j[1] <= authority
      /\ authority \in Nat /\ j[1] \in Nat
      /\ completion \in [Jobs -> ObligationTerminalStatus]
      /\ disposition \in [Jobs -> JobDisposition]
      /\ dispatched \subseteq Jobs
  BY JobsArePairs, RevisionsAreNatural
  DEF TypeOK, ScheduleInv, DispatchedInOrder
<1>2. CASE /\ \/ completion[j] = status
              \/ completion[j] = "SUPERSEDED" /\ disposition[j] = "SUPERSEDED"
           /\ UNCHANGED <<completion, dispatched, disposition>>
  <2>1. ScheduleMoves
    BY <1>1, <1>2 DEF ScheduleMoves, JobMove
  <2>2. SupersededAsAWhole'
    BY <1>2 DEF ScheduleInv, SupersededAsAWhole
  <2> QED BY <1>1, <1>2, <2>1, <2>2 DEF DispositionMove
<1>3. CASE /\ completion[j] = "none"
           /\ Drifted(j[1])
           /\ SupersedeSchedule(j[1])
  <2>1. j[1] < authority
    BY <1>1, <1>3 DEF Drifted
  <2>2. ScheduleMoves
    BY <1>1, <1>3, <2>1, SupersedeMoves
  <2>3. disposition' \in [Jobs -> JobDisposition]
    BY <1>1, <1>3 DEF SupersedeSchedule, JobDisposition
  <2>4. \A i \in Jobs : DispositionMove(j, i, status)
    BY <1>1, <1>3, <2>1 DEF SupersedeSchedule, DispositionMove
  <2>5. /\ completion'[j] = "SUPERSEDED"
        /\ \A i \in Jobs : completion[i] = "none" => completion'[i] # "SUCCEEDED"
    BY <1>1, <1>3 DEF SupersedeSchedule
  <2>6. SupersededAsAWhole'
    <3>1. SUFFICES ASSUME NEW a \in Revisions, NEW o \in Obligations,
                          completion'[<<a, o>>] = "SUPERSEDED",
                          NEW p \in Obligations
                   PROVE  /\ completion'[<<a, p>>] # "none"
                          /\ <<a, p>> \in dispatched' => disposition'[<<a, p>>] # "none"
      BY DEF SupersededAsAWhole
    <3>2. /\ <<a, o>> \in Jobs /\ <<a, p>> \in Jobs
          /\ <<a, o>>[1] = a /\ <<a, p>>[1] = a
      BY JobsArePairs
    <3>3. CASE a = j[1]
      BY <1>1, <1>3, <3>2, <3>3 DEF SupersedeSchedule
    <3>4. CASE a # j[1]
      <4>1. completion[<<a, o>>] = "SUPERSEDED"
        BY <1>1, <1>3, <3>1, <3>2, <3>4 DEF SupersedeSchedule
      <4>2. /\ completion[<<a, p>>] # "none"
            /\ <<a, p>> \in dispatched => disposition[<<a, p>>] # "none"
        BY <4>1 DEF ScheduleInv, SupersededAsAWhole
      <4> QED BY <1>1, <1>3, <3>2, <3>4, <4>2 DEF SupersedeSchedule
    <3> QED BY <3>3, <3>4
  <2> QED BY <2>2, <2>3, <2>4, <2>5, <2>6
<1>4. CASE /\ completion[j] = "none"
           /\ Free(j)
           /\ ~ Drifted(j[1])
           /\ disposition' = [disposition EXCEPT ![j] = "COMPLETED"]
           /\ Resume(j[1], [completion EXCEPT ![j] = status], sealed')
  <2> DEFINE done == [completion EXCEPT ![j] = status]
  <2>1. j[1] = authority
    BY <1>4 DEF Drifted
  <2>2. /\ done \in [Jobs -> ObligationTerminalStatus]
        /\ \A i \in Jobs :
             \/ done[i] = completion[i]
             \/ /\ i \in dispatched /\ i[1] = authority
                /\ completion[i] = "none"
                /\ done[i] \in {"SUCCEEDED", "CLOSED"}
        /\ done[j] = status
    BY <1>1, <1>4, <2>1 DEF ObligationTerminalStatus
  <2>3. /\ ScheduleMoves
        /\ \A i \in Jobs : done[i] # "none" => completion'[i] = done[i]
        /\ \A i \in Jobs : completion'[i] \in {done[i], "CLOSED"}
    <3> HIDE DEF done
    <3>1. Resume(authority, done, sealed')
      BY <1>4, <2>1 DEF done
    <3>2. \A i \in Jobs : completion'[i] \in {done[i], "CLOSED"}
      BY <1>1, <2>1, <2>2, <3>1, ClosingEffect DEF Resume
    <3> QED BY <2>2, <3>1, <3>2, ResumeMoves DEF ScheduleInv
  <2>4. disposition' \in [Jobs -> JobDisposition]
    BY <1>1, <1>4 DEF JobDisposition
  <2>5. completion'[j] = status /\ disposition'[j] = "COMPLETED"
    BY <1>1, <1>4, <2>2, <2>3
  <2>6. \A i \in Jobs : DispositionMove(j, i, status)
    BY <1>1, <1>4, <2>1, <2>5 DEF DispositionMove, Free
  <2>7. ASSUME NEW i \in Jobs, completion[i] = "none", completion'[i] = "SUCCEEDED"
        PROVE  i = j
    BY <1>1, <2>3, <2>7
  <2>8. SupersededAsAWhole'
    <3>1. SUFFICES ASSUME NEW a \in Revisions, NEW o \in Obligations,
                          completion'[<<a, o>>] = "SUPERSEDED",
                          NEW p \in Obligations
                   PROVE  /\ completion'[<<a, p>>] # "none"
                          /\ <<a, p>> \in dispatched' => disposition'[<<a, p>>] # "none"
      BY DEF SupersededAsAWhole
    <3>2. /\ <<a, o>> \in Jobs /\ <<a, p>> \in Jobs
          /\ <<a, o>>[1] = a /\ <<a, p>>[1] = a
      BY JobsArePairs
    <3>3. completion[<<a, o>>] = "SUPERSEDED"
      BY <1>1, <2>3, <3>1, <3>2
    <3>4. /\ a < authority
          /\ completion[<<a, p>>] # "none"
          /\ <<a, p>> \in dispatched => disposition[<<a, p>>] # "none"
      BY <3>2, <3>3 DEF ScheduleInv, SupersededAsAWhole, SupersededIsPast
    <3>5. JobMove(<<a, p>>)
      BY <2>3, <3>2 DEF ScheduleMoves
    <3>6. completion'[<<a, p>>] # "none" /\ (<<a, p>> \in dispatched' => <<a, p>> \in dispatched)
      BY <1>1, <3>2, <3>4, <3>5 DEF JobMove
    <3> QED BY <1>1, <1>4, <3>2, <3>4, <3>6
  <2> QED BY <2>3, <2>4, <2>5, <2>6, <2>7, <2>8
<1> QED BY <1>2, <1>3, <1>4 DEF AdmitCompletion
-----------------------------------------------------------------------------
(* What most steps have in common.                                         *)

\* The satisfaction heads, spelled out for given resolutions and evidence.
Has(resolution, valid, r, o, statuses) ==
  \E k \in Jobs : resolution[k[1]] = r /\ k[2] = o /\ valid[k] \in statuses

Matching(resolution, valid, heads) ==
  \A r \in Revisions, o \in Obligations :
    heads[<<r, o>>] =
      IF Has(resolution, valid, r, o, {"ADMITTED_VALID"}) THEN "SATISFIED"
      ELSE IF Has(resolution, valid, r, o, {"NEVER_ADMITTED", "WITHDRAWN"})
           THEN "BLOCKED" ELSE "OPEN"

LEMMA SatisfactionIs ==
  ASSUME NEW r, NEW o, NEW valid \in [Jobs -> EvidenceValidityStatus]
  PROVE  Satisfaction(r, o, valid) =
           IF Has(resolved, valid, r, o, {"ADMITTED_VALID"}) THEN "SATISFIED"
           ELSE IF Has(resolved, valid, r, o, {"NEVER_ADMITTED", "WITHDRAWN"})
                THEN "BLOCKED" ELSE "OPEN"
BY DEF Satisfaction, Evidence, Has, EvidenceValidityStatus

LEMMA SatisfactionMeaning ==
  /\ validity \in [Jobs -> EvidenceValidityStatus] =>
       (SatisfactionMatchesEvidence <=> Matching(resolved, validity, satisfaction))
  /\ validity' \in [Jobs -> EvidenceValidityStatus] =>
       (SatisfactionMatchesEvidence' <=>
          Matching(resolved', validity', satisfaction'))
<1>1. ASSUME NEW r \in Revisions, NEW o \in Obligations,
             validity \in [Jobs -> EvidenceValidityStatus]
      PROVE  Satisfaction(r, o, validity) =
               IF Has(resolved, validity, r, o, {"ADMITTED_VALID"})
               THEN "SATISFIED"
               ELSE IF Has(resolved, validity, r, o, {"NEVER_ADMITTED", "WITHDRAWN"})
                    THEN "BLOCKED" ELSE "OPEN"
  BY <1>1 DEF Satisfaction, Evidence, Has, EvidenceValidityStatus
<1>2. ASSUME NEW r \in Revisions, NEW o \in Obligations,
             validity' \in [Jobs -> EvidenceValidityStatus]
      PROVE  Satisfaction(r, o, validity)' =
               IF Has(resolved', validity', r, o, {"ADMITTED_VALID"})
               THEN "SATISFIED"
               ELSE IF Has(resolved', validity', r, o, {"NEVER_ADMITTED", "WITHDRAWN"})
                    THEN "BLOCKED" ELSE "OPEN"
  BY <1>2 DEF Satisfaction, Evidence, Has, EvidenceValidityStatus
<1> QED BY <1>1, <1>2 DEF SatisfactionMatchesEvidence, Matching

DispositionsGrow ==
  \A j \in Jobs : \/ disposition'[j] = disposition[j]
                  \/ disposition[j] = "none" /\ disposition'[j] \notin {"none", "COMPLETED"}

\* Steps that neither settle obligations nor touch evidence.
LEMMA QuietStep ==
  ASSUME IInv, DispositionsGrow,
         UNCHANGED <<authority, resolved, adopted, scheduleVars, evidenceVars>>
  PROVE  ScheduleInv' /\ EvidenceInv'
<1>1. /\ UNCHANGED <<authority, resolved, adopted, schedules, dispatched, completion>>
      /\ UNCHANGED <<receipt, validity, satisfaction>>
  BY DEF scheduleVars, evidenceVars
<1>2. DispatchedInOrder' /\ SupersededIsPast'
  BY <1>1 DEF IInv, ScheduleInv, DispatchedInOrder, SupersededIsPast
<1>3. SupersededAsAWhole'
  <2>1. SUFFICES ASSUME NEW a \in Revisions, NEW o \in Obligations,
                        completion'[<<a, o>>] = "SUPERSEDED",
                        NEW p \in Obligations
                 PROVE  /\ completion'[<<a, p>>] # "none"
                        /\ <<a, p>> \in dispatched' => disposition'[<<a, p>>] # "none"
    BY DEF SupersededAsAWhole
  <2>2. /\ completion[<<a, p>>] # "none"
        /\ <<a, p>> \in dispatched => disposition[<<a, p>>] # "none"
    BY <1>1, <2>1 DEF IInv, ScheduleInv, SupersededAsAWhole
  <2> QED BY <1>1, <2>2, JobsArePairs DEF DispositionsGrow
<1>4. EvidenceIsGrounded' /\ UsableEvidenceIsOfItsPlan'
  BY <1>1 DEF IInv, EvidenceInv, EvidenceIsGrounded, UsableEvidenceIsOfItsPlan
<1>5. SettledTogether'
  BY <1>1 DEF IInv, EvidenceInv, SettledTogether, DispositionsGrow
<1>6. SatisfactionMatchesEvidence'
  BY <1>1, SatisfactionMeaning DEF IInv, EvidenceInv, TypeOK
<1> QED BY <1>2, <1>3, <1>4, <1>5, <1>6 DEF ScheduleInv, EvidenceInv

\* A delivery that goes on, or is outdated, stays sound.
LEMMA DeliveryStays ==
  ASSUME TypeOK, NEW w \in Workers, DeliveryIsSound(w),
         worker'[w].at = worker[w].at, worker'[w].job = worker[w].job,
         worker'[w].fresh =>
           worker[w].fresh /\ phase' \in Waiting /\ pending' = pending,
         dispatched \subseteq dispatched',
         receipt[worker[w].job] # "none" => receipt'[worker[w].job] # "none",
         worker[w].at = "executing" /\ holder'[worker[w].job] = w =>
           /\ holder[worker[w].job] = w
           /\ receipt'[worker[w].job] = receipt[worker[w].job]
           /\ ~ Drifted(worker[w].job[1])' =>
                /\ ~ Drifted(worker[w].job[1])
                /\ disposition'[worker[w].job] = disposition[worker[w].job]
  PROVE  DeliveryIsSound(w)'
BY DEF DeliveryIsSound

LEMMA IdleIsSound ==
  ASSUME NEW w, worker[w] = Idle
  PROVE  DeliveryIsSound(w)
BY DEF DeliveryIsSound, Idle

\* A new checkpoint outdates every delivery.
LEMMA OutdateEffect ==
  ASSUME NEW deliveries \in [Workers -> Deliveries], Outdate(deliveries)
  PROVE  /\ worker' \in [Workers -> Deliveries]
         /\ \A w \in Workers :
              /\ worker'[w].at = deliveries[w].at
              /\ worker'[w].job = deliveries[w].job
              /\ worker'[w].fresh = FALSE
BY DEF Outdate, Deliveries

LEMMA Deliver ==
  ASSUME TypeOK, NEW w \in Workers, NEW step \in Steps
  PROVE  /\ Idle \in Deliveries
         /\ Finish(w) => /\ worker' \in [Workers -> Deliveries]
                         /\ worker'[w] = Idle
                         /\ \A v \in Workers \ {w} : worker'[v] = worker[v]
         /\ Goto(w, step) => /\ worker' \in [Workers -> Deliveries]
                             /\ worker'[w] = [worker[w] EXCEPT !.at = step]
                             /\ \A v \in Workers \ {w} : worker'[v] = worker[v]
         /\ Start(w, step) => /\ worker' \in [Workers -> Deliveries]
                              /\ worker'[w] = [at |-> step, job |-> pending, fresh |-> TRUE]
                              /\ \A v \in Workers \ {w} : worker'[v] = worker[v]
<1>1. Idle \in Deliveries
  BY DEF Idle, Deliveries, Steps
<1>2. worker \in [Workers -> Deliveries] /\ pending \in Jobs \cup {NoJob}
  BY DEF TypeOK
<1>3. Finish(w) => /\ worker' \in [Workers -> Deliveries]
                   /\ worker'[w] = Idle
                   /\ \A v \in Workers \ {w} : worker'[v] = worker[v]
  BY <1>1, <1>2 DEF Finish
<1>4. [worker[w] EXCEPT !.at = step] \in Deliveries
  BY <1>2 DEF Deliveries
<1>5. Goto(w, step) => /\ worker' \in [Workers -> Deliveries]
                       /\ worker'[w] = [worker[w] EXCEPT !.at = step]
                       /\ \A v \in Workers \ {w} : worker'[v] = worker[v]
  BY <1>2, <1>4 DEF Goto
<1>6. [at |-> step, job |-> pending, fresh |-> TRUE] \in Deliveries
  BY <1>2 DEF Deliveries
<1>7. Start(w, step) => /\ worker' \in [Workers -> Deliveries]
                        /\ worker'[w] = [at |-> step, job |-> pending, fresh |-> TRUE]
                        /\ \A v \in Workers \ {w} : worker'[v] = worker[v]
  BY <1>2, <1>6 DEF Start
<1> QED BY <1>1, <1>3, <1>5, <1>7

\* A worker that writes no checkpoint, disposes of nothing and lands nothing
\* disturbs no other delivery.
LEMMA OthersStay ==
  ASSUME TypeOK, DeliveriesAreSound, NEW w \in Workers,
         UNCHANGED <<authority, phase, pending, dispatched, receipt, disposition>>,
         \A v \in Workers \ {w} : worker'[v] = worker[v],
         \A v \in Workers \ {w}, j \in Jobs : holder'[j] = v => holder[j] = v
  PROVE  \A v \in Workers \ {w} : DeliveryIsSound(v)'
<1>1. ASSUME NEW v \in Workers \ {w} PROVE DeliveryIsSound(v)'
  <2>1. DeliveryIsSound(v) /\ worker'[v] = worker[v] /\ dispatched \subseteq Jobs
    BY DEF DeliveriesAreSound, TypeOK
  <2> QED BY <2>1 DEF DeliveryIsSound, Drifted
<1> QED BY <1>1
-----------------------------------------------------------------------------
(* The steps of the controller.                                            *)

\* What the invariant says of the checkpoint and of who works on what.
LEMMA Known ==
  ASSUME IInv
  PROVE  /\ TypeOK
         /\ authority \in Nat /\ unread \in Nat /\ authority <= MaxRevisions
         /\ \A j \in dispatched : /\ j \in Jobs /\ j[1] \in Revisions
                                  /\ j[1] \in Nat /\ j[1] <= authority
         /\ phase \notin Waiting => pending = NoJob
         /\ phase \in Waiting => /\ pending \in dispatched
                                 /\ pending \in Jobs
                                 /\ Drifted(pending[1]) <=> unread > 0
         /\ \A w \in Workers : /\ DeliveryIsSound(w)
                               /\ worker[w] \in Deliveries
         /\ {"nobody", "dead"} \cap Workers = {}
<1>1. TypeOK /\ CheckpointIsTruthful /\ WaitsForLiveWork /\ DeliveriesAreSound
             /\ DispatchedInOrder
  BY DEF IInv, ControlInv, ScheduleInv
<1>2. authority \in Nat /\ unread \in Nat /\ authority <= MaxRevisions
  BY <1>1, MaxRevisionsAssumption DEF TypeOK, Revisions
<1>3. ASSUME NEW j \in dispatched
      PROVE  j \in Jobs /\ j[1] \in Revisions /\ j[1] \in Nat /\ j[1] <= authority
  BY <1>1, JobsArePairs, RevisionsAreNatural DEF TypeOK, DispatchedInOrder
<1>4. phase \in Waiting => /\ pending \in dispatched
                           /\ pending \in Jobs
                           /\ Drifted(pending[1]) <=> unread > 0
  BY <1>1, <1>3 DEF WaitsForLiveWork, Waiting
<1> QED
  BY <1>1, <1>2, <1>3, <1>4, WorkersAssumption
  DEF CheckpointIsTruthful, DeliveriesAreSound, TypeOK

\* A new checkpoint that disposes at most of what the authority outgrew
\* leaves every delivery sound.
LEMMA OutdatedStay ==
  ASSUME TypeOK, DeliveriesAreSound, Outdate(worker),
         UNCHANGED <<authority, receipt, holder>>,
         dispatched \subseteq dispatched',
         \A j \in dispatched :
           ~ Drifted(j[1]) => disposition'[j] = disposition[j]
  PROVE  worker' \in [Workers -> Deliveries] /\ DeliveriesAreSound'
<1>1. worker \in [Workers -> Deliveries]
  BY DEF TypeOK
<1>2. ASSUME NEW w \in Workers PROVE DeliveryIsSound(w)'
  <2>1. /\ worker'[w].at = worker[w].at
        /\ worker'[w].job = worker[w].job
        /\ worker'[w].fresh = FALSE
    BY <1>1, OutdateEffect
  <2>2. DeliveryIsSound(w)
    BY DEF DeliveriesAreSound
  <2> QED BY <2>1, <2>2 DEF DeliveryIsSound, Drifted
<1> QED BY <1>1, <1>2, OutdateEffect DEF DeliveriesAreSound

\* What reconciling does: a job the case still waits for is one it outgrew.
LEMMA ReconcileEffect ==
  ASSUME IInv, unread > 0, Reconcile
  PROVE  /\ DispositionsGrow
         /\ disposition' \in [Jobs -> JobDisposition]
         /\ phase' = "WAITING_FOR_MESSAGE_BINDING" /\ pending' = NoJob
         /\ \A j \in dispatched :
              ~ Drifted(j[1]) => disposition'[j] = disposition[j]
<1>1. disposition \in [Jobs -> JobDisposition] /\ pending \in Jobs \cup {NoJob}
  BY DEF IInv, TypeOK
<1>2. pending # NoJob => Drifted(pending[1])
  BY Known
<1> QED
  BY <1>1, <1>2 DEF Reconcile, Checkpoint, DispositionsGrow, JobDisposition

LEMMA ReconcileMailboxInv ==
  ASSUME IInv, ReconcileMailbox PROVE IInv'
<1>1. /\ unread > 0 /\ Reconcile /\ Outdate(worker)
      /\ UNCHANGED <<authority, resolved, adopted, unread, schedules, dispatched,
                     completion, sealed, receipt, validity, satisfaction,
                     holder, faults>>
  BY DEF ReconcileMailbox, caseVars, scheduleVars, evidenceVars
<1>2. /\ DispositionsGrow
      /\ disposition' \in [Jobs -> JobDisposition]
      /\ phase' = "WAITING_FOR_MESSAGE_BINDING" /\ pending' = NoJob
      /\ \A j \in dispatched :
           ~ Drifted(j[1]) => disposition'[j] = disposition[j]
  BY <1>1, ReconcileEffect
<1>3. TypeOK /\ DeliveriesAreSound /\ CheckpointIsTruthful
  BY DEF IInv, ControlInv
<1>4. worker' \in [Workers -> Deliveries] /\ DeliveriesAreSound'
  BY <1>1, <1>2, <1>3, OutdatedStay
<1>5. TypeOK'
  BY <1>1, <1>2, <1>3, <1>4 DEF TypeOK, Phases
<1>6. ScheduleInv' /\ EvidenceInv'
  BY <1>1, <1>2, QuietStep DEF scheduleVars, evidenceVars
<1>7. CheckpointIsTruthful' /\ WaitsForLiveWork'
  BY <1>1, <1>2, <1>3 DEF CheckpointIsTruthful, WaitsForLiveWork, Waiting
<1> QED BY <1>4, <1>5, <1>6, <1>7 DEF IInv, ControlInv

LEMMA BindMessageInv ==
  ASSUME IInv, BindMessage PROVE IInv'
<1>1. /\ phase = "WAITING_FOR_MESSAGE_BINDING"
      /\ unread' = unread - 1
      /\ phase' = IF unread = 1 THEN "READY_FOR_AGENT" ELSE phase
      /\ pending' = NoJob /\ Outdate(worker)
      /\ UNCHANGED <<authority, resolved, adopted, schedules, dispatched, completion,
                     disposition, sealed, receipt, validity, satisfaction,
                     holder, faults>>
  BY DEF BindMessage, Checkpoint, scheduleVars, evidenceVars
<1>2. TypeOK /\ DeliveriesAreSound /\ CheckpointIsTruthful
      /\ authority \in Nat /\ unread \in Nat /\ authority <= MaxRevisions
  BY Known DEF IInv, ControlInv
<1>3. unread > 0 /\ unread <= authority
  BY <1>1, <1>2 DEF CheckpointIsTruthful
<1>4. worker' \in [Workers -> Deliveries] /\ DeliveriesAreSound'
  BY <1>1, <1>2, OutdatedStay
<1>5. unread' \in Revisions
  BY <1>1, <1>2, <1>3, MaxRevisionsAssumption DEF Revisions
<1>6. TypeOK'
  BY <1>1, <1>2, <1>4, <1>5 DEF TypeOK, Phases
<1>7. ScheduleInv' /\ EvidenceInv'
  BY <1>1, QuietStep DEF scheduleVars, evidenceVars, DispositionsGrow
<1>8. CheckpointIsTruthful' /\ WaitsForLiveWork'
  BY <1>1, <1>2, <1>3 DEF CheckpointIsTruthful, WaitsForLiveWork, Waiting
<1> QED BY <1>4, <1>6, <1>7, <1>8 DEF IInv, ControlInv

LEMMA StopCaseInv ==
  ASSUME IInv, StopCase PROVE IInv'
<1>1. /\ phase' = "STOPPED" /\ pending' = NoJob /\ Outdate(worker)
      /\ UNCHANGED <<authority, resolved, adopted, unread, schedules, dispatched,
                     completion, disposition, sealed, receipt, validity,
                     satisfaction, holder, faults>>
  BY DEF StopCase, Checkpoint, caseVars, scheduleVars, evidenceVars
<1>2. TypeOK /\ DeliveriesAreSound /\ CheckpointIsTruthful
  BY DEF IInv, ControlInv
<1>3. worker' \in [Workers -> Deliveries] /\ DeliveriesAreSound'
  BY <1>1, <1>2, OutdatedStay
<1>4. TypeOK'
  BY <1>1, <1>2, <1>3 DEF TypeOK, Phases
<1>5. ScheduleInv' /\ EvidenceInv'
  BY <1>1, QuietStep DEF scheduleVars, evidenceVars, DispositionsGrow
<1>6. CheckpointIsTruthful' /\ WaitsForLiveWork'
  BY <1>1, <1>2 DEF CheckpointIsTruthful, WaitsForLiveWork, Waiting
<1> QED BY <1>3, <1>4, <1>5, <1>6 DEF IInv, ControlInv

\* The authority moves on: all that was handed out is behind it, and what it
\* is resolved and adopted under matters to no evidence there is.
LEMMA AuthorityMovesOn ==
  ASSUME IInv, authority < MaxRevisions, authority' = authority + 1,
         NEW r \in Revisions, NEW p \in Revisions,
         resolved' = [resolved EXCEPT ![authority + 1] = r],
         adopted' = [adopted EXCEPT ![authority + 1] = p],
         UNCHANGED <<schedules, dispatched, completion, disposition, receipt,
                     validity, satisfaction>>
  PROVE  /\ authority' \in Revisions /\ resolved' \in [Revisions -> Revisions]
         /\ adopted' \in [Revisions -> Revisions]
         /\ ScheduleInv' /\ EvidenceInv'
         /\ \A j \in dispatched : Drifted(j[1])'
<1>1. /\ TypeOK /\ authority \in Nat
      /\ \A j \in dispatched : /\ j \in Jobs /\ j[1] \in Revisions
                               /\ j[1] \in Nat /\ j[1] <= authority
  BY Known
<1>2. /\ authority' \in Revisions /\ resolved' \in [Revisions -> Revisions]
      /\ adopted' \in [Revisions -> Revisions]
  BY <1>1, RevisionsAreNatural DEF TypeOK
<1>3. DispatchedInOrder'
  BY <1>1 DEF IInv, ScheduleInv, DispatchedInOrder
<1>4. SupersededIsPast'
  <2>1. \A j \in Jobs : j[1] \in Nat
    BY JobsArePairs, RevisionsAreNatural
  <2> QED BY <1>1, <2>1 DEF IInv, ScheduleInv, SupersededIsPast
<1>5. SupersededAsAWhole'
  BY DEF IInv, ScheduleInv, SupersededAsAWhole
<1>6. EvidenceIsGrounded' /\ SettledTogether'
  BY DEF IInv, EvidenceInv, EvidenceIsGrounded, SettledTogether
<1>9. ASSUME NEW k \in Jobs, receipt[k] # "none"
      PROVE  /\ resolved'[k[1]] = resolved[k[1]]
             /\ adopted'[k[1]] = adopted[k[1]]
  <2>1. k \in dispatched
    BY <1>9 DEF IInv, EvidenceInv, EvidenceIsGrounded
  <2>2. k[1] \in Revisions /\ k[1] # authority + 1
    BY <1>1, <2>1
  <2> QED BY <1>1, <2>2 DEF TypeOK
<1>10. UsableEvidenceIsOfItsPlan'
  <2>1. \A k \in Jobs : validity[k] # "none" => receipt[k] # "none"
    BY DEF IInv, EvidenceInv, EvidenceIsGrounded
  <2> QED BY <1>9, <2>1 DEF IInv, EvidenceInv, UsableEvidenceIsOfItsPlan
<1>7. SatisfactionMatchesEvidence'
  <2>1. ASSUME NEW k \in Jobs, validity[k] # "none"
        PROVE  resolved'[k[1]] = resolved[k[1]]
    BY <1>9, <2>1 DEF IInv, EvidenceInv, EvidenceIsGrounded
  <2>2. Matching(resolved, validity, satisfaction)
    BY <1>1, SatisfactionMeaning DEF IInv, EvidenceInv, TypeOK
  <2>3. ASSUME NEW s, NEW o
        PROVE  /\ Has(resolved', validity', s, o, {"ADMITTED_VALID"})
                    = Has(resolved, validity, s, o, {"ADMITTED_VALID"})
               /\ Has(resolved', validity', s, o, {"NEVER_ADMITTED", "WITHDRAWN"})
                    = Has(resolved, validity, s, o, {"NEVER_ADMITTED", "WITHDRAWN"})
    BY <2>1 DEF Has
  <2>4. Matching(resolved', validity', satisfaction')
    BY <2>2, <2>3 DEF Matching
  <2> QED BY <1>1, <2>4, SatisfactionMeaning DEF TypeOK
<1>8. \A j \in dispatched : Drifted(j[1])'
  BY <1>1 DEF Drifted
<1> QED
  BY <1>2, <1>3, <1>4, <1>5, <1>6, <1>7, <1>8, <1>10 DEF ScheduleInv, EvidenceInv

LEMMA IngressMessageInv ==
  ASSUME IInv, IngressMessage PROVE IInv'
<1>1. /\ phase # "STOPPED" /\ authority < MaxRevisions
      /\ authority' = authority + 1 /\ unread' = unread + 1
      /\ resolved' = [resolved EXCEPT ![authority + 1] = resolved[authority]]
      /\ adopted' = [adopted EXCEPT ![authority + 1] = adopted[authority]]
      /\ sealed' = {}
      /\ UNCHANGED <<phase, pending, schedules, dispatched, completion,
                     disposition, receipt, validity, satisfaction, holder,
                     worker, faults>>
  BY DEF IngressMessage, scheduleVars, evidenceVars
<1>2. /\ TypeOK /\ DeliveriesAreSound /\ CheckpointIsTruthful /\ WaitsForLiveWork
      /\ authority \in Nat /\ unread \in Nat /\ resolved[authority] \in Revisions
      /\ adopted[authority] \in Revisions
      /\ \A w \in Workers : DeliveryIsSound(w)
  BY Known DEF IInv, ControlInv, TypeOK
<1>3. /\ authority' \in Revisions /\ resolved' \in [Revisions -> Revisions]
      /\ adopted' \in [Revisions -> Revisions]
      /\ ScheduleInv' /\ EvidenceInv'
      /\ \A j \in dispatched : Drifted(j[1])'
  BY <1>1, <1>2, AuthorityMovesOn
<1>4. unread' <= authority' /\ unread' \in Revisions /\ unread' > 0
  BY <1>1, <1>2, MaxRevisionsAssumption DEF Revisions, CheckpointIsTruthful
<1>5. TypeOK'
  BY <1>1, <1>2, <1>3, <1>4 DEF TypeOK
<1>6. CheckpointIsTruthful'
  BY <1>1, <1>2, <1>4 DEF CheckpointIsTruthful
<1>7. WaitsForLiveWork'
  BY <1>1, <1>2, <1>3, <1>4 DEF WaitsForLiveWork
<1>8. DeliveriesAreSound'
  BY <1>1, <1>2, <1>3 DEF DeliveriesAreSound, DeliveryIsSound
<1> QED BY <1>3, <1>5, <1>6, <1>7, <1>8 DEF IInv, ControlInv

LEMMA RevisePlanInv ==
  ASSUME IInv, NEW renewed \in BOOLEAN, RevisePlan(renewed) PROVE IInv'
<1> DEFINE r == IF renewed THEN authority + 1 ELSE resolved[authority]
<1>1. /\ unread = 0 /\ authority < MaxRevisions /\ authority' = authority + 1
      /\ resolved' = [resolved EXCEPT ![authority + 1] = r]
      /\ adopted' = [adopted EXCEPT ![authority + 1] = authority + 1]
      /\ sealed' = {} /\ phase' = "READY_FOR_AGENT" /\ pending' = NoJob
      /\ Outdate(worker)
      /\ UNCHANGED <<unread, schedules, dispatched, completion, disposition,
                     receipt, validity, satisfaction, holder, faults>>
  BY DEF RevisePlan, AgentTurn, Checkpoint, scheduleVars, evidenceVars
<1>2. /\ TypeOK /\ authority \in Nat /\ resolved[authority] \in Revisions
      /\ authority \in Revisions
      /\ \A w \in Workers : DeliveryIsSound(w)
  BY Known DEF TypeOK
<1>3. r \in Revisions /\ authority + 1 \in Revisions
  BY <1>1, <1>2, RevisionsAreNatural
<1>4. /\ authority' \in Revisions /\ resolved' \in [Revisions -> Revisions]
      /\ adopted' \in [Revisions -> Revisions]
      /\ ScheduleInv' /\ EvidenceInv'
      /\ \A j \in dispatched : Drifted(j[1])'
  BY <1>1, <1>3, AuthorityMovesOn
<1>5. worker \in [Workers -> Deliveries]
  BY <1>2 DEF TypeOK
<1>6. /\ worker' \in [Workers -> Deliveries]
      /\ \A w \in Workers : /\ worker'[w].at = worker[w].at
                            /\ worker'[w].job = worker[w].job
                            /\ worker'[w].fresh = FALSE
  BY <1>1, <1>5, OutdateEffect
<1>7. TypeOK'
  BY <1>1, <1>2, <1>4, <1>6 DEF TypeOK, Phases
<1>8. CheckpointIsTruthful' /\ WaitsForLiveWork'
  BY <1>1, <1>2 DEF CheckpointIsTruthful, WaitsForLiveWork, Waiting
<1>9. ASSUME NEW w \in Workers PROVE DeliveryIsSound(w)'
  <2>1. DeliveryIsSound(w)
    BY <1>2
  <2> QED BY <1>1, <1>4, <1>6, <2>1 DEF DeliveryIsSound
<1> QED BY <1>4, <1>7, <1>8, <1>9 DEF IInv, ControlInv, DeliveriesAreSound

LEMMA CallCapabilityInv ==
  ASSUME IInv, NEW o \in Obligations, CallCapability(o) PROVE IInv'
<1> DEFINE j == <<authority, o>>
<1>1. /\ unread = 0 /\ o \notin Reported
      /\ schedules' = schedules \cup {authority}
      /\ sealed' \subseteq sealed \cup {authority}
      /\ Resume(authority, completion, sealed')
      /\ j \in dispatched'
      /\ \/ /\ disposition[j] = "none"
            /\ phase' = "WAITING_FOR_EFFECT" /\ pending' = j
         \/ phase' = "READY_FOR_AGENT" /\ pending' = NoJob
      /\ Outdate(worker)
      /\ UNCHANGED <<authority, resolved, adopted, unread, disposition, receipt,
                     validity, satisfaction, holder, faults>>
  BY DEF CallCapability, AgentTurn, Checkpoint, caseVars, evidenceVars
<1>2. /\ TypeOK /\ DispatchedInOrder /\ SupersededIsPast /\ DeliveriesAreSound
      /\ authority \in Nat /\ authority \in Revisions
      /\ completion \in [Jobs -> ObligationTerminalStatus]
      /\ dispatched \subseteq Jobs
  BY Known DEF IInv, ScheduleInv, ControlInv, TypeOK
<1>3. j \in Jobs /\ j[1] = authority /\ j[2] = o /\ j # NoJob
  BY <1>2, JobsArePairs
<1>4. ScheduleMoves
  BY <1>1, <1>2, ResumeMoves
<1>5. /\ \A i \in Jobs : completion[i] # "none" => completion'[i] = completion[i]
      /\ \A i \in Jobs : completion[i] = "none" =>
                           completion'[i] \notin {"SUCCEEDED", "SUPERSEDED"}
      /\ \A i \in Jobs : i[1] # authority =>
                           completion'[i] = completion[i]
                           /\ (i \in dispatched' <=> i \in dispatched)
      /\ dispatched \subseteq dispatched'
      /\ dispatched' \subseteq Jobs
  <2>1. /\ completion' = Closing(authority, completion)
        /\ dispatched \subseteq dispatched'
    BY <1>1 DEF Resume
  <2>2. \A i \in Jobs : completion[i] = "none" => completion'[i] \in {"none", "CLOSED"}
    BY <1>2, <2>1, ClosingEffect
  <2>3. /\ \A i \in Jobs : completion[i] # "none" => completion'[i] = completion[i]
        /\ \A i \in Jobs : i[1] # authority =>
                             completion'[i] = completion[i]
                             /\ (i \in dispatched' <=> i \in dispatched)
    BY <1>1, <1>2, ResumeMoves
  <2> QED BY <1>4, <2>1, <2>2, <2>3 DEF ScheduleMoves
<1>6. DispatchedInOrder' /\ SupersededIsPast'
  BY <1>1, <1>2, <1>4, MovesKeepOrder
<1>7. SupersededAsAWhole'
  <2>1. SUFFICES ASSUME NEW a \in Revisions, NEW p \in Obligations,
                        completion'[<<a, p>>] = "SUPERSEDED",
                        NEW q \in Obligations
                 PROVE  /\ completion'[<<a, q>>] # "none"
                        /\ <<a, q>> \in dispatched' => disposition'[<<a, q>>] # "none"
    BY DEF SupersededAsAWhole
  <2>2. /\ <<a, p>> \in Jobs /\ <<a, q>> \in Jobs
        /\ <<a, p>>[1] = a /\ <<a, q>>[1] = a
    BY JobsArePairs
  <2>3. completion[<<a, p>>] = "SUPERSEDED"
    BY <1>5, <2>1, <2>2 DEF ObligationTerminalStatus
  <2>4. a < authority
    BY <1>2, <2>2, <2>3 DEF SupersededIsPast
  <2>5. a # authority
    BY <1>2, <2>4
  <2>6. /\ completion[<<a, q>>] # "none"
        /\ <<a, q>> \in dispatched => disposition[<<a, q>>] # "none"
    BY <2>3 DEF IInv, ScheduleInv, SupersededAsAWhole
  <2> QED BY <1>1, <1>5, <2>2, <2>5, <2>6
<1>8. EvidenceIsGrounded' /\ UsableEvidenceIsOfItsPlan' /\ SettledTogether'
  <2>1. EvidenceIsGrounded'
    BY <1>1, <1>5 DEF IInv, EvidenceInv, EvidenceIsGrounded
  <2>2. UsableEvidenceIsOfItsPlan'
    BY <1>1, <1>5 DEF IInv, EvidenceInv, UsableEvidenceIsOfItsPlan
  <2>3. SettledTogether'
    BY <1>1, <1>5 DEF IInv, EvidenceInv, SettledTogether
  <2> QED BY <2>1, <2>2, <2>3
<1>9. SatisfactionMatchesEvidence'
  BY <1>1, SatisfactionMeaning DEF IInv, EvidenceInv, TypeOK
<1>10. worker' \in [Workers -> Deliveries] /\ DeliveriesAreSound'
  BY <1>1, <1>2, <1>5, OutdatedStay
<1>11. TypeOK'
  <2>1. completion' \in [Jobs -> ObligationTerminalStatus]
    BY <1>4 DEF ScheduleMoves
  <2>2. schedules' \subseteq Revisions /\ sealed' \subseteq schedules'
    BY <1>1, <1>2 DEF TypeOK
  <2> QED BY <1>1, <1>2, <1>3, <1>5, <1>10, <2>1, <2>2 DEF TypeOK, Phases
<1>12. CheckpointIsTruthful' /\ WaitsForLiveWork'
  BY <1>1, <1>2, <1>3 DEF CheckpointIsTruthful, WaitsForLiveWork, Waiting, Drifted
<1> QED
  BY <1>6, <1>7, <1>8, <1>9, <1>10, <1>11, <1>12
  DEF IInv, ScheduleInv, EvidenceInv, ControlInv
-----------------------------------------------------------------------------
(* The steps of a delivery.                                                *)

CaseUnchanged ==
  UNCHANGED <<authority, resolved, adopted, unread, phase, pending, schedules,
              dispatched, completion, disposition, receipt, validity,
              satisfaction, sealed>>

\* A step of a worker that changes nothing but leases and its own delivery.
LEMMA OwnStep ==
  ASSUME IInv, NEW w \in Workers, CaseUnchanged,
         holder' \in [Jobs -> Workers \cup {"nobody", "dead"}],
         faults' \in 0 .. MaxFaults,
         worker' \in [Workers -> Deliveries],
         \A v \in Workers \ {w} : worker'[v] = worker[v],
         \A v \in Workers \ {w}, j \in Jobs : holder'[j] = v => holder[j] = v,
         DeliveryIsSound(w)'
  PROVE  IInv'
<1>1. TypeOK /\ CheckpointIsTruthful /\ WaitsForLiveWork /\ DeliveriesAreSound
  BY DEF IInv, ControlInv
<1>2. TypeOK'
  BY <1>1 DEF TypeOK, CaseUnchanged
<1>3. ScheduleInv' /\ EvidenceInv'
  BY QuietStep
  DEF CaseUnchanged, scheduleVars, evidenceVars, DispositionsGrow
<1>4. CheckpointIsTruthful' /\ WaitsForLiveWork'
  BY <1>1 DEF CheckpointIsTruthful, WaitsForLiveWork, CaseUnchanged, Drifted
<1>5. \A v \in Workers \ {w} : DeliveryIsSound(v)'
  BY <1>1, OthersStay DEF CaseUnchanged
<1> QED BY <1>2, <1>3, <1>4, <1>5 DEF IInv, ControlInv, DeliveriesAreSound

\* Beginning to admit, on either checkpoint.
LEMMA BeginAdmittingInv ==
  ASSUME IInv, NEW w \in Workers, BeginAdmission(w) \/ RecoverReceipt(w)
  PROVE  IInv'
<1>1. /\ phase \in Waiting /\ Start(w, "admitting") /\ CaseUnchanged
      /\ UNCHANGED <<holder, faults>>
      /\ phase = "WAITING_FOR_EFFECT" => receipt[pending] # "none"
  BY DEF BeginAdmission, RecoverReceipt, Waiting, CaseUnchanged, caseVars,
         checkpointVars, scheduleVars, evidenceVars
<1>2. TypeOK /\ CheckpointIsTruthful /\ WaitsForLiveWork
  BY DEF IInv, ControlInv
<1>3. /\ pending \in dispatched /\ pending[2] \notin Reported
      /\ receipt[pending] # "none"
  BY <1>1, <1>2 DEF CheckpointIsTruthful, WaitsForLiveWork, Waiting
<1>4. /\ worker' \in [Workers -> Deliveries]
      /\ worker'[w] = [at |-> "admitting", job |-> pending, fresh |-> TRUE]
      /\ \A v \in Workers \ {w} : worker'[v] = worker[v]
  BY <1>1, <1>2, Deliver DEF Steps
<1>5. DeliveryIsSound(w)'
  BY <1>1, <1>3, <1>4 DEF DeliveryIsSound, CaseUnchanged
<1> QED BY <1>1, <1>2, <1>4, <1>5, OwnStep DEF TypeOK

LEMMA BeginEffectInv ==
  ASSUME IInv, NEW w \in Workers, BeginEffect(w) PROVE IInv'
<1>1. /\ phase = "WAITING_FOR_EFFECT" /\ Start(w, "executing") /\ CaseUnchanged
      /\ Free(pending) /\ receipt[pending] = "none"
      /\ holder' = [holder EXCEPT ![pending] = w] /\ UNCHANGED faults
  BY DEF BeginEffect, CaseUnchanged, caseVars, checkpointVars, scheduleVars,
         evidenceVars
<1>2. TypeOK /\ CheckpointIsTruthful
  BY DEF IInv, ControlInv
<1>3. pending \in dispatched /\ pending[2] \notin Reported /\ pending \in Jobs
  BY <1>1, <1>2, Known DEF CheckpointIsTruthful, Waiting
<1>4. /\ worker' \in [Workers -> Deliveries]
      /\ worker'[w] = [at |-> "executing", job |-> pending, fresh |-> TRUE]
      /\ \A v \in Workers \ {w} : worker'[v] = worker[v]
  BY <1>1, <1>2, Deliver DEF Steps
<1>5. DeliveryIsSound(w)'
  BY <1>1, <1>3, <1>4 DEF DeliveryIsSound, CaseUnchanged, Waiting, Free
<1>6. /\ holder' \in [Jobs -> Workers \cup {"nobody", "dead"}]
      /\ \A v \in Workers \ {w}, j \in Jobs : holder'[j] = v => holder[j] = v
  BY <1>1, <1>2, <1>3 DEF TypeOK
<1> QED BY <1>1, <1>2, <1>4, <1>5, <1>6, OwnStep DEF TypeOK

\* A delivery that ends, by itself or in a crash.
LEMMA EndingInv ==
  ASSUME IInv, NEW w \in Workers,
         GiveUp(w) \/ AdmitRefused(w) \/ Crash(w)
  PROVE  IInv'
<1>1. /\ CaseUnchanged /\ Finish(w)
      /\ \/ holder' = holder
         \/ \E left \in {"nobody", "dead"} :
              /\ holder' = [holder EXCEPT ![worker[w].job] = left]
              /\ holder[worker[w].job] = w
      /\ faults' = faults \/ (faults < MaxFaults /\ faults' = faults + 1)
  BY DEF GiveUp, AdmitRefused, Crash, Fault, CaseUnchanged, caseVars,
         checkpointVars, scheduleVars, evidenceVars
<1>2. TypeOK /\ {"nobody", "dead"} \cap Workers = {}
  BY Known
<1>3. /\ worker' \in [Workers -> Deliveries] /\ worker'[w] = Idle
      /\ \A v \in Workers \ {w} : worker'[v] = worker[v]
  BY <1>1, <1>2, Deliver DEF Steps
<1>4. DeliveryIsSound(w)'
  BY <1>3 DEF DeliveryIsSound, Idle
<1>5. /\ holder' \in [Jobs -> Workers \cup {"nobody", "dead"}]
      /\ \A v \in Workers \ {w}, j \in Jobs : holder'[j] = v => holder[j] = v
  BY <1>1, <1>2 DEF TypeOK
<1>6. faults' \in 0 .. MaxFaults
  BY <1>1, <1>2, MaxFaultsAssumption DEF TypeOK
<1> QED BY <1>1, <1>3, <1>4, <1>5, <1>6, OwnStep

LEMMA ReleaseLandedInv ==
  ASSUME IInv, NEW w \in Workers, ReleaseLanded(w) PROVE IInv'
<1>1. /\ CaseUnchanged /\ UNCHANGED faults
      /\ worker[w].at \in {"landed", "late"}
      /\ Finish(w) \/ Goto(w, "recovering")
      /\ \/ holder' = holder
         \/ holder' = [holder EXCEPT ![worker[w].job] = "nobody"]
  BY DEF ReleaseLanded, CaseUnchanged, caseVars, checkpointVars, scheduleVars,
         evidenceVars
<1>2. /\ TypeOK /\ {"nobody", "dead"} \cap Workers = {} /\ DeliveryIsSound(w)
      /\ worker[w] \in Deliveries
  BY Known
<1>3. /\ worker' \in [Workers -> Deliveries]
      /\ worker'[w] = Idle \/ worker'[w] = [worker[w] EXCEPT !.at = "recovering"]
      /\ \A v \in Workers \ {w} : worker'[v] = worker[v]
  BY <1>1, <1>2, Deliver DEF Steps
<1>4. DeliveryIsSound(w)'
  <2>1. CASE worker'[w] = Idle
    BY <2>1 DEF DeliveryIsSound, Idle
  <2>2. CASE worker'[w] = [worker[w] EXCEPT !.at = "recovering"]
    BY <1>1, <1>2, <2>2 DEF DeliveryIsSound, CaseUnchanged, Deliveries
  <2> QED BY <1>3, <2>1, <2>2
<1>5. /\ holder' \in [Jobs -> Workers \cup {"nobody", "dead"}]
      /\ \A v \in Workers \ {w}, j \in Jobs : holder'[j] = v => holder[j] = v
  BY <1>1, <1>2 DEF TypeOK
<1> QED BY <1>1, <1>2, <1>3, <1>4, <1>5, OwnStep DEF TypeOK

\* Leases that are lost, or expire with their dead holder.
LEMMA LeaseEndsInv ==
  ASSUME IInv,
         \/ \E w \in Workers : LoseLease(w)
         \/ \E j \in Jobs : DeadLeaseExpires(j)
  PROVE  IInv'
<1>1. /\ CaseUnchanged /\ UNCHANGED worker
      /\ \E i : holder' = [holder EXCEPT ![i] = "nobody"]
      /\ faults' = faults \/ (faults < MaxFaults /\ faults' = faults + 1)
  BY DEF LoseLease, DeadLeaseExpires, Fault, CaseUnchanged, caseVars,
         checkpointVars, scheduleVars, evidenceVars
<1>2. /\ TypeOK /\ CheckpointIsTruthful /\ WaitsForLiveWork
      /\ {"nobody", "dead"} \cap Workers = {}
      /\ \A w \in Workers : DeliveryIsSound(w) /\ worker[w] \in Deliveries
  BY Known DEF IInv, ControlInv
<1>3. /\ holder' \in [Jobs -> Workers \cup {"nobody", "dead"}]
      /\ \A v \in Workers, i \in Jobs : holder'[i] = v => holder[i] = v
  BY <1>1, <1>2 DEF TypeOK
<1>4. faults' \in 0 .. MaxFaults
  BY <1>1, <1>2, MaxFaultsAssumption DEF TypeOK
<1>5. TypeOK'
  BY <1>1, <1>2, <1>3, <1>4 DEF TypeOK, CaseUnchanged
<1>6. ScheduleInv' /\ EvidenceInv'
  BY <1>1, QuietStep
  DEF CaseUnchanged, scheduleVars, evidenceVars, DispositionsGrow
<1>7. CheckpointIsTruthful' /\ WaitsForLiveWork'
  BY <1>1, <1>2 DEF CheckpointIsTruthful, WaitsForLiveWork, CaseUnchanged, Drifted
<1>8. ASSUME NEW w \in Workers PROVE DeliveryIsSound(w)'
  <2>1. DeliveryIsSound(w) /\ dispatched \subseteq Jobs
    BY <1>2 DEF TypeOK
  <2> QED BY <1>1, <1>3, <2>1 DEF DeliveryIsSound, CaseUnchanged, Drifted
<1> QED BY <1>5, <1>6, <1>7, <1>8 DEF IInv, ControlInv, DeliveriesAreSound

LEMMA SupersedeJobInv ==
  ASSUME IInv, NEW w \in Workers, SupersedeJob(w) PROVE IInv'
<1>1. /\ phase = "WAITING_FOR_EFFECT" /\ Drifted(pending[1])
      /\ Reconcile /\ Outdate(worker)
      /\ UNCHANGED <<authority, resolved, adopted, unread, schedules, dispatched,
                     completion, sealed, receipt, validity, satisfaction,
                     holder, faults>>
  BY DEF SupersedeJob, caseVars, scheduleVars, evidenceVars
<1>2. unread > 0
  BY <1>1, Known DEF Waiting
<1>3. ReconcileMailbox
  BY <1>1, <1>2 DEF ReconcileMailbox, caseVars, scheduleVars, evidenceVars
<1> QED BY <1>3, ReconcileMailboxInv

LEMMA EffectFailedInv ==
  ASSUME IInv, NEW w \in Workers, NEW permanent \in BOOLEAN,
         EffectFailed(w, permanent)
  PROVE  IInv'
<1> DEFINE j == worker[w].job
<1>1. /\ worker[w].at = "executing" /\ holder[j] = w /\ worker[w].fresh
      /\ \/ Drifted(j[1]) /\ Reconcile
         \/ phase' = phase /\ pending' = pending /\ UNCHANGED disposition
         \/ /\ ~ Drifted(j[1])
            /\ phase' = "READY_FOR_AGENT" /\ pending' = NoJob
            /\ disposition' = [disposition EXCEPT ![j] = "TERMINAL_FAILURE"]
      /\ Outdate([worker EXCEPT ![w] = Idle])
      /\ holder' = [holder EXCEPT ![j] = "nobody"]
      /\ UNCHANGED <<authority, resolved, adopted, unread, schedules, dispatched,
                     completion, sealed, receipt, validity, satisfaction,
                     faults>>
  BY DEF EffectFailed, Checkpoint, caseVars, scheduleVars, evidenceVars
<1>2. /\ TypeOK /\ CheckpointIsTruthful /\ WaitsForLiveWork
      /\ {"nobody", "dead"} \cap Workers = {}
      /\ \A v \in Workers : DeliveryIsSound(v) /\ worker[v] \in Deliveries
      /\ worker \in [Workers -> Deliveries]
      /\ dispatched \subseteq Jobs
  BY Known DEF IInv, ControlInv, TypeOK
<1>3. /\ j \in dispatched /\ j \in Jobs /\ phase \in Waiting /\ pending = j
      /\ ~ Drifted(j[1]) => disposition[j] = "none"
      /\ Drifted(j[1]) => unread > 0
  BY <1>1, <1>2, Known DEF DeliveryIsSound
<1>4. /\ DispositionsGrow
      /\ disposition' \in [Jobs -> JobDisposition]
      /\ \A i \in dispatched :
           i # j /\ ~ Drifted(i[1]) => disposition'[i] = disposition[i]
      /\ \/ phase' = "WAITING_FOR_MESSAGE_BINDING" /\ pending' = NoJob /\ unread > 0
         \/ phase' = "READY_FOR_AGENT" /\ pending' = NoJob
         \/ phase' = phase /\ pending' = pending /\ UNCHANGED disposition
  <2>1. CASE Drifted(j[1]) /\ Reconcile
    BY <1>3, <2>1, ReconcileEffect
  <2>2. CASE phase' = phase /\ pending' = pending /\ UNCHANGED disposition
    BY <1>2, <2>2 DEF DispositionsGrow, TypeOK
  <2>3. CASE /\ ~ Drifted(j[1])
             /\ phase' = "READY_FOR_AGENT" /\ pending' = NoJob
             /\ disposition' = [disposition EXCEPT ![j] = "TERMINAL_FAILURE"]
    <3>1. disposition \in [Jobs -> JobDisposition] /\ disposition[j] = "none"
      BY <1>2, <1>3, <2>3 DEF TypeOK
    <3> QED BY <1>2, <1>3, <2>3, <3>1 DEF DispositionsGrow, JobDisposition
  <2> QED BY <1>1, <2>1, <2>2, <2>3
<1>5. ScheduleInv' /\ EvidenceInv'
  BY <1>1, <1>4, QuietStep DEF scheduleVars, evidenceVars
<1>6. /\ worker' \in [Workers -> Deliveries]
      /\ worker'[w].at = "idle"
      /\ \A v \in Workers : worker'[v].fresh = FALSE
      /\ \A v \in Workers \ {w} : /\ worker'[v].at = worker[v].at
                                  /\ worker'[v].job = worker[v].job
  <2> DEFINE others == [worker EXCEPT ![w] = Idle]
  <2>1. /\ others \in [Workers -> Deliveries] /\ others[w].at = "idle"
        /\ \A v \in Workers \ {w} : others[v] = worker[v]
    BY <1>2, Deliver DEF Idle, Steps
  <2>2. Outdate(others)
    BY <1>1
  <2> HIDE DEF others
  <2> QED BY <2>1, <2>2, OutdateEffect
<1>7. /\ holder' \in [Jobs -> Workers \cup {"nobody", "dead"}]
      /\ \A v \in Workers, i \in Jobs :
           holder'[i] = v => holder[i] = v /\ i # j
  BY <1>1, <1>2, <1>3 DEF TypeOK
<1>8. TypeOK'
  BY <1>1, <1>2, <1>4, <1>6, <1>7 DEF TypeOK, Phases
<1>9. CheckpointIsTruthful' /\ WaitsForLiveWork'
  BY <1>1, <1>2, <1>4
  DEF CheckpointIsTruthful, WaitsForLiveWork, Waiting, Drifted
<1>10. ASSUME NEW v \in Workers PROVE DeliveryIsSound(v)'
  <2>1. DeliveryIsSound(v)
    BY <1>2
  <2>2. CASE v = w
    BY <1>6, <2>2 DEF DeliveryIsSound
  <2>3. CASE v # w
    BY <1>1, <1>2, <1>4, <1>6, <1>7, <2>1, <2>3 DEF DeliveryIsSound, Drifted
  <2> QED BY <2>2, <2>3
<1> QED BY <1>5, <1>8, <1>9, <1>10 DEF IInv, ControlInv, DeliveriesAreSound

LEMMA CommitAdmissionInv ==
  ASSUME IInv, NEW w \in Workers, CommitAdmission(w) PROVE IInv'
<1>1. /\ UNCHANGED <<authority, resolved, adopted, unread, schedules, dispatched,
                     completion, disposition, sealed, receipt, validity,
                     satisfaction, holder, faults>>
      /\ \/ /\ phase' = "READY_FOR_AGENT" /\ pending' = NoJob
            /\ Outdate([worker EXCEPT ![w] = Idle])
         \/ UNCHANGED <<phase, pending>> /\ Finish(w)
  BY DEF CommitAdmission, Checkpoint, caseVars, checkpointVars, scheduleVars,
         evidenceVars
<1>2. /\ TypeOK /\ CheckpointIsTruthful /\ WaitsForLiveWork
      /\ \A v \in Workers : DeliveryIsSound(v) /\ worker[v] \in Deliveries
      /\ worker \in [Workers -> Deliveries]
      /\ dispatched \subseteq Jobs
  BY Known DEF IInv, ControlInv, TypeOK
<1>3. CASE UNCHANGED <<phase, pending>> /\ Finish(w)
  <2>1. /\ worker' \in [Workers -> Deliveries] /\ worker'[w] = Idle
        /\ \A v \in Workers \ {w} : worker'[v] = worker[v]
    BY <1>2, <1>3, Deliver DEF Steps
  <2>2. DeliveryIsSound(w)'
    BY <2>1 DEF DeliveryIsSound, Idle
  <2> QED BY <1>1, <1>2, <1>3, <2>1, <2>2, OwnStep DEF CaseUnchanged, TypeOK
<1>4. CASE /\ phase' = "READY_FOR_AGENT" /\ pending' = NoJob
           /\ Outdate([worker EXCEPT ![w] = Idle])
  <2> DEFINE others == [worker EXCEPT ![w] = Idle]
  <2>1. /\ others \in [Workers -> Deliveries] /\ others[w].at = "idle"
        /\ \A v \in Workers \ {w} : others[v] = worker[v]
    BY <1>2, Deliver DEF Idle, Steps
  <2>2. Outdate(others)
    BY <1>4
  <2> HIDE DEF others
  <2>3. /\ worker' \in [Workers -> Deliveries]
        /\ worker'[w].at = "idle"
        /\ \A v \in Workers : worker'[v].fresh = FALSE
        /\ \A v \in Workers \ {w} : /\ worker'[v].at = worker[v].at
                                    /\ worker'[v].job = worker[v].job
    BY <2>1, <2>2, OutdateEffect
  <2>4. TypeOK'
    BY <1>1, <1>2, <1>4, <2>3 DEF TypeOK, Phases
  <2>5. ScheduleInv' /\ EvidenceInv'
    BY <1>1, QuietStep DEF scheduleVars, evidenceVars, DispositionsGrow
  <2>6. CheckpointIsTruthful' /\ WaitsForLiveWork'
    BY <1>1, <1>2, <1>4 DEF CheckpointIsTruthful, WaitsForLiveWork, Waiting
  <2>7. ASSUME NEW v \in Workers PROVE DeliveryIsSound(v)'
    <3>1. DeliveryIsSound(v)
      BY <1>2
    <3>2. CASE v = w
      BY <2>3, <3>2 DEF DeliveryIsSound
    <3>3. CASE v # w
      BY <1>1, <2>3, <3>1, <3>3 DEF DeliveryIsSound, Drifted
    <3> QED BY <3>2, <3>3
  <2> QED BY <2>4, <2>5, <2>6, <2>7 DEF IInv, ControlInv, DeliveriesAreSound
<1> QED BY <1>1, <1>3, <1>4

\* T1: the evidence records of the case only grow by a result that nobody
\* had landed before.
LEMMA LandResultInv ==
  ASSUME IInv, NEW w \in Workers, NEW result \in {"fit", "unfit"},
         LandResult(w, result)
  PROVE  IInv'
<1> DEFINE j == worker[w].job
           landed == [worker EXCEPT ![w].at = "landed"]
<1>1. /\ worker[w].at = "executing" /\ holder[j] = w
      /\ receipt' = [receipt EXCEPT ![j] = result] /\ sealed' = {}
      /\ UNCHANGED <<authority, resolved, adopted, unread, schedules, dispatched,
                     completion, disposition, validity, satisfaction, holder,
                     faults>>
      /\ \/ /\ worker[w].fresh /\ ~ Drifted(j[1])
            /\ phase' = "WAITING_FOR_EVIDENCE_ADMISSION" /\ pending' = pending
            /\ Outdate(landed)
         \/ /\ UNCHANGED <<phase, pending>>
            /\ \E step \in {"landed", "late"} : Goto(w, step)
  BY DEF LandResult, Checkpoint, caseVars, checkpointVars, scheduleVars
<1>2. /\ TypeOK /\ CheckpointIsTruthful /\ WaitsForLiveWork
      /\ \A v \in Workers : DeliveryIsSound(v) /\ worker[v] \in Deliveries
      /\ worker \in [Workers -> Deliveries]
      /\ dispatched \subseteq Jobs
  BY Known DEF IInv, ControlInv, TypeOK
<1>3. /\ j \in dispatched /\ j \in Jobs /\ j[2] \notin Reported
      /\ receipt[j] = "none"
      /\ worker[w].fresh => phase \in Waiting /\ pending = j
      /\ ~ Drifted(j[1]) => disposition[j] = "none"
  BY <1>1, <1>2 DEF DeliveryIsSound
<1>4. /\ receipt' \in [Jobs -> {"none", "fit", "unfit"}]
      /\ receipt'[j] # "none"
      /\ \A i \in Jobs : i # j => receipt'[i] = receipt[i]
      /\ \A i \in Jobs : receipt[i] # "none" => receipt'[i] # "none"
  BY <1>1, <1>2, <1>3 DEF TypeOK
<1>5. ScheduleInv'
  BY <1>1
  DEF IInv, ScheduleInv, DispatchedInOrder, SupersededIsPast, SupersededAsAWhole
<1>6. EvidenceInv'
  <2>1. EvidenceIsGrounded'
    BY <1>1, <1>3, <1>4 DEF IInv, EvidenceInv, EvidenceIsGrounded
  <2>2. SettledTogether'
    BY <1>1, <1>4 DEF IInv, EvidenceInv, SettledTogether
  <2>3. validity[j] = "none" /\ completion[j] # "SUCCEEDED"
    BY <1>3 DEF IInv, EvidenceInv, EvidenceIsGrounded, SettledTogether
  <2>4. UsableEvidenceIsOfItsPlan'
    BY <1>1, <1>4, <2>3 DEF IInv, EvidenceInv, UsableEvidenceIsOfItsPlan
  <2>5. SatisfactionMatchesEvidence'
    BY <1>1, SatisfactionMeaning DEF IInv, EvidenceInv, TypeOK
  <2> QED BY <2>1, <2>2, <2>4, <2>5 DEF EvidenceInv
<1>7. /\ worker' \in [Workers -> Deliveries]
      /\ worker'[w].at \in {"landed", "late"} /\ worker'[w].job = j
      /\ worker'[w].fresh =>
           worker[w].fresh /\ UNCHANGED <<phase, pending>>
      /\ \A v \in Workers \ {w} :
           /\ worker'[v].at = worker[v].at /\ worker'[v].job = worker[v].job
           /\ worker'[v].fresh => worker[v].fresh /\ UNCHANGED <<phase, pending>>
  <2>1. CASE Outdate(landed)
    <3>1. /\ landed \in [Workers -> Deliveries] /\ landed[w].at = "landed"
          /\ landed[w].job = j
          /\ \A v \in Workers \ {w} : landed[v] = worker[v]
      BY <1>2 DEF Deliveries, Steps
    <3> HIDE DEF landed
    <3> QED BY <2>1, <3>1, OutdateEffect
  <2>2. CASE UNCHANGED <<phase, pending>> /\ \E step \in {"landed", "late"} : Goto(w, step)
    <3>1. PICK step \in {"landed", "late"} : Goto(w, step)
      BY <2>2
    <3>2. /\ worker' \in [Workers -> Deliveries]
          /\ worker'[w] = [worker[w] EXCEPT !.at = step]
          /\ \A v \in Workers \ {w} : worker'[v] = worker[v]
      BY <1>2, <3>1, Deliver DEF Steps
    <3> QED BY <1>2, <2>2, <3>2 DEF Deliveries
  <2> QED BY <1>1, <2>1, <2>2
<1>8. TypeOK'
  BY <1>1, <1>2, <1>4, <1>7 DEF TypeOK, Phases
<1>9. CheckpointIsTruthful' /\ WaitsForLiveWork'
  <2>1. CASE UNCHANGED <<phase, pending>>
    BY <1>1, <1>2, <1>4, <2>1
    DEF CheckpointIsTruthful, WaitsForLiveWork, Waiting, Drifted
  <2>2. CASE /\ worker[w].fresh /\ ~ Drifted(j[1])
             /\ phase' = "WAITING_FOR_EVIDENCE_ADMISSION" /\ pending' = pending
    BY <1>1, <1>2, <1>3, <1>4, <2>2
    DEF CheckpointIsTruthful, WaitsForLiveWork, Waiting, Drifted
  <2> QED BY <1>1, <2>1, <2>2
<1>10. ASSUME NEW v \in Workers PROVE DeliveryIsSound(v)'
  <2>1. DeliveryIsSound(v)
    BY <1>2
  <2>2. CASE v = w
    BY <1>1, <1>3, <1>4, <1>7, <2>1, <2>2 DEF DeliveryIsSound
  <2>3. CASE v # w
    BY <1>1, <1>2, <1>4, <1>7, <2>1, <2>3 DEF DeliveryIsSound, Drifted
  <2> QED BY <2>2, <2>3
<1> QED
  BY <1>5, <1>6, <1>8, <1>9, <1>10 DEF IInv, ControlInv, DeliveriesAreSound
-----------------------------------------------------------------------------
(* T2, bare completions and withdrawn evidence.                            *)

\* A new validity of one piece of evidence brings the head it counts for up
\* to date, and touches no other.
LEMMA RevalueEffect ==
  ASSUME TypeOK, SatisfactionMatchesEvidence, NEW j \in Jobs,
         NEW status \in EvidenceValidityStatus \ {"none"},
         Revalue(j, [validity EXCEPT ![j] = status]), resolved' = resolved
  PROVE  /\ validity' \in [Jobs -> EvidenceValidityStatus]
         /\ satisfaction' \in [Jobs -> ObligationSatisfactionStatus]
         /\ sealed' = {}
         /\ validity'[j] = status
         /\ \A i \in Jobs : i # j => validity'[i] = validity[i]
         /\ SatisfactionMatchesEvidence'
<1> DEFINE s == <<resolved[j[1]], j[2]>>
<1>1. /\ validity \in [Jobs -> EvidenceValidityStatus]
      /\ satisfaction \in [Jobs -> ObligationSatisfactionStatus]
      /\ s \in Jobs /\ s[1] \in Revisions /\ s[2] \in Obligations
  BY JobsArePairs DEF TypeOK
<1>2. /\ validity' = [validity EXCEPT ![j] = status]
      /\ satisfaction' = [satisfaction EXCEPT ![s] = Satisfaction(s[1], s[2], validity')]
      /\ sealed' = {}
  BY DEF Revalue
<1>3. /\ validity' \in [Jobs -> EvidenceValidityStatus]
      /\ validity'[j] = status
      /\ \A i \in Jobs : i # j => validity'[i] = validity[i]
  BY <1>1, <1>2
<1>4. satisfaction' \in [Jobs -> ObligationSatisfactionStatus]
  BY <1>1, <1>2 DEF Satisfaction, ObligationSatisfactionStatus
<1>5. ASSUME NEW r \in Revisions, NEW o \in Obligations
      PROVE  satisfaction'[<<r, o>>] =
               IF Has(resolved, validity', r, o, {"ADMITTED_VALID"})
               THEN "SATISFIED"
               ELSE IF Has(resolved, validity', r, o, {"NEVER_ADMITTED", "WITHDRAWN"})
                    THEN "BLOCKED" ELSE "OPEN"
  <2>1. CASE <<r, o>> = s
    <3>1. satisfaction'[<<r, o>>] = Satisfaction(r, o, validity')
      BY <1>1, <1>2, <2>1
    <3> QED BY <1>3, <3>1, SatisfactionIs
  <2>2. CASE <<r, o>> # s
    <3>1. /\ satisfaction'[<<r, o>>] = satisfaction[<<r, o>>]
          /\ ~ (resolved[j[1]] = r /\ j[2] = o)
      BY <1>1, <1>2, <2>2, JobsArePairs
    <3>2. ASSUME NEW statuses
          PROVE  Has(resolved, validity', r, o, statuses)
                   = Has(resolved, validity, r, o, statuses)
      BY <1>3, <3>1 DEF Has
    <3>3. satisfaction[<<r, o>>] = Satisfaction(r, o, validity)
      BY DEF SatisfactionMatchesEvidence
    <3> QED BY <1>1, <3>1, <3>2, <3>3, SatisfactionIs
  <2> QED BY <2>1, <2>2
<1>6. Matching(resolved', validity', satisfaction')
  BY <1>5 DEF Matching
<1> QED BY <1>2, <1>3, <1>4, <1>6, SatisfactionMeaning

LEMMA WithdrawEvidenceInv ==
  ASSUME IInv, NEW j \in Jobs, WithdrawEvidence(j) PROVE IInv'
<1>1. /\ validity[j] = "ADMITTED_VALID"
      /\ faults < MaxFaults /\ faults' = faults + 1
      /\ Revalue(j, [validity EXCEPT ![j] = "WITHDRAWN"])
      /\ UNCHANGED <<authority, resolved, adopted, unread, phase, pending, schedules,
                     dispatched, completion, disposition, receipt, holder,
                     worker>>
  BY DEF WithdrawEvidence, Fault, caseVars, checkpointVars, scheduleVars
<1>2. /\ TypeOK /\ CheckpointIsTruthful /\ WaitsForLiveWork
      /\ SatisfactionMatchesEvidence
      /\ \A v \in Workers : DeliveryIsSound(v)
  BY Known DEF IInv, EvidenceInv, ControlInv
<1>3. /\ validity' \in [Jobs -> EvidenceValidityStatus]
      /\ satisfaction' \in [Jobs -> ObligationSatisfactionStatus]
      /\ sealed' = {}
      /\ validity'[j] = "WITHDRAWN"
      /\ \A i \in Jobs : i # j => validity'[i] = validity[i]
      /\ SatisfactionMatchesEvidence'
  BY <1>1, <1>2, RevalueEffect DEF EvidenceValidityStatus
<1>4. TypeOK'
  BY <1>1, <1>2, <1>3, MaxFaultsAssumption DEF TypeOK
<1>5. ScheduleInv'
  BY <1>1
  DEF IInv, ScheduleInv, DispatchedInOrder, SupersededIsPast, SupersededAsAWhole
<1>6. EvidenceInv'
  <2>1. EvidenceIsGrounded'
    BY <1>1, <1>3 DEF IInv, EvidenceInv, EvidenceIsGrounded
  <2>2. SettledTogether'
    BY <1>1, <1>3 DEF IInv, EvidenceInv, SettledTogether
  <2>3. UsableEvidenceIsOfItsPlan'
    BY <1>1, <1>3 DEF IInv, EvidenceInv, UsableEvidenceIsOfItsPlan
  <2> QED BY <1>3, <2>1, <2>2, <2>3 DEF EvidenceInv
<1>7. CheckpointIsTruthful' /\ WaitsForLiveWork'
  <2>1. \A i \in Jobs : validity[i] # "none" => validity'[i] # "none"
    BY <1>3
  <2>2. phase \in Waiting => pending \in Jobs
    BY Known, <1>2 DEF IInv
  <2> QED
    BY <1>1, <1>2, <2>1, <2>2
    DEF CheckpointIsTruthful, WaitsForLiveWork, Waiting, Drifted
<1>8. ASSUME NEW v \in Workers PROVE DeliveryIsSound(v)'
  BY <1>1, <1>2 DEF DeliveryIsSound, Drifted
<1> QED
  BY <1>4, <1>5, <1>6, <1>7, <1>8 DEF IInv, ControlInv, DeliveriesAreSound

\* What a completion, with or without evidence, keeps of the control of the
\* case: it disposes of nothing that somebody still executes.
LEMMA CompletionKeepsControl ==
  ASSUME IInv, NEW j \in dispatched, NEW status \in {"SUCCEEDED", "CLOSED"},
         ScheduleMoves, \A i \in Jobs : DispositionMove(j, i, status),
         UNCHANGED <<authority, unread, phase, pending, receipt, holder>>,
         \A i \in Jobs : validity[i] # "none" => validity'[i] # "none",
         j[2] \in Reported \/ validity'[j] # "none"
  PROVE  /\ CheckpointIsTruthful' /\ WaitsForLiveWork'
         /\ \A v \in Workers : worker'[v] = worker[v] => DeliveryIsSound(v)'
<1>1. /\ CheckpointIsTruthful /\ WaitsForLiveWork
      /\ \A v \in Workers : DeliveryIsSound(v)
      /\ authority \in Nat
      /\ \A i \in dispatched : i \in Jobs /\ i[1] \in Nat
      /\ {"nobody", "dead"} \cap Workers = {}
  BY Known DEF IInv, ControlInv
<1>2. dispatched \subseteq dispatched'
  BY <1>1 DEF ScheduleMoves, JobMove
<1>3. CheckpointIsTruthful'
  BY <1>1, <1>2 DEF CheckpointIsTruthful
<1>4. WaitsForLiveWork'
  <2>1. SUFFICES ASSUME phase \in Waiting
                 PROVE  WaitsForLiveWork'
    BY DEF WaitsForLiveWork, Waiting
  <2>2. /\ pending \in dispatched /\ pending \in Jobs
        /\ pending[2] \notin Reported /\ pending[1] \in Nat
    BY <1>1, <2>1 DEF CheckpointIsTruthful
  <2>3. DispositionMove(j, pending, status)
    BY <2>2
  <2>4. \/ Drifted(pending[1])
        \/ disposition[pending] = "none"
        \/ validity[pending] # "none"
    BY <1>1, <2>1 DEF WaitsForLiveWork, Waiting
  <2>5. \/ Drifted(pending[1])'
        \/ disposition'[pending] = "none"
        \/ validity'[pending] # "none"
    BY <1>1, <2>2, <2>3, <2>4 DEF DispositionMove, Drifted
  <2> QED BY <1>1, <1>2, <2>2, <2>5 DEF WaitsForLiveWork, Waiting, Drifted
<1>5. ASSUME NEW v \in Workers, worker'[v] = worker[v] PROVE DeliveryIsSound(v)'
  <2> DEFINE i == worker[v].job
  <2>1. DeliveryIsSound(v)
    BY <1>1
  <2>2. ASSUME worker[v].at = "executing", holder[i] = v, ~ Drifted(i[1])
        PROVE  disposition'[i] = "none"
    <3>1. i \in dispatched /\ disposition[i] = "none"
      BY <2>1, <2>2 DEF DeliveryIsSound
    <3>2. DispositionMove(j, i, status) /\ i[1] \in Nat
      BY <1>1, <3>1
    <3>3. i[1] = authority
      BY <2>2 DEF Drifted
    <3>4. ~ (i[1] < authority) /\ holder[i] # "nobody"
      BY <1>1, <2>2, <3>2, <3>3
    <3> QED BY <3>1, <3>2, <3>4 DEF DispositionMove
  <2> QED BY <1>2, <1>5, <2>1, <2>2 DEF DeliveryIsSound, Drifted
<1> QED BY <1>3, <1>4, <1>5

LEMMA ReportCompletionInv ==
  ASSUME IInv, NEW j \in Jobs, NEW status \in {"SUCCEEDED", "CLOSED"},
         ReportCompletion(j, status)
  PROVE  IInv'
<1>1. /\ j \in dispatched /\ j[2] \in Reported
      /\ AdmitCompletion(j, status)
      /\ UNCHANGED <<authority, resolved, adopted, unread, phase, pending, schedules,
                     sealed, receipt, validity, satisfaction, holder, worker,
                     faults>>
  BY DEF ReportCompletion, caseVars, checkpointVars, evidenceVars
<1>2. TypeOK /\ ScheduleInv /\ EvidenceInv /\ DispatchedInOrder /\ SupersededIsPast
  BY DEF IInv, ScheduleInv
<1>3. /\ ScheduleMoves
      /\ disposition' \in [Jobs -> JobDisposition]
      /\ \A i \in Jobs : DispositionMove(j, i, status)
      /\ \A i \in Jobs :
           completion[i] = "none" /\ completion'[i] = "SUCCEEDED" => i = j
      /\ SupersededAsAWhole'
  BY <1>1, <1>2, CompletionEffect
<1>4. /\ \A i \in Jobs : completion[i] # "none" => completion'[i] = completion[i]
      /\ dispatched' \in SUBSET Jobs
      /\ \A i \in dispatched : i \in Jobs => i \in dispatched'
  BY <1>3 DEF ScheduleMoves, JobMove
<1>5. TypeOK'
  BY <1>1, <1>2, <1>3, <1>4 DEF TypeOK, ScheduleMoves
<1>6. ScheduleInv'
  BY <1>1, <1>2, <1>3, MovesKeepOrder DEF ScheduleInv
<1>7. EvidenceIsGrounded' /\ UsableEvidenceIsOfItsPlan'
  <2>1. EvidenceIsGrounded'
    BY <1>1, <1>2, <1>4 DEF EvidenceInv, EvidenceIsGrounded
  <2>2. receipt[j] = "none"
    BY <1>1, <1>2 DEF EvidenceInv, EvidenceIsGrounded
  <2>3. \A i \in Jobs : receipt[i] # "none" =>
          (completion'[i] = "SUCCEEDED" <=> completion[i] = "SUCCEEDED")
    BY <1>3, <1>4, <2>2
  <2>4. UsableEvidenceIsOfItsPlan'
    BY <1>1, <1>2, <2>1, <2>3
    DEF EvidenceInv, EvidenceIsGrounded, UsableEvidenceIsOfItsPlan
  <2> QED BY <2>1, <2>4
<1>8. SettledTogether'
  <2>1. SUFFICES ASSUME NEW i \in Jobs, i[2] \notin Reported
                 PROVE  /\ disposition'[i] = "COMPLETED" <=> completion'[i] = "SUCCEEDED"
                        /\ completion'[i] = "SUCCEEDED" => validity'[i] # "none"
                        /\ validity'[i] # "none" =>
                             /\ receipt'[i] # "none"
                             /\ completion'[i] \in {"SUCCEEDED", "SUPERSEDED"}
    BY DEF SettledTogether
  <2>2. i # j
    BY <1>1, <2>1
  <2>3. disposition'[i] = "COMPLETED" <=> disposition[i] = "COMPLETED"
    BY <1>3, <2>2 DEF DispositionMove
  <2>4. completion'[i] = "SUCCEEDED" <=> completion[i] = "SUCCEEDED"
    BY <1>3, <1>4, <2>2
  <2>5. /\ disposition[i] = "COMPLETED" <=> completion[i] = "SUCCEEDED"
        /\ completion[i] = "SUCCEEDED" => validity[i] # "none"
        /\ validity[i] # "none" => /\ receipt[i] # "none"
                                  /\ completion[i] \in {"SUCCEEDED", "SUPERSEDED"}
    BY <1>2, <2>1 DEF EvidenceInv, SettledTogether
  <2> QED BY <1>1, <1>4, <2>3, <2>4, <2>5
<1>9. SatisfactionMatchesEvidence'
  BY <1>1, <1>2, SatisfactionMeaning DEF EvidenceInv, TypeOK
<1>10. ControlInv'
  BY <1>1, <1>3, CompletionKeepsControl DEF ControlInv, DeliveriesAreSound
<1> QED BY <1>5, <1>6, <1>7, <1>8, <1>9, <1>10 DEF IInv, EvidenceInv

LEMMA AdmitInv ==
  ASSUME IInv, NEW w \in Workers, Admit(w) PROVE IInv'
<1> DEFINE j == worker[w].job
<1>1. /\ worker[w].at \in {"recovering", "admitting"}
      /\ AdmitLandedResult(j) /\ AdmitCompletion(j, "SUCCEEDED")
      /\ Goto(w, "admitted") \/ Finish(w)
      /\ UNCHANGED <<authority, resolved, adopted, unread, phase, pending, schedules,
                     receipt, holder, faults>>
  BY DEF Admit, AdmitResult, caseVars, checkpointVars
<1>2. /\ TypeOK /\ ScheduleInv /\ EvidenceInv /\ DispatchedInOrder
      /\ SupersededIsPast /\ SatisfactionMatchesEvidence /\ SettledTogether
      /\ \A v \in Workers : DeliveryIsSound(v) /\ worker[v] \in Deliveries
  BY Known DEF IInv, ScheduleInv, EvidenceInv
<1>3. /\ j \in dispatched /\ j \in Jobs /\ j[2] \notin Reported
      /\ receipt[j] # "none"
  BY <1>1, <1>2 DEF DeliveryIsSound, TypeOK
<1>4. /\ ScheduleMoves
      /\ disposition' \in [Jobs -> JobDisposition]
      /\ \A i \in Jobs : DispositionMove(j, i, "SUCCEEDED")
      /\ \A i \in Jobs :
           completion[i] = "none" /\ completion'[i] = "SUCCEEDED" =>
             i = j /\ disposition'[i] = "COMPLETED"
      /\ completion'[j] \in {"SUCCEEDED", "SUPERSEDED"}
      /\ SupersededAsAWhole'
  BY <1>1, <1>2, <1>3, CompletionEffect
<1>5. /\ \A i \in Jobs : completion[i] # "none" => completion'[i] = completion[i]
      /\ dispatched' \in SUBSET Jobs
      /\ dispatched \subseteq dispatched'
  BY <1>2, <1>4 DEF ScheduleMoves, JobMove, TypeOK
<1>6. /\ validity' \in [Jobs -> EvidenceValidityStatus]
      /\ satisfaction' \in [Jobs -> ObligationSatisfactionStatus]
      /\ sealed' \subseteq sealed
      /\ validity'[j] # "none"
      /\ \A i \in Jobs : i # j => validity'[i] = validity[i]
      /\ \A i \in Jobs : validity[i] # "none" => validity'[i] = validity[i]
      /\ validity[j] = "none" =>
           validity'[j] = IF Admits(j) THEN "ADMITTED_VALID" ELSE "NEVER_ADMITTED"
      /\ SatisfactionMatchesEvidence'
  <2>1. CASE validity[j] # "none"
    <3>1. UNCHANGED <<validity, satisfaction, sealed>>
      BY <1>1, <2>1 DEF AdmitLandedResult
    <3>2. SatisfactionMatchesEvidence'
      BY <1>1, <1>2, <3>1, SatisfactionMeaning DEF TypeOK
    <3> QED BY <1>2, <2>1, <3>1, <3>2 DEF TypeOK
  <2>2. CASE validity[j] = "none"
    <3> DEFINE status == IF Admits(j) THEN "ADMITTED_VALID" ELSE "NEVER_ADMITTED"
    <3>1. Revalue(j, [validity EXCEPT ![j] = status])
      BY <1>1, <2>2 DEF AdmitLandedResult
    <3>2. status \in EvidenceValidityStatus \ {"none"}
      BY DEF EvidenceValidityStatus
    <3>3. status = IF Admits(j) THEN "ADMITTED_VALID" ELSE "NEVER_ADMITTED"
      OBVIOUS
    <3> HIDE DEF status
    <3>4. /\ validity' \in [Jobs -> EvidenceValidityStatus]
          /\ satisfaction' \in [Jobs -> ObligationSatisfactionStatus]
          /\ sealed' = {}
          /\ validity'[j] = status
          /\ \A i \in Jobs : i # j => validity'[i] = validity[i]
          /\ SatisfactionMatchesEvidence'
      BY <1>1, <1>2, <1>3, <3>1, <3>2, RevalueEffect
    <3> QED BY <2>2, <3>2, <3>3, <3>4
  <2> QED BY <2>1, <2>2
<1>7. /\ worker' \in [Workers -> Deliveries]
      /\ worker'[w] = Idle \/ worker'[w] = [worker[w] EXCEPT !.at = "admitted"]
      /\ \A v \in Workers \ {w} : worker'[v] = worker[v]
  BY <1>1, <1>2, Deliver DEF Steps
<1>8. TypeOK'
  BY <1>1, <1>2, <1>4, <1>5, <1>6, <1>7 DEF TypeOK, ScheduleMoves
<1>9. ScheduleInv'
  BY <1>1, <1>2, <1>4, MovesKeepOrder DEF ScheduleInv
<1>10. EvidenceIsGrounded'
  BY <1>1, <1>2, <1>3, <1>5, <1>6 DEF EvidenceInv, EvidenceIsGrounded
<1>11. UsableEvidenceIsOfItsPlan'
  <2>1. SUFFICES ASSUME NEW i \in Jobs
                 PROVE  validity'[i] \in {"ADMITTED_VALID", "WITHDRAWN"} <=>
                          /\ completion'[i] = "SUCCEEDED"
                          /\ receipt'[i] = "fit"
                          /\ adopted'[i[1]] = i[1]
    BY DEF UsableEvidenceIsOfItsPlan
  <2>2. validity[i] \in {"ADMITTED_VALID", "WITHDRAWN"} <=>
          /\ completion[i] = "SUCCEEDED"
          /\ receipt[i] = "fit"
          /\ adopted[i[1]] = i[1]
    BY <1>2 DEF EvidenceInv, UsableEvidenceIsOfItsPlan
  <2>3. CASE validity[i] # "none" \/ i # j
    <3>1. validity'[i] = validity[i]
      BY <1>6, <2>3
    <3>2. completion[i] = "none" => completion'[i] # "SUCCEEDED"
      BY <1>2, <1>3, <1>4, <2>3 DEF SettledTogether
    <3>3. completion'[i] = "SUCCEEDED" <=> completion[i] = "SUCCEEDED"
      BY <1>5, <3>2
    <3> QED BY <1>1, <2>2, <3>1, <3>3
  <2>4. CASE validity[i] = "none" /\ i = j
    <3>1. validity'[j] = "ADMITTED_VALID" <=> Admits(j)
      BY <1>6, <2>4
    <3>2. validity'[j] # "WITHDRAWN"
      BY <1>6, <2>4
    <3>3. completion'[j] = "SUCCEEDED" <=> ~ Drifted(j[1])
      <4>1. SupersededIsPast'
        BY <1>9 DEF ScheduleInv
      <4>2. authority \in Nat /\ authority' = authority
        BY <1>1, Known
      <4>3. ~ Drifted(j[1]) => completion'[j] = "SUCCEEDED"
        BY <1>3, <1>4, <4>1, <4>2 DEF SupersededIsPast, Drifted
      <4>4. completion[j] # "SUCCEEDED"
        BY <1>2, <1>3, <2>4 DEF SettledTogether
      <4>5. ASSUME Drifted(j[1]), completion[j] = "none"
            PROVE  completion'[j] = "SUPERSEDED"
        <5>1. SupersedeSchedule(j[1])
          BY <1>1, <4>5 DEF AdmitCompletion
        <5> QED BY <1>3, <4>5, <5>1 DEF SupersedeSchedule
      <4> QED BY <1>5, <1>3, <4>3, <4>4, <4>5
    <3> QED BY <1>1, <2>4, <3>1, <3>2, <3>3 DEF Admits, Drifted
  <2> QED BY <2>3, <2>4
<1>12. SettledTogether'
  <2>1. SUFFICES ASSUME NEW i \in Jobs, i[2] \notin Reported
                 PROVE  /\ disposition'[i] = "COMPLETED" <=> completion'[i] = "SUCCEEDED"
                        /\ completion'[i] = "SUCCEEDED" => validity'[i] # "none"
                        /\ validity'[i] # "none" =>
                             /\ receipt'[i] # "none"
                             /\ completion'[i] \in {"SUCCEEDED", "SUPERSEDED"}
    BY DEF SettledTogether
  <2>2. /\ disposition[i] = "COMPLETED" <=> completion[i] = "SUCCEEDED"
        /\ completion[i] = "SUCCEEDED" => validity[i] # "none"
        /\ validity[i] # "none" => /\ receipt[i] # "none"
                                  /\ completion[i] \in {"SUCCEEDED", "SUPERSEDED"}
    BY <1>2, <2>1 DEF SettledTogether
  <2>3. completion'[i] = "SUCCEEDED" =>
          /\ disposition'[i] = "COMPLETED" /\ validity'[i] # "none"
    <3>1. CASE completion[i] = "none"
      BY <1>4, <1>6, <3>1
    <3>2. CASE completion[i] # "none"
      BY <1>4, <1>5, <1>6, <2>2, <3>2 DEF DispositionMove
    <3> QED BY <3>1, <3>2
  <2>4. disposition'[i] = "COMPLETED" => completion'[i] = "SUCCEEDED"
    <3>1. CASE disposition[i] = "COMPLETED"
      BY <1>5, <2>2, <3>1
    <3>2. CASE disposition[i] # "COMPLETED"
      BY <1>4, <3>2 DEF DispositionMove
    <3> QED BY <3>1, <3>2
  <2>5. validity'[i] # "none" => /\ receipt'[i] # "none"
                                /\ completion'[i] \in {"SUCCEEDED", "SUPERSEDED"}
    <3>1. CASE i = j
      BY <1>1, <1>3, <1>4, <3>1
    <3>2. CASE i # j
      BY <1>1, <1>5, <1>6, <2>2, <3>2
    <3> QED BY <3>1, <3>2
  <2> QED BY <2>3, <2>4, <2>5
<1>13. /\ CheckpointIsTruthful' /\ WaitsForLiveWork'
       /\ \A v \in Workers : worker'[v] = worker[v] => DeliveryIsSound(v)'
  BY <1>1, <1>3, <1>4, <1>6, CompletionKeepsControl
<1>14. DeliveryIsSound(w)'
  <2>1. CASE worker'[w] = Idle
    BY <2>1 DEF DeliveryIsSound, Idle
  <2>2. CASE worker'[w] = [worker[w] EXCEPT !.at = "admitted"]
    BY <1>1, <1>2, <1>3, <1>5, <2>2 DEF DeliveryIsSound, Deliveries
  <2> QED BY <1>7, <2>1, <2>2
<1> QED
  BY <1>6, <1>7, <1>8, <1>9, <1>10, <1>11, <1>12, <1>13, <1>14
  DEF IInv, EvidenceInv, ControlInv, DeliveriesAreSound
-----------------------------------------------------------------------------
(* The invariant and what follows from it.                                 *)

LEMMA InvInit == Init => IInv
<1> SUFFICES ASSUME Init PROVE IInv
  OBVIOUS
<1>1. authority \in Revisions /\ 0 \in Nat /\ 0 \in Revisions
  BY MaxRevisionsAssumption DEF Init, Revisions
<1>2. /\ dispatched = {} /\ phase = "READY_FOR_AGENT" /\ pending = NoJob
      /\ unread = 0 /\ authority = 0
      /\ \A j \in Jobs : /\ completion[j] = "none" /\ disposition[j] = "none"
                         /\ receipt[j] = "none" /\ validity[j] = "none"
                         /\ satisfaction[j] = "OPEN"
      /\ \A w \in Workers : worker[w] = Idle
  BY DEF Init
<1>3. TypeOK
  <2>1. Idle \in Deliveries
    BY DEF Idle, Deliveries, Steps
  <2>2. /\ resolved \in [Revisions -> Revisions]
        /\ adopted \in [Revisions -> Revisions]
        /\ completion \in [Jobs -> ObligationTerminalStatus]
        /\ disposition \in [Jobs -> JobDisposition]
        /\ receipt \in [Jobs -> {"none", "fit", "unfit"}]
        /\ validity \in [Jobs -> EvidenceValidityStatus]
        /\ satisfaction \in [Jobs -> ObligationSatisfactionStatus]
        /\ holder \in [Jobs -> Workers \cup {"nobody", "dead"}]
        /\ worker \in [Workers -> Deliveries]
    BY <1>1, <2>1
    DEF Init, ObligationTerminalStatus, JobDisposition, EvidenceValidityStatus,
        ObligationSatisfactionStatus
  <2>3. faults \in 0 .. MaxFaults /\ schedules = {} /\ sealed = {}
    BY MaxFaultsAssumption DEF Init
  <2> QED BY <1>1, <1>2, <2>2, <2>3 DEF TypeOK, Phases
<1>4. ScheduleInv
  <2>1. \A a \in Revisions, o \in Obligations : completion[<<a, o>>] # "SUPERSEDED"
    BY <1>2, JobsArePairs
  <2> QED
    BY <1>2, <2>1
    DEF ScheduleInv, DispatchedInOrder, SupersededIsPast, SupersededAsAWhole
<1>5. EvidenceInv
  <2>1. Matching(resolved, validity, satisfaction)
    BY <1>2, JobsArePairs DEF Matching, Has
  <2>2. SatisfactionMatchesEvidence
    BY <1>3, <2>1, SatisfactionMeaning DEF TypeOK
  <2> QED
    BY <1>2, <2>2
    DEF EvidenceInv, EvidenceIsGrounded, SettledTogether, UsableEvidenceIsOfItsPlan
<1>6. ControlInv
  BY <1>2
  DEF ControlInv, CheckpointIsTruthful, WaitsForLiveWork, DeliveriesAreSound,
      DeliveryIsSound, Waiting, Idle
<1> QED BY <1>3, <1>4, <1>5, <1>6 DEF IInv

LEMMA InvStutter == ASSUME IInv, UNCHANGED vars PROVE IInv'
<1>1. /\ CaseUnchanged /\ UNCHANGED <<holder, worker, faults>>
  BY DEF vars, CaseUnchanged
<1>2. TypeOK'
  BY <1>1 DEF IInv, TypeOK, CaseUnchanged
<1>3. ScheduleInv' /\ EvidenceInv'
  BY <1>1, QuietStep
  DEF CaseUnchanged, scheduleVars, evidenceVars, DispositionsGrow
<1>4. CheckpointIsTruthful' /\ WaitsForLiveWork'
  BY <1>1
  DEF IInv, ControlInv, CheckpointIsTruthful, WaitsForLiveWork, CaseUnchanged,
      Drifted
<1>5. ASSUME NEW w \in Workers PROVE DeliveryIsSound(w)'
  <2>1. DeliveryIsSound(w)
    BY Known
  <2> QED BY <1>1, <2>1 DEF DeliveryIsSound, CaseUnchanged, Drifted
<1> QED BY <1>2, <1>3, <1>4, <1>5 DEF IInv, ControlInv, DeliveriesAreSound

LEMMA InvStep == IInv /\ [Next]_vars => IInv'
<1> SUFFICES ASSUME IInv, [Next]_vars PROVE IInv'
  OBVIOUS
<1>1. CASE IngressMessage
  BY <1>1, IngressMessageInv
<1>2. CASE ReconcileMailbox
  BY <1>2, ReconcileMailboxInv
<1>3. CASE BindMessage
  BY <1>3, BindMessageInv
<1>4. CASE \E renewed \in BOOLEAN : RevisePlan(renewed)
  BY <1>4, RevisePlanInv
<1>5. CASE StopCase
  BY <1>5, StopCaseInv
<1>6. CASE \E o \in Obligations : CallCapability(o)
  BY <1>6, CallCapabilityInv
<1>7. ASSUME NEW w \in Workers, DeliveryStep(w) \/ Crash(w) PROVE IInv'
  <2>1. CASE BeginAdmission(w) \/ RecoverReceipt(w)
    BY <2>1, BeginAdmittingInv
  <2>2. CASE SupersedeJob(w)
    BY <2>2, SupersedeJobInv
  <2>3. CASE BeginEffect(w)
    BY <2>3, BeginEffectInv
  <2>4. CASE \E result \in {"fit", "unfit"} : LandResult(w, result)
    BY <2>4, LandResultInv
  <2>5. CASE \E permanent \in BOOLEAN : EffectFailed(w, permanent)
    BY <2>5, EffectFailedInv
  <2>6. CASE GiveUp(w) \/ AdmitRefused(w) \/ Crash(w)
    BY <2>6, EndingInv
  <2>7. CASE ReleaseLanded(w)
    BY <2>7, ReleaseLandedInv
  <2>8. CASE Admit(w)
    BY <2>8, AdmitInv
  <2>9. CASE CommitAdmission(w)
    BY <2>9, CommitAdmissionInv
  <2> QED
    BY <1>7, <2>1, <2>2, <2>3, <2>4, <2>5, <2>6, <2>7, <2>8, <2>9 DEF DeliveryStep
<1>8. CASE \/ \E w \in Workers : LoseLease(w)
           \/ \E j \in Jobs : DeadLeaseExpires(j)
  BY <1>8, LeaseEndsInv
<1>9. CASE \E j \in Jobs, status \in {"SUCCEEDED", "CLOSED"} :
             ReportCompletion(j, status)
  BY <1>9, ReportCompletionInv
<1>10. CASE \E j \in Jobs : WithdrawEvidence(j)
  BY <1>10, WithdrawEvidenceInv
<1>11. CASE UNCHANGED vars
  BY <1>11, InvStutter
<1> QED
  BY <1>1, <1>2, <1>3, <1>4, <1>5, <1>6, <1>7, <1>8, <1>9, <1>10, <1>11 DEF Next

THEOREM Invariance == Spec => []IInv
BY InvInit, InvStep, PTL DEF Spec

\* Every record of the case stays what its table says it is, through every
\* transaction, crash and lost lease.
THEOREM TypeCorrect == Spec => []TypeOK
<1>1. IInv => TypeOK
  BY DEF IInv
<1> QED BY <1>1, Invariance, PTL

\* admit_result: evidence, obligation and job are settled in one transaction,
\* whichever deliveries try, and whether they crash before or after it.
THEOREM ResultsSettleTogether == Spec => []SettledTogether
<1>1. IInv => SettledTogether
  BY DEF IInv, EvidenceInv
<1> QED BY <1>1, Invariance, PTL

\* build_evidence_admission against same_obligation_business_authority: what
\* makes evidence usable is that its obligation succeeded, that it fits, and
\* that its plan was adopted under the authority of its schedule.
THEOREM UsableEvidenceNeedsItsPlan == Spec => []UsableEvidenceIsOfItsPlan
<1>1. IInv => UsableEvidenceIsOfItsPlan
  BY DEF IInv, EvidenceInv
<1> QED BY <1>1, Invariance, PTL

\* build_obligation_satisfaction: no admission or withdrawal, of whatever
\* authority, leaves a satisfaction head behind what the evidence says.
THEOREM SatisfactionIsCurrent == Spec => []SatisfactionMatchesEvidence
<1>1. IInv => SatisfactionMatchesEvidence
  BY DEF IInv, EvidenceInv
<1> QED BY <1>1, Invariance, PTL

\* _supersede_schedule: a stale schedule is given up in one transaction, the
\* obligations that were not handed out yet included.
THEOREM StaleSchedulesAreGivenUp == Spec => []SupersededAsAWhole
<1>1. IInv => SupersededAsAWhole
  BY DEF IInv, ScheduleInv
<1> QED BY <1>1, Invariance, PTL

\* The checkpoint of the controller never waits for a job that can no longer
\* come to anything, unless there is a message that will make it move.
THEOREM CaseWaitsForLiveWork == Spec => []WaitsForLiveWork
<1>1. IInv => WaitsForLiveWork
  BY DEF IInv, ControlInv
<1> QED BY <1>1, Invariance, PTL
-----------------------------------------------------------------------------
(* The ledger.                                                             *)

\* A step either changes the standing of jobs under one authority, or moves
\* the authority on and nothing else that the ledger sees.
LEMMA LedgerSteps ==
  ASSUME IInv, [Next]_vars
  PROVE  \/ ScheduleMoves /\ authority' = authority
         \/ /\ authority < MaxRevisions /\ authority' = authority + 1
            /\ UNCHANGED <<completion, dispatched>>
<1>1. TypeOK /\ ScheduleInv /\ DispatchedInOrder
  BY DEF IInv, ScheduleInv
<1>2. ASSUME UNCHANGED <<authority, completion, dispatched>>
      PROVE  ScheduleMoves /\ authority' = authority
  BY <1>1, <1>2 DEF ScheduleMoves, JobMove, TypeOK
<1>3. CASE IngressMessage \/ \E renewed \in BOOLEAN : RevisePlan(renewed)
  BY <1>3 DEF IngressMessage, RevisePlan, scheduleVars
<1>4. ASSUME NEW o \in Obligations, CallCapability(o)
      PROVE  ScheduleMoves /\ authority' = authority
  <2>1. /\ Resume(authority, completion, sealed') /\ authority' = authority
        /\ completion \in [Jobs -> ObligationTerminalStatus]
    BY <1>1, <1>4 DEF CallCapability, caseVars, TypeOK
  <2> QED BY <1>1, <2>1, ResumeMoves
<1>5. ASSUME NEW w \in Workers, Admit(w)
      PROVE  ScheduleMoves /\ authority' = authority
  <2>1. /\ worker[w].at \in {"recovering", "admitting"}
        /\ AdmitCompletion(worker[w].job, "SUCCEEDED") /\ authority' = authority
    BY <1>5 DEF Admit, AdmitResult, caseVars
  <2>2. worker[w].job \in dispatched
    BY <2>1, Known DEF DeliveryIsSound
  <2> QED BY <1>1, <2>1, <2>2, CompletionEffect
<1>6. ASSUME NEW j \in Jobs, NEW status \in {"SUCCEEDED", "CLOSED"},
             ReportCompletion(j, status)
      PROVE  ScheduleMoves /\ authority' = authority
  <2>1. /\ j \in dispatched /\ AdmitCompletion(j, status)
        /\ authority' = authority
    BY <1>6 DEF ReportCompletion, caseVars
  <2> QED BY <1>1, <2>1, CompletionEffect
<1>7. CASE \/ ReconcileMailbox \/ BindMessage \/ StopCase
           \/ \E w \in Workers :
                \/ BeginAdmission(w) \/ RecoverReceipt(w) \/ SupersedeJob(w)
                \/ BeginEffect(w) \/ GiveUp(w) \/ ReleaseLanded(w)
                \/ AdmitRefused(w) \/ CommitAdmission(w) \/ Crash(w)
                \/ LoseLease(w)
                \/ \E result \in {"fit", "unfit"} : LandResult(w, result)
                \/ \E permanent \in BOOLEAN : EffectFailed(w, permanent)
           \/ \E j \in Jobs : WithdrawEvidence(j) \/ DeadLeaseExpires(j)
           \/ UNCHANGED vars
  <2>1. UNCHANGED <<authority, completion, dispatched>>
    BY <1>7
    DEF ReconcileMailbox, BindMessage, StopCase, BeginAdmission, RecoverReceipt,
        SupersedeJob, BeginEffect, GiveUp, ReleaseLanded, AdmitRefused,
        CommitAdmission, Crash, LoseLease, LandResult, EffectFailed,
        WithdrawEvidence, DeadLeaseExpires, vars, caseVars, scheduleVars
  <2> QED BY <1>2, <2>1
<1> QED BY <1>3, <1>4, <1>5, <1>6, <1>7 DEF Next, DeliveryStep

\* What the ledger sees of a move.
LEMMA MovesStand ==
  ASSUME TypeOK, SupersededIsPast, ScheduleMoves, NEW j \in Jobs
  PROVE  \/ standing'[j] = standing[j]
         \/ /\ standing[j] = "waiting" /\ j[2] \in Executable /\ j[1] = authority
            /\ \A q \in DependsOn[j[2]] : standing'[<<j[1], q>>] = "SUCCEEDED"
            /\ standing'[j] = "dispatched"
         \/ /\ standing[j] = "dispatched" /\ j[1] = authority
            /\ standing'[j] \in {"SUCCEEDED", "CLOSED"}
         \/ /\ standing[j] = "waiting"
            /\ \/ j[2] \notin Executable
               \/ \E q \in DependsOn[j[2]] : standing'[<<j[1], q>>] = "CLOSED"
            /\ standing'[j] = "CLOSED"
         \/ /\ standing[j] \in {"waiting", "dispatched"} /\ j[1] # authority
            /\ standing'[j] = "SUPERSEDED"
<1>1. JobMove(j)
  BY DEF ScheduleMoves
<1>2. \A i \in Jobs :
        /\ standing[i] = IF completion[i] # "none" THEN completion[i]
                         ELSE IF i \in dispatched THEN "dispatched" ELSE "waiting"
        /\ standing'[i] = IF completion'[i] # "none" THEN completion'[i]
                          ELSE IF i \in dispatched' THEN "dispatched" ELSE "waiting"
  BY DEF standing
<1>3. \A q \in DependsOn[j[2]] : <<j[1], q>> \in Jobs
  BY JobsArePairs, DependsOnAssumption
<1>4. authority \in Nat
  BY RevisionsAreNatural DEF TypeOK
<1> QED BY <1>1, <1>2, <1>3, <1>4 DEF JobMove

\* The obligation runtime keeps the promise of the ledger: nothing is handed
\* out early or under a past authority, nothing succeeds that was not handed
\* out, and what is settled stays settled.
THEOREM KeepsTheLedger == Spec => ImplementsLedger
<1>1. Init => Ledger!Init
  BY DEF Init, standing, Ledger!Init, Ledger!Jobs, Ledger!Revisions, Jobs, Revisions
<1>2. ASSUME IInv, [Next]_vars PROVE [Ledger!Next]_(Ledger!vars)
  <2>1. TypeOK /\ SupersededIsPast
    BY <1>2 DEF IInv, ScheduleInv
  <2>2. CASE /\ authority < MaxRevisions /\ authority' = authority + 1
             /\ UNCHANGED <<completion, dispatched>>
    <3>1. standing' = standing
      BY <2>2 DEF standing
    <3> QED BY <2>2, <3>1 DEF Ledger!Next, Ledger!Revise
  <2>3. CASE ScheduleMoves /\ authority' = authority
    <3>1. ASSUME NEW a \in Ledger!Revisions, NEW o \in Obligations
          PROVE  \/ standing'[<<a, o>>] = standing[<<a, o>>]
                 \/ Ledger!Handed(a, o)
                 \/ Ledger!Succeeded(a, o)
                 \/ Ledger!Failed(a, o)
                 \/ Ledger!Closed(a, o)
                 \/ Ledger!Superseded(a, o)
      <4>1. /\ <<a, o>> \in Jobs
            /\ <<a, o>>[1] = a /\ <<a, o>>[2] = o
        BY JobsArePairs DEF Ledger!Revisions, Revisions
      <4> HIDE DEF standing
      <4> QED
        BY <2>1, <2>3, <4>1, MovesStand
        DEF Ledger!Handed, Ledger!Succeeded, Ledger!Failed, Ledger!Closed,
            Ledger!Superseded, Ledger!Open
    <3>2. standing' \in [Ledger!Jobs -> Ledger!Open \cup {"SUCCEEDED", "CLOSED", "SUPERSEDED"}]
      <4>1. completion' \in [Jobs -> ObligationTerminalStatus]
        BY <2>3 DEF ScheduleMoves
      <4> QED
        BY <4>1
        DEF standing, ObligationTerminalStatus, Ledger!Jobs, Ledger!Revisions,
            Ledger!Open, Jobs, Revisions
    <3> QED BY <2>3, <3>1, <3>2 DEF Ledger!Next, Ledger!Settle
  <2> QED BY <1>2, <2>2, <2>3, LedgerSteps
<1> QED
  BY <1>1, <1>2, Invariance, PTL DEF Spec, ImplementsLedger, Ledger!Spec
-----------------------------------------------------------------------------
(* What waits for evidence.                                                *)

\* What was handed out has a schedule.
SchedulesAreKnown == \A j \in dispatched : j[1] \in schedules

\* A schedule with a landed result is not sealed with the snapshot of the case.
EvidenceUnseals == \A j \in Jobs : receipt[j] # "none" => j[1] \notin sealed

\* An obligation that ended was handed out, or closed because it or something
\* it waits for cannot be executed.
SettledForAReason ==
  \A j \in Jobs :
    completion[j] \in {"SUCCEEDED", "CLOSED"} =>
      \/ j \in dispatched
      \/ /\ completion[j] = "CLOSED"
         /\ \/ j[2] \notin Executable
            \/ \E q \in DependsOn[j[2]] : completion[<<j[1], q>>] = "CLOSED"

\* As long as they wait for evidence, not all prerequisites succeed.
EvidenceIsNeverEnough ==
  \A a \in Revisions, p \in Executable :
    ~(DependsOn[p] \subseteq Reported) =>
      \E q \in DependsOn[p] : completion[<<a, q>>] # "SUCCEEDED"

SealInv ==
  SchedulesAreKnown /\ EvidenceUnseals /\ SettledForAReason
    /\ EvidenceIsNeverEnough

\* What admit_completion and the controller hand to resume: the completions,
\* one of them new at most.
Reports(done) ==
  /\ done \in [Jobs -> ObligationTerminalStatus]
  /\ \A j \in Jobs :
       \/ done[j] = completion[j]
       \/ /\ j \in dispatched /\ j[1] = authority
          /\ completion[j] = "none"
          /\ done[j] \in {"SUCCEEDED", "CLOSED"}

\* Whatever hands obligations out or settles one resumes the schedule of the
\* present authority; anything else supersedes at most.
LEMMA ScheduleResumes ==
  ASSUME IInv, SchedulesAreKnown, [Next]_vars
  PROVE  \/ /\ dispatched' = dispatched
            /\ \A j \in Jobs : completion'[j] \in {completion[j], "SUPERSEDED"}
         \/ /\ authority \in schedules'
            /\ \E done : Reports(done) /\ Resume(authority, done, sealed')
<1>1. /\ completion \in [Jobs -> ObligationTerminalStatus]
      /\ dispatched \subseteq Jobs
  BY DEF IInv, TypeOK
<1>2. ASSUME NEW j \in dispatched, NEW status \in {"SUCCEEDED", "CLOSED"},
             AdmitCompletion(j, status), schedules' = schedules
      PROVE  \/ /\ dispatched' = dispatched
                /\ \A i \in Jobs : completion'[i] \in {completion[i], "SUPERSEDED"}
             \/ /\ authority \in schedules'
                /\ \E done : Reports(done) /\ Resume(authority, done, sealed')
  <2>1. CASE UNCHANGED <<completion, dispatched>>
    BY <2>1
  <2>2. CASE SupersedeSchedule(j[1])
    BY <1>1, <2>2 DEF SupersedeSchedule
  <2>3. CASE /\ completion[j] = "none" /\ ~ Drifted(j[1])
             /\ Resume(j[1], [completion EXCEPT ![j] = status], sealed')
    <3>1. j[1] = authority /\ j \in Jobs /\ authority \in schedules'
      BY <1>1, <1>2, <2>3 DEF Drifted, SchedulesAreKnown
    <3>2. Reports([completion EXCEPT ![j] = status])
      BY <1>1, <1>2, <2>3, <3>1 DEF Reports, ObligationTerminalStatus
    <3> QED BY <2>3, <3>1, <3>2
  <2> QED BY <1>2, <2>1, <2>2, <2>3 DEF AdmitCompletion
<1>3. ASSUME NEW o \in Obligations, CallCapability(o)
      PROVE  /\ authority \in schedules'
             /\ \E done : Reports(done) /\ Resume(authority, done, sealed')
  <2>1. Reports(completion)
    BY <1>1 DEF Reports
  <2> QED BY <1>3, <2>1 DEF CallCapability
<1>4. ASSUME NEW w \in Workers, Admit(w)
      PROVE  /\ worker[w].job \in dispatched /\ schedules' = schedules
             /\ AdmitCompletion(worker[w].job, "SUCCEEDED")
  <2>1. /\ worker[w].at \in {"recovering", "admitting"} /\ schedules' = schedules
        /\ AdmitCompletion(worker[w].job, "SUCCEEDED")
    BY <1>4 DEF Admit, AdmitResult
  <2> QED BY <2>1, Known DEF DeliveryIsSound
<1>5. ASSUME NEW j \in Jobs, NEW status \in {"SUCCEEDED", "CLOSED"},
             ReportCompletion(j, status)
      PROVE  /\ j \in dispatched /\ schedules' = schedules
             /\ AdmitCompletion(j, status)
  BY <1>5 DEF ReportCompletion
<1>6. CASE \/ IngressMessage \/ \E renewed \in BOOLEAN : RevisePlan(renewed)
           \/ ReconcileMailbox \/ BindMessage \/ StopCase
           \/ \E w \in Workers :
                \/ BeginAdmission(w) \/ RecoverReceipt(w) \/ SupersedeJob(w)
                \/ BeginEffect(w) \/ GiveUp(w) \/ ReleaseLanded(w)
                \/ AdmitRefused(w) \/ CommitAdmission(w) \/ Crash(w)
                \/ LoseLease(w)
                \/ \E result \in {"fit", "unfit"} : LandResult(w, result)
                \/ \E permanent \in BOOLEAN : EffectFailed(w, permanent)
           \/ \E j \in Jobs : WithdrawEvidence(j) \/ DeadLeaseExpires(j)
           \/ UNCHANGED vars
  <2>1. UNCHANGED <<completion, dispatched>>
    BY <1>6
    DEF IngressMessage, RevisePlan, ReconcileMailbox, BindMessage, StopCase,
        BeginAdmission, RecoverReceipt, SupersedeJob, BeginEffect, GiveUp,
        ReleaseLanded, AdmitRefused, CommitAdmission, Crash, LoseLease,
        LandResult, EffectFailed, WithdrawEvidence, DeadLeaseExpires, vars,
        scheduleVars
  <2> QED BY <2>1
<1> QED BY <1>2, <1>3, <1>4, <1>5, <1>6 DEF Next, DeliveryStep

\* Schedules are never dropped, only a new one gets sealed, and landing a
\* result unseals them all.
LEMMA SealSteps ==
  ASSUME IInv, [Next]_vars
  PROVE  /\ schedules \subseteq schedules'
         /\ sealed' \subseteq sealed \cup {a \in schedules' : a \notin schedules}
         /\ receipt' = receipt \/ sealed' = {}
<1> USE DEF scheduleVars, evidenceVars, caseVars
<1>1. CASE \/ IngressMessage \/ \E renewed \in BOOLEAN : RevisePlan(renewed)
           \/ ReconcileMailbox \/ BindMessage \/ StopCase
           \/ \E o \in Obligations : CallCapability(o)
           \/ UNCHANGED vars
  BY <1>1 DEF IngressMessage, RevisePlan, ReconcileMailbox, BindMessage,
     StopCase, CallCapability, vars
<1>2. ASSUME NEW w \in Workers,
             \/ BeginAdmission(w) \/ RecoverReceipt(w) \/ SupersedeJob(w)
             \/ BeginEffect(w) \/ GiveUp(w) \/ ReleaseLanded(w)
             \/ AdmitRefused(w) \/ CommitAdmission(w) \/ Crash(w)
             \/ LoseLease(w)
             \/ \E permanent \in BOOLEAN : EffectFailed(w, permanent)
      PROVE  UNCHANGED <<schedules, sealed, receipt>>
  BY <1>2 DEF BeginAdmission, RecoverReceipt, SupersedeJob, BeginEffect, GiveUp,
     ReleaseLanded, AdmitRefused, CommitAdmission, Crash, LoseLease, EffectFailed
<1>3. ASSUME NEW w \in Workers, NEW result \in {"fit", "unfit"},
             LandResult(w, result)
      PROVE  sealed' = {} /\ schedules' = schedules
  BY <1>3 DEF LandResult
<1>4. ASSUME NEW w \in Workers, Admit(w)
      PROVE  schedules' = schedules /\ receipt' = receipt /\ sealed' \subseteq sealed
  BY <1>4 DEF Admit, AdmitResult, AdmitLandedResult, Revalue
<1>5. ASSUME NEW j \in Jobs,
             \/ \E status \in {"SUCCEEDED", "CLOSED"} : ReportCompletion(j, status)
             \/ WithdrawEvidence(j) \/ DeadLeaseExpires(j)
      PROVE  schedules' = schedules /\ receipt' = receipt /\ sealed' \subseteq sealed
  BY <1>5 DEF ReportCompletion, WithdrawEvidence, Revalue, DeadLeaseExpires
<1> QED BY <1>1, <1>2, <1>3, <1>4, <1>5 DEF Next, DeliveryStep

\* The resumption that would let the last prerequisite succeed has to hand the
\* dependent out, and cannot: a prerequisite that yields evidence has a landed
\* result, so that the schedule is not sealed.
LEMMA DependentsStay ==
  ASSUME IInv, IInv', SealInv, EvidenceUnseals', authority' = authority,
         authority \in schedules',
         NEW done, Reports(done), Resume(authority, done, sealed'),
         NEW p \in Executable, ~(DependsOn[p] \subseteq Reported)
  PROVE  \E q \in DependsOn[p] : completion'[<<authority, q>>] # "SUCCEEDED"
<1> DEFINE a == authority
           closing == Closing(a, done)
           handed == Runnable(a, closing) \ dispatched
<1>1. /\ a \in Revisions /\ p \in Obligations /\ <<a, p>> \in Jobs
      /\ \A q \in DependsOn[p] : q \in Obligations /\ <<a, q>> \in Jobs
      /\ done \in [Jobs -> ObligationTerminalStatus]
      /\ <<a, p>>[1] = a /\ <<a, p>>[2] = p
  BY ExecutableAssumption, DependsOnAssumption, JobsArePairs
  DEF IInv, TypeOK, Reports
<1>2. /\ completion' = closing
      /\ handed # {} => a \in sealed'
  BY DEF Resume
<1>3. \A j \in Jobs :
        \/ closing[j] = done[j]
        \/ /\ j[1] = a /\ done[j] = "none" /\ closing[j] = "CLOSED"
           /\ \/ j[2] \notin Executable
              \/ \E q \in DependsOn[j[2]] : closing[<<a, q>>] = "CLOSED"
  <2>1. a \in Revisions /\ done \in [Jobs -> ObligationTerminalStatus]
    BY <1>1
  <2> QED BY ONLY <2>1, ClosingEffect
<1> SUFFICES ASSUME \A q \in DependsOn[p] : closing[<<a, q>>] = "SUCCEEDED"
             PROVE  FALSE
  BY <1>2
<1>4. PICK q0 \in DependsOn[p] : completion[<<a, q0>>] # "SUCCEEDED"
  BY <1>1 DEF SealInv, EvidenceIsNeverEnough
<1>5. <<a, p>> \notin dispatched
  BY <1>1, <1>4 DEF IInv, ScheduleInv, DispatchedInOrder
<1>6. done[<<a, p>>] = completion[<<a, p>>]
  BY <1>1, <1>5 DEF Reports
<1>7. completion[<<a, p>>] \notin {"SUCCEEDED", "CLOSED"}
  <2>1. SUFFICES ASSUME completion[<<a, p>>] \in {"SUCCEEDED", "CLOSED"}
                 PROVE  FALSE
    OBVIOUS
  <2>2. PICK q \in DependsOn[p] : completion[<<a, q>>] = "CLOSED"
    BY <1>1, <1>5, <2>1 DEF SealInv, SettledForAReason
  <2>3. closing[<<a, q>>] = "CLOSED"
    BY <1>1, <1>3, <2>2 DEF Reports
  <2> QED BY <2>3
<1>8. completion[<<a, p>>] # "SUPERSEDED"
  <2>1. a \in Nat
    BY <1>1, RevisionsAreNatural
  <2> QED BY <1>1, <2>1 DEF IInv, ScheduleInv, SupersededIsPast
<1>9. closing[<<a, p>>] = "none"
  <2>1. done[<<a, p>>] = "none"
    BY <1>1, <1>6, <1>7, <1>8 DEF ObligationTerminalStatus
  <2> QED BY <1>1, <1>3, <2>1
<1>10. <<a, p>> \in handed
  BY <1>5, <1>9 DEF Runnable
<1>11. PICK q \in DependsOn[p] : q \notin Reported
  OBVIOUS
<1>12. receipt'[<<a, q>>] # "none"
  <2>1. <<a, q>>[2] = q
    BY <1>1, JobsArePairs
  <2>2. completion'[<<a, q>>] = "SUCCEEDED"
    BY <1>2
  <2> QED
    BY <1>1, <1>11, <2>1, <2>2 DEF IInv, EvidenceInv, SettledTogether
<1>13. a \notin sealed'
  BY <1>1, <1>12, JobsArePairs DEF EvidenceUnseals
<1> QED BY <1>2, <1>10, <1>13

LEMMA SealStep ==
  ASSUME IInv, SealInv, [Next]_vars PROVE SealInv'
<1>1. IInv'
  BY InvStep
<1>2. /\ dispatched \subseteq Jobs /\ dispatched' \subseteq Jobs
      /\ sealed \subseteq schedules /\ schedules \subseteq schedules'
      /\ sealed' \subseteq sealed \cup {a \in schedules' : a \notin schedules}
  BY <1>1, SealSteps DEF IInv, TypeOK
<1>3. SchedulesAreKnown'
  <2>1. ASSUME NEW j \in dispatched', j \notin dispatched
        PROVE  j[1] \in schedules'
    <3>1. PICK done : /\ authority \in schedules'
                      /\ Reports(done) /\ Resume(authority, done, sealed')
      BY <2>1, ScheduleResumes DEF SealInv
    <3>2. j \in Runnable(authority, Closing(authority, done))
      BY <2>1, <3>1 DEF Resume
    <3>3. j[1] = authority
      BY <3>2, RunnableJobs DEF IInv, TypeOK
    <3> QED BY <3>1, <3>3
  <2> QED BY <1>2, <2>1 DEF SealInv, SchedulesAreKnown
<1>4. EvidenceUnseals'
  <2>1. CASE sealed' = {}
    BY <2>1 DEF EvidenceUnseals
  <2>2. CASE receipt' = receipt
    <3>1. ASSUME NEW j \in Jobs, receipt[j] # "none"
          PROVE  j[1] \in schedules /\ j[1] \notin sealed
      BY <3>1
      DEF SealInv, EvidenceUnseals, SchedulesAreKnown, IInv, EvidenceInv,
          EvidenceIsGrounded
    <3> QED BY <1>2, <2>2, <3>1 DEF EvidenceUnseals
  <2> QED BY <2>1, <2>2, SealSteps
<1>5. SettledForAReason'
  <2>1. CASE UNCHANGED <<completion, dispatched>>
    BY <2>1 DEF SealInv, SettledForAReason
  <2>2. CASE ScheduleMoves
    <3> SUFFICES ASSUME NEW j \in Jobs, completion'[j] \in {"SUCCEEDED", "CLOSED"},
                        j \notin dispatched'
                 PROVE  /\ completion'[j] = "CLOSED"
                        /\ \/ j[2] \notin Executable
                           \/ \E q \in DependsOn[j[2]] :
                                completion'[<<j[1], q>>] = "CLOSED"
      BY DEF SettledForAReason
    <3>1. JobMove(j)
      BY <2>2 DEF ScheduleMoves
    <3>2. CASE completion'[j] = completion[j] /\ (j \in dispatched' <=> j \in dispatched)
      <4>1. /\ completion[j] = "CLOSED"
            /\ \/ j[2] \notin Executable
               \/ \E q \in DependsOn[j[2]] : completion[<<j[1], q>>] = "CLOSED"
        BY <3>2 DEF SealInv, SettledForAReason
      <4>2. \A q \in DependsOn[j[2]] : <<j[1], q>> \in Jobs
        BY JobsArePairs, DependsOnAssumption
      <4>3. \A i \in Jobs : completion[i] = "CLOSED" => completion'[i] = "CLOSED"
        BY <2>2 DEF ScheduleMoves, JobMove
      <4> QED BY <3>2, <4>1, <4>2, <4>3
    <3> QED BY <3>1, <3>2 DEF JobMove
  <2> QED BY <2>1, <2>2, LedgerSteps
<1>6. EvidenceIsNeverEnough'
  <2> SUFFICES ASSUME NEW a \in Revisions, NEW p \in Executable,
                      ~(DependsOn[p] \subseteq Reported)
               PROVE  \E q \in DependsOn[p] : completion'[<<a, q>>] # "SUCCEEDED"
    BY DEF EvidenceIsNeverEnough
  <2>1. PICK q0 \in DependsOn[p] : completion[<<a, q0>>] # "SUCCEEDED"
    BY DEF SealInv, EvidenceIsNeverEnough
  <2>2. <<a, q0>> \in Jobs /\ <<a, q0>>[1] = a
    BY ExecutableAssumption, DependsOnAssumption, JobsArePairs
  <2>3. CASE completion'[<<a, q0>>] # "SUCCEEDED"
    BY <2>3
  <2>4. CASE completion'[<<a, q0>>] = "SUCCEEDED"
    <3>1. ScheduleMoves /\ authority' = authority
      BY <2>1, <2>4, LedgerSteps
    <3>2. a = authority
      BY <2>1, <2>2, <2>4, <3>1 DEF ScheduleMoves, JobMove
    <3>3. PICK done : /\ authority \in schedules'
                      /\ Reports(done) /\ Resume(authority, done, sealed')
      BY <2>1, <2>2, <2>4, ScheduleResumes DEF SealInv
    <3> QED BY <1>1, <1>4, <3>1, <3>2, <3>3, DependentsStay
  <2> QED BY <2>3, <2>4
<1> QED BY <1>3, <1>4, <1>5, <1>6 DEF SealInv

LEMMA SealInit == Init => SealInv
<1> SUFFICES ASSUME Init PROVE SealInv
  OBVIOUS
<1>1. /\ dispatched = {} /\ sealed = {}
      /\ \A j \in Jobs : completion[j] = "none" /\ receipt[j] = "none"
  BY DEF Init
<1>2. \A a \in Revisions, p \in Executable :
        \A q \in DependsOn[p] : <<a, q>> \in Jobs
  BY ExecutableAssumption, DependsOnAssumption, JobsArePairs
<1>3. EvidenceIsNeverEnough
  BY <1>1, <1>2 DEF EvidenceIsNeverEnough
<1> QED
  BY <1>1, <1>3
  DEF SealInv, SchedulesAreKnown, EvidenceUnseals, SettledForAReason

\* The finding of run obligation_chain, for every plan: whatever waits for
\* evidence is never handed out, in whichever order results land, evidence is
\* withdrawn and workers report.
THEOREM DependentsNeverRun == Spec => []DependentsAreStranded
<1>1. IInv /\ SealInv => DependentsAreStranded
  <2> SUFFICES ASSUME IInv, SealInv, NEW a \in Revisions, NEW p \in Executable,
                      ~(DependsOn[p] \subseteq Reported)
               PROVE  /\ <<a, p>> \notin dispatched
                      /\ \E q \in DependsOn[p] : completion[<<a, q>>] # "SUCCEEDED"
    BY DEF DependentsAreStranded
  <2>1. \E q \in DependsOn[p] : completion[<<a, q>>] # "SUCCEEDED"
    BY DEF SealInv, EvidenceIsNeverEnough
  <2> QED BY <2>1 DEF IInv, ScheduleInv, DispatchedInOrder
<1>2. IInv /\ SealInv /\ [Next]_vars => SealInv'
  BY SealStep
<1> QED BY <1>1, <1>2, SealInit, Invariance, PTL DEF Spec
==============================================================================
