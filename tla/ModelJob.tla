------------------------------ MODULE ModelJob ------------------------------
(***************************************************************************)
(* One logical model job of the vnext controller: a primary agent, message *)
(* binding or measurement reviewer call.  deliver_pending_* claims the     *)
(* job, calls the provider outside of any transaction, writes down every   *)
(* outbound attempt before the call and its receipt and typed result after *)
(* it, and only then commits.  A delivery that finds a durable result      *)
(* commits that result and calls nobody.                                   *)
(*                                                                         *)
(* The provider is ChatCompletionsProvider, whose retry loop runs inside   *)
(* one delivery and reports to the durable attempt observer.  It keeps the *)
(* traces of the last call it finished in a buffer of the thread, which a  *)
(* delivery takes when it commits a failure and no call clears: a worker   *)
(* is a thread, and what a delivery leaves there the next one finds, one   *)
(* of another job included.                                                *)
(*                                                                         *)
(* The delivery lease is kept as the name of its holder (JobLease shows    *)
(* what it rests on): a crashed worker keeps holding it until it expires,  *)
(* and a worker whose heartbeat fails goes on as a zombie.                 *)
(*                                                                         *)
(* Two receipts of different calls never are the same record, for each     *)
(* carries the time of its own call; a receipt is therefore represented by *)
(* its disposition and the delivery that wrote it.                         *)
(***************************************************************************)
EXTENDS Naturals, FiniteSets

CONSTANTS
  Workers,      \* delivery workers
  MaxAttempts,  \* provider setting max_attempts
  MayReject,    \* whether the provider may refuse a request for good (HTTP 4xx)
  MaxFaults     \* bound: crashes, lost leases, failed heartbeats, refused
                \* commits, and traces another job leaves behind

ASSUME MaxAttemptsAssumption == MaxAttempts \in Nat \ {0}
ASSUME MayRejectAssumption == MayReject \in BOOLEAN
ASSUME MaxFaultsAssumption == MaxFaults \in Nat
ASSUME WorkerNames == {"nobody", "dead", "past"} \cap Workers = {}

VARIABLES  \* in the store
  holder,       \* who owns the live delivery lease
  requested,    \* provider attempt requests: numbers 1 .. requested exist
  receipt,      \* provider attempt receipts, per attempt number
  result,       \* durable model result: the delivery that produced it
  disposition   \* terminal disposition of the outbox job

VARIABLES  \* in the memory of the workers
  worker,       \* the delivery each worker is running
  traces,       \* what the provider's buffer of the thread holds
  faults        \* faults that happened

vars == <<holder, requested, receipt, result, disposition, worker, traces, faults>>
-----------------------------------------------------------------------------
Attempts == 1 .. MaxAttempts

\* Who wrote a record: a delivery in progress, or one that is over.
Authors == Workers \cup {"past"}

ProviderAttemptDisposition ==
  {"succeeded", "retryable_failure", "terminal_failure"}

NoReceipt == [by |-> "nobody", disposition |-> "none"]

Receipts == [by : Authors, disposition : ProviderAttemptDisposition]
              \cup {NoReceipt}

Steps == {"idle", "attempting", "posted", "receipted", "answered", "failed",
          "releasing"}

\* answer: where the answer to commit comes from (its own call or the stored
\* result).
Deliveries == [at : Steps, attempt : Attempts, answer : {"own", "stored"}]

Idle == [at |-> "idle", attempt |-> 1, answer |-> "own"]

\* The traces of a failed call, of this job or of another one: upTo of them,
\* the last one of disposition last and all before it retryable.
Failures == {"retryable_failure", "terminal_failure"}

Traces == [of : {"nothing", "this", "another"}, upTo : Attempts, last : Failures]

\* The empty buffer; a failed call that left no trace is reported as one
\* failed attempt.
NoTraces == [of |-> "nothing", upTo |-> 1, last |-> "terminal_failure"]

TypeOK ==
  /\ holder \in Workers \cup {"nobody", "dead"}
  /\ requested \in 0 .. MaxAttempts
  /\ receipt \in [Attempts -> Receipts]
  /\ result \in Authors \cup {"nobody"}
  /\ disposition \in {"none", "COMPLETED", "SUPERSEDED", "TERMINAL_FAILURE"}
  /\ worker \in [Workers -> Deliveries]
  /\ traces \in [Workers -> Traces]
  /\ faults \in 0 .. MaxFaults

Pending == disposition = "none"

MoveTo(w, step) == worker' = [worker EXCEPT ![w].at = step]

Keep(w, of, upTo, last) ==
  traces' = [traces EXCEPT ![w] = [of |-> of, upTo |-> upTo, last |-> last]]

\* take_last_attempt_trace, which empties the buffer.
TakeTraces(w) == traces' = [traces EXCEPT ![w] = NoTraces]

\* The delivery of w is over: what it wrote is from now on the work of
\* somebody else for every other delivery, a later one of w included.
Forget(w) ==
  /\ receipt' = [a \in Attempts |->
                  IF receipt[a].by = w THEN [receipt[a] EXCEPT !.by = "past"]
                  ELSE receipt[a]]
  /\ result' = IF result = w THEN "past" ELSE result

Fault == faults < MaxFaults /\ faults' = faults + 1
-----------------------------------------------------------------------------
Init ==
  /\ holder = "nobody"
  /\ requested = 0
  /\ receipt = [a \in Attempts |-> NoReceipt]
  /\ result = "nobody"
  /\ disposition = "none"
  /\ worker = [w \in Workers |-> Idle]
  /\ traces = [w \in Workers |-> NoTraces]
  /\ faults = 0

\* Mutant: the stored result is not looked up.
Claim_CallAgain(w) ==
  /\ worker[w].at = "idle" /\ Pending /\ holder = "nobody"
  /\ holder' = w
  /\ worker' = [worker EXCEPT ![w] = [Idle EXCEPT !.at = "attempting"]]
  /\ UNCHANGED <<requested, receipt, result, disposition, traces, faults>>

\* The job is claimed, its logical model job recorded (always the same
\* record) and the durable result looked up before the provider is called.
Claim(w) ==
  /\ worker[w].at = "idle" /\ Pending /\ holder = "nobody"
  /\ holder' = w
  /\ worker' = [worker EXCEPT ![w] =
                 IF result = "nobody"
                 THEN [Idle EXCEPT !.at = "attempting"]
                 ELSE [Idle EXCEPT !.at = "answered", !.answer = "stored"]]
  /\ UNCHANGED <<requested, receipt, result, disposition, traces, faults>>

\* before_attempt: the request of an attempt number is written once, by
\* whichever delivery gets there first; the others find the same record.
BeforeAttempt(w) ==
  /\ worker[w].at = "attempting"
  /\ requested' = IF worker[w].attempt > requested THEN worker[w].attempt
                  ELSE requested
  /\ MoveTo(w, "posted")
  /\ UNCHANGED <<holder, receipt, result, disposition, traces, faults>>

\* Mutant: a second receipt of an attempt replaces the first.
Receipt_Overwritten(w, how) ==
  receipt' = [receipt EXCEPT ![worker[w].attempt] =
               [by |-> w, disposition |-> how]]

\* record_provider_attempt_receipt: one receipt per attempt.
Receipt(w, how) ==
  /\ receipt[worker[w].attempt] = NoReceipt
  /\ receipt' = [receipt EXCEPT ![worker[w].attempt] =
                  [by |-> w, disposition |-> how]]

\* The response decodes to a typed result.
AnswerSucceeds(w) ==
  /\ worker[w].at = "posted"
  /\ Receipt(w, "succeeded")
  /\ MoveTo(w, "receipted")
  /\ UNCHANGED <<holder, requested, result, disposition, traces, faults>>

\* Whether the provider loop has an attempt left.
RetryAfter(w) == worker[w].attempt < MaxAttempts

\* A timeout, a transport failure or a retryable status: next attempt, or
\* ProviderTransientError with the traces of all of them once the attempts
\* are used up.
AnswerIsTransient(w) ==
  /\ worker[w].at = "posted"
  /\ Receipt(w, "retryable_failure")
  /\ worker' = [worker EXCEPT ![w] =
                 IF RetryAfter(w)
                 THEN [@ EXCEPT !.at = "attempting",
                                !.attempt = worker[w].attempt + 1]
                 ELSE [@ EXCEPT !.at = "failed"]]
  /\ IF RetryAfter(w) THEN UNCHANGED traces
     ELSE Keep(w, "this", worker[w].attempt, "retryable_failure")
  /\ UNCHANGED <<holder, requested, result, disposition, faults>>

\* Mutant: an answer that does not decode is tried again like a timeout.
AnswerDoesNotDecode_Retried(w) ==
  /\ worker[w].at = "posted"
  /\ Receipt(w, "terminal_failure")
  /\ worker' = [worker EXCEPT ![w] =
                 IF RetryAfter(w)
                 THEN [@ EXCEPT !.at = "attempting",
                                !.attempt = worker[w].attempt + 1]
                 ELSE [@ EXCEPT !.at = "failed"]]
  /\ Keep(w, "this", worker[w].attempt, "terminal_failure")
  /\ UNCHANGED <<holder, requested, result, disposition, faults>>

\* The answer is not the typed result asked for: ProviderPermanentError
\* after the receipt of the attempt.
AnswerDoesNotDecode(w) ==
  /\ worker[w].at = "posted"
  /\ Receipt(w, "terminal_failure")
  /\ MoveTo(w, "failed")
  /\ Keep(w, "this", worker[w].attempt, "terminal_failure")
  /\ UNCHANGED <<holder, requested, result, disposition, faults>>

\* The transport raises ProviderPermanentError: the loop has no handler for
\* it, so the attempt gets no receipt, and the buffer of the thread stays
\* what it was, with what an earlier delivery left there.
RequestIsRejected(w) ==
  /\ MayReject
  /\ worker[w].at = "posted"
  /\ MoveTo(w, "failed")
  /\ UNCHANGED <<holder, requested, receipt, result, disposition, traces, faults>>

\* The answer of an attempt another delivery has a receipt for: the store
\* raises AuthorityConflict and the delivery leaves through its finally.
AnswerConflicts(w) ==
  /\ worker[w].at = "posted"
  /\ receipt[worker[w].attempt] # NoReceipt
  /\ MoveTo(w, "releasing")
  /\ UNCHANGED <<holder, requested, receipt, result, disposition, traces, faults>>

\* after_result, a transaction of its own after the receipt's.  The call
\* returns, and the delivery takes its traces at once.
StoreResult(w) ==
  /\ worker[w].at = "receipted"
  /\ result = "nobody"
  /\ result' = w
  /\ MoveTo(w, "answered")
  /\ TakeTraces(w)
  /\ UNCHANGED <<holder, requested, receipt, disposition, faults>>

\* The authority commit asserts the delivery lease.
Entitled(w) == holder = w /\ Pending

\* The typed result enters authority.
Commit(w) ==
  /\ worker[w].at = "answered"
  /\ Entitled(w)
  /\ disposition' = "COMPLETED"
  /\ MoveTo(w, "releasing")
  /\ UNCHANGED <<holder, requested, receipt, result, traces, faults>>

\* The history the buffer reports: attempt a of it, as a receipt by w.
Reported(w, a) ==
  [by |-> w,
   disposition |-> IF a = traces[w].upTo THEN traces[w].last
                   ELSE "retryable_failure"]

\* Mutant: the reported attempts are written whatever is there already.
RecordTraces_Overwrites(w) ==
  receipt' = [a \in Attempts |->
               IF a <= traces[w].upTo THEN Reported(w, a) ELSE receipt[a]]

\* Traces of this job are the receipts it has already, and recording them
\* again changes nothing.  Any other history is written down as the one of
\* this job, which must not have a receipt yet for any attempt of it.
RecordTraces(w) ==
  IF traces[w].of = "this" THEN UNCHANGED receipt
  ELSE /\ \A a \in Attempts : a <= traces[w].upTo => receipt[a] = NoReceipt
       /\ receipt' = [a \in Attempts |->
                       IF a <= traces[w].upTo THEN Reported(w, a)
                       ELSE receipt[a]]

\* _commit_provider_failure: requests and receipts of the traces, terminal
\* disposition and checkpoint in one transaction.
CommitFailure(w) ==
  /\ worker[w].at = "failed"
  /\ Entitled(w)
  /\ RecordTraces(w)
  /\ requested' = IF traces[w].upTo > requested THEN traces[w].upTo
                  ELSE requested
  /\ disposition' = "TERMINAL_FAILURE"
  /\ TakeTraces(w)
  /\ MoveTo(w, "releasing")
  /\ UNCHANGED <<holder, result, faults>>

\* The traces contradict a receipt the job already has: the transaction is
\* rolled back.
FailureConflicts(w) ==
  /\ worker[w].at = "failed" /\ traces[w].of # "this"
  /\ \E a \in Attempts : a <= traces[w].upTo /\ receipt[a] # NoReceipt
  /\ TakeTraces(w)
  /\ MoveTo(w, "releasing")
  /\ UNCHANGED <<holder, requested, receipt, result, disposition, faults>>

\* A commit that is not made: the traces of a failed call have been taken.
LeaveCommit(w) ==
  /\ MoveTo(w, "releasing")
  /\ IF worker[w].at = "failed" THEN TakeTraces(w) ELSE UNCHANGED traces

\* A fenced or superseded delivery gives up in its commit.
GiveUp(w) ==
  /\ worker[w].at \in {"answered", "failed"}
  /\ ~Entitled(w)
  /\ LeaveCommit(w)
  /\ UNCHANGED <<holder, requested, receipt, result, disposition, faults>>

\* The commit is rolled back by a conflict with another controller.
CommitRefused(w) ==
  /\ Fault
  /\ worker[w].at \in {"answered", "failed"}
  /\ LeaveCommit(w)
  /\ UNCHANGED <<holder, requested, receipt, result, disposition>>

\* stop_and_get raises LeaseFenceLost after a failed call, because the lease
\* is gone or a heartbeat failed: the delivery leaves before it takes the
\* traces, and the thread keeps them.
LeaveTraces(w) ==
  /\ worker[w].at = "failed"
  /\ IF holder = w THEN Fault ELSE UNCHANGED faults
  /\ MoveTo(w, "releasing")
  /\ UNCHANGED <<holder, requested, receipt, result, disposition, traces>>

\* The thread delivers another job.  Most deliveries empty the buffer; one
\* that leaves its own traces behind takes a fault.
DeliverAnother(w) ==
  /\ worker[w].at = "idle"
  /\ \/ TakeTraces(w) /\ UNCHANGED faults
     \/ /\ Fault
        /\ \/ \E a \in Attempts : Keep(w, "another", a, "terminal_failure")
           \/ Keep(w, "another", MaxAttempts, "retryable_failure")
  /\ UNCHANGED <<holder, requested, receipt, result, disposition, worker>>

Release(w) ==
  /\ worker[w].at = "releasing"
  /\ holder' = IF holder = w THEN "nobody" ELSE holder
  /\ worker' = [worker EXCEPT ![w] = Idle]
  /\ Forget(w)
  /\ UNCHANGED <<requested, disposition, traces, faults>>

\* The process ends, and the memory of its thread with it.
Crash(w) ==
  /\ Fault
  /\ worker[w].at # "idle"
  /\ holder' = IF holder = w THEN "dead" ELSE holder
  /\ worker' = [worker EXCEPT ![w] = Idle]
  /\ TakeTraces(w)
  /\ Forget(w)
  /\ UNCHANGED <<requested, disposition>>

\* The heartbeat fails long enough for the lease to expire.
LoseLease(w) ==
  /\ Fault
  /\ holder = w
  /\ holder' = "nobody"
  /\ UNCHANGED <<requested, receipt, result, disposition, worker, traces>>

DeadLeaseExpires ==
  /\ holder = "dead"
  /\ holder' = "nobody"
  /\ UNCHANGED <<requested, receipt, result, disposition, worker, traces, faults>>

\* The controller moved on: the job is superseded by a newer authority.
Supersede ==
  /\ Pending
  /\ disposition' = "SUPERSEDED"
  /\ UNCHANGED <<holder, requested, receipt, result, worker, traces, faults>>

DeliveryStep(w) ==
  \/ Claim(w)
  \/ BeforeAttempt(w)
  \/ AnswerSucceeds(w)
  \/ AnswerIsTransient(w)
  \/ AnswerDoesNotDecode(w)
  \/ RequestIsRejected(w)
  \/ AnswerConflicts(w)
  \/ StoreResult(w)
  \/ Commit(w)
  \/ CommitFailure(w)
  \/ FailureConflicts(w)
  \/ GiveUp(w)
  \/ Release(w)

Next ==
  \/ \E w \in Workers :
       \/ DeliveryStep(w)
       \/ CommitRefused(w) \/ LeaveTraces(w) \/ DeliverAnother(w)
       \/ Crash(w) \/ LoseLease(w)
  \/ DeadLeaseExpires
  \/ Supersede

\* A worker that runs keeps running, and the storage clock expires the lease
\* of a dead worker.  That every provider call returns is asked of the
\* environment: the transport waits without limit unless timeout_seconds is
\* set, and its default is none.  Faults are not fair.
Fairness ==
  /\ \A w \in Workers : WF_vars(DeliveryStep(w))
  /\ WF_vars(DeadLeaseExpires)

Spec == Init /\ [][Next]_vars /\ Fairness
-----------------------------------------------------------------------------
\* What a delivery is about to commit is the durable result of the job: the
\* one result, stored by itself or by the delivery it continues, backed by
\* the receipt of a successful attempt.
AnswerIsDurable ==
  \A w \in Workers :
    worker[w].at = "answered" =>
      /\ result # "nobody"
      /\ worker[w].answer = "own" => result = w
      /\ \E a \in Attempts :
           receipt[a] = [by |-> result, disposition |-> "succeeded"]

\* The attempt history is one chain: every attempt before one with a receipt
\* ended in a retryable failure, whatever deliveries raced, so the success
\* or the terminal failure of a job is its last attempt.
ReceiptChain ==
  \A a, b \in Attempts :
    b < a /\ receipt[a] # NoReceipt =>
      receipt[b].disposition = "retryable_failure"

\* At most one delivery in progress has receipts, and no delivery continues
\* the chain of another: zombies and takeovers do not interleave attempts.
OneDeliveryPerChain ==
  \A a, b \in Attempts :
    receipt[a] # NoReceipt /\ receipt[b] # NoReceipt =>
      receipt[a].by = receipt[b].by

\* A receipt is written down before the verdict that rests on it, and a job
\* with a successful attempt does not fail.  That the attempts of a failed job
\* are its own is not claimed: the traces of another job that the thread still
\* had may be written down for it.
VerdictMatchesHistory ==
  /\ disposition = "COMPLETED" => result # "nobody"
  /\ disposition = "TERMINAL_FAILURE" =>
       /\ \E a \in Attempts : receipt[a] # NoReceipt
       /\ \A a \in Attempts : receipt[a].disposition # "succeeded"

\* A delivery that starts after the result is durable calls nobody.
StoredResultIsReused ==
  [][\A w \in Workers :
       result # "nobody" /\ worker[w].at = "idle"
         => worker'[w].at \in {"idle", "answered"}]_vars

\* A delivery ended between the receipt of its first attempt and its durable
\* result: it crashed, or was refused by the receipts of another one.
Abandoned == receipt[1].by = "past" /\ result = "nobody" /\ Pending

\* The threads that still have the traces of a failed call of this job.
Rememberers == {w \in Workers : traces[w].of = "this"}

\* Out of such a call leads only the thread that made it, as long as it keeps
\* the traces: a later call of it that is rejected reports them again.  Every
\* other delivery starts again at the first attempt, whose receipt is taken,
\* and leaves with no result, no verdict and no trace of its own
\* (before_attempt, record_provider_attempt_receipt, take_last_attempt_trace
\* and _commit_provider_failure).  When no thread has the traces (the process
\* ended, the thread delivered another job, a commit was refused, or the call
\* had succeeded), only the controller settles the job, by superseding it.
AbandonedNeedsItsTraces ==
  [][Abandoned =>
       \/ Abandoned' /\ Rememberers' \subseteq Rememberers
       \/ disposition' = "SUPERSEDED"
       \/ /\ disposition' = "TERMINAL_FAILURE"
          /\ \E w \in Rememberers : worker[w].at = "failed"]_vars

\* A durable result is committed in the end (or the job superseded), however
\* many workers crash or lose their lease on the way.
StoredResultSettles == result # "nobody" ~> ~Pending

\* A job whose provider was called ends with a terminal disposition: no
\* pending job stays behind that nobody can deliver.
CalledJobSettles == requested > 0 ~> ~Pending

\* The holder of the one job of this module, as JobHolding knows it: a dead
\* holder keeps the job blocked.
Holding == INSTANCE JobHolding
             WITH Jobs <- {"job"},
                  leased <- [j \in {"job"} |-> holder # "nobody"],
                  holder <- [j \in {"job"} |-> {holder} \cap Workers],
                  verdict <- [j \in {"job"} |-> disposition]

\* Deliveries ask no more of their lease than JobLease gives.
HoldingPromise == Holding!Spec
=============================================================================
