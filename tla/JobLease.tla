----------------------------- MODULE JobLease -----------------------------
(***************************************************************************)
(* Delivery leases of the durable outbox of the vnext analysis core: how a *)
(* pool of workers claims jobs, renews its claim from a heartbeat thread   *)
(* while a model or a capability is being called, and commits one terminal *)
(* disposition behind a fencing token.                                     *)
(*                                                                         *)
(* Time.  The storage arbitrates every lease with its own clock.  A lease  *)
(* is kept here with the ticks it has left, so that the clock itself needs *)
(* no bound; LeaseTicks is the lease duration.  heartbeat_at is what tells *)
(* two copies of one claim apart (the code compares whole lease records):  *)
(* one bit of it, "beat", is enough, because a heartbeat thread that       *)
(* misses one answer fails and never renews again.                         *)
(***************************************************************************)
EXTENDS Naturals

CONSTANTS
  Jobs,        \* outbox message ids
  Workers,     \* delivery workers, one owner_id each
  NoWorker,    \* owner of "no lease row"
  NoJob,       \* job of an idle worker
  LeaseTicks,  \* lease duration, in ticks of the storage clock
  MaxClaims    \* bound: claims (fencing tokens) per job

ASSUME NoWorkerAssumption == NoWorker \notin Workers
ASSUME NoJobAssumption == NoJob \notin Jobs
ASSUME LeaseTicksAssumption == LeaseTicks \in Nat \ {0}
ASSUME MaxClaimsAssumption == MaxClaims \in Nat

VARIABLES
  lease,        \* _job_leases: the lease row of every job
  token,        \* _job_lease_tokens: the highest token ever granted
  disposition,  \* _job_dispositions: the terminal verdict of every job
  worker        \* what every worker process remembers

vars == <<lease, token, disposition, worker>>
-----------------------------------------------------------------------------
Beats == {0, 1}

JobDisposition == {"COMPLETED", "SUPERSEDED", "TERMINAL_FAILURE"}

\* A lease row; the absent row is owned by NoWorker.
LeaseRows == [owner : Workers \cup {NoWorker}, fence : Nat, beat : Beats,
              ttl : 0 .. LeaseTicks]

NoLease == [owner |-> NoWorker, fence |-> 0, beat |-> 0, ttl |-> 0]

\* A disposition row: the verdict and the fencing token it was committed
\* with; a controller that reconciles the mailbox passes no token (0).
Undisposed == [verdict |-> "none", fence |-> 0]

Dispositions == [verdict : JobDisposition \cup {"none"}, fence : Nat]

\* A worker: where it is in a deliver_* handler, its copy of the lease and
\* whether its heartbeat thread has failed.
Steps == {"idle", "calling", "committing", "releasing"}

Idle == [at |-> "idle", job |-> NoJob, fence |-> 0, beat |-> 0,
         failed |-> FALSE]

BusyStates == [at : Steps \ {"idle"}, job : Jobs, fence : Nat, beat : Beats,
               failed : BOOLEAN]

WorkerStates == BusyStates \cup {Idle}

TypeOK ==
  /\ lease \in [Jobs -> LeaseRows]
  /\ token \in [Jobs -> Nat]
  /\ disposition \in [Jobs -> Dispositions]
  /\ worker \in [Workers -> WorkerStates]
-----------------------------------------------------------------------------
\* Mutant: only a completed job counts as terminally disposed.
IsDisposed_OnlyCompleted(j) == disposition[j].verdict = "COMPLETED"

\* A job with a row in _job_dispositions.
IsDisposed(j) == disposition[j].verdict # "none"

Live(j) == lease[j].owner # NoWorker /\ lease[j].ttl > 0

\* "current != lease": the stored row is exactly the worker's copy.
HoldsRow(w) ==
  LET l == lease[worker[w].job] IN
    /\ l.owner = w
    /\ l.fence = worker[w].fence
    /\ l.beat = worker[w].beat

\* Mutant: the row is somebody's and alive, whoever asks.
FenceHeld_AnyOwner(w) == Live(worker[w].job)

\* Mutant: the expiry is not compared with the clock.
FenceHeld_NoExpiry(w) == HoldsRow(w)

\* assert_job_lease
FenceHeld(w) == HoldsRow(w) /\ lease[worker[w].job].ttl > 0

\* Mutant: the token restarts with the row that a release deleted.
NextFence_FromRow(j) ==
  IF lease[j].owner = NoWorker THEN 1 ELSE lease[j].fence + 1

\* The fencing token of the next claim.
NextFence(j) == token[j] + 1

\* Mutant: a lease that expires in this tick is still active.
Elapse_LastTickStays(t) == IF t > 1 THEN t - 1 ELSE t

\* What a tick of the storage clock leaves of a lease.
Elapse(t) == IF t > 0 THEN t - 1 ELSE 0

MoveTo(w, step) == worker' = [worker EXCEPT ![w].at = step]
-----------------------------------------------------------------------------
Init ==
  /\ lease = [j \in Jobs |-> NoLease]
  /\ token = [j \in Jobs |-> 0]
  /\ disposition = [j \in Jobs |-> Undisposed]
  /\ worker = [w \in Workers |-> Idle]

\* acquire_job_lease: refused for a disposed job and for a live row; the
\* token outlives the row it was granted with.
Claim(w, j) ==
  /\ worker[w].at = "idle"
  /\ token[j] < MaxClaims
  /\ ~IsDisposed(j)
  /\ ~Live(j)
  /\ token' = [token EXCEPT ![j] = NextFence(j)]
  /\ lease' = [lease EXCEPT ![j] = [owner |-> w, fence |-> NextFence(j),
                                    beat |-> 0, ttl |-> LeaseTicks]]
  /\ worker' = [worker EXCEPT ![w] = [at |-> "calling", job |-> j,
                                      fence |-> NextFence(j), beat |-> 0,
                                      failed |-> FALSE]]
  /\ UNCHANGED disposition

\* heartbeat_job_lease, with the storage's answer received.
Heartbeat(w) ==
  LET j == worker[w].job IN
    /\ worker[w].at = "calling" /\ ~worker[w].failed
    /\ FenceHeld(w)
    /\ lease' = [lease EXCEPT ![j].beat = 1 - @, ![j].ttl = LeaseTicks]
    /\ worker' = [worker EXCEPT ![w].beat = 1 - @]
    /\ UNCHANGED <<token, disposition>>

\* The renewal is committed but its answer is lost: the thread records the
\* failure and stops with the old copy.
HeartbeatAnswerLost(w) ==
  LET j == worker[w].job IN
    /\ worker[w].at = "calling" /\ ~worker[w].failed
    /\ FenceHeld(w)
    /\ lease' = [lease EXCEPT ![j].beat = 1 - @, ![j].ttl = LeaseTicks]
    /\ worker' = [worker EXCEPT ![w].failed = TRUE]
    /\ UNCHANGED <<token, disposition>>

\* The storage cannot be reached, or refuses a lost or expired row.
HeartbeatFailed(w) ==
  /\ worker[w].at = "calling" /\ ~worker[w].failed
  /\ worker' = [worker EXCEPT ![w].failed = TRUE]
  /\ UNCHANGED <<lease, token, disposition>>

\* Mutant: the handler ignores the failure of its heartbeat thread.
StopHeartbeat_IgnoreFailure(w) ==
  /\ worker[w].at = "calling"
  /\ MoveTo(w, "committing")
  /\ UNCHANGED <<lease, token, disposition>>

\* stop_and_get after the call: a failed heartbeat raises LeaseFenceLost and
\* the handler leaves through its finally clause.
StopHeartbeat(w) ==
  /\ worker[w].at = "calling"
  /\ MoveTo(w, IF worker[w].failed THEN "releasing" ELSE "committing")
  /\ UNCHANGED <<lease, token, disposition>>

\* record_job_disposition inside the authority commit that asserted the fence.
CommitDisposition(w, verdict) ==
  LET j == worker[w].job IN
    /\ worker[w].at = "committing"
    /\ FenceHeld(w)
    /\ ~IsDisposed(j)
    /\ disposition' = [disposition EXCEPT ![j] =
                         [verdict |-> verdict, fence |-> worker[w].fence]]
    /\ MoveTo(w, "releasing")
    /\ UNCHANGED <<lease, token>>

\* Mutant: a retryable attempt is recorded as the terminal disposition.
CommitWithoutVerdict_Recorded(w) ==
  /\ worker[w].at = "committing"
  /\ disposition' = [disposition EXCEPT ![worker[w].job] =
                       [verdict |-> "RETRYABLE_FAILURE",
                        fence |-> worker[w].fence]]
  /\ MoveTo(w, "releasing")
  /\ UNCHANGED <<lease, token>>

\* A commit that ends without a verdict: the fence is lost, the job was
\* superseded meanwhile, or a retryable effect attempt keeps the job pending.
CommitWithoutVerdict(w) ==
  /\ worker[w].at = "committing"
  /\ MoveTo(w, "releasing")
  /\ UNCHANGED <<lease, token, disposition>>

\* _release_job_lease: deletes the worker's own row, expired or not, and
\* ignores a lost one.
Release(w) ==
  LET j == worker[w].job IN
    /\ worker[w].at = "releasing"
    /\ lease' = IF HoldsRow(w) THEN [lease EXCEPT ![j] = NoLease] ELSE lease
    /\ worker' = [worker EXCEPT ![w] = Idle]
    /\ UNCHANGED <<token, disposition>>

\* A worker process dies anywhere and is restarted with no memory.
Crash(w) ==
  /\ worker[w].at # "idle"
  /\ worker' = [worker EXCEPT ![w] = Idle]
  /\ UNCHANGED <<lease, token, disposition>>

\* _reconcile_mailbox_locked disposes of a pending job without any lease.
Supersede(j) ==
  /\ ~IsDisposed(j)
  /\ disposition' = [disposition EXCEPT ![j] =
                       [verdict |-> "SUPERSEDED", fence |-> 0]]
  /\ UNCHANGED <<lease, token, worker>>

\* The storage clock.
Tick ==
  /\ \E j \in Jobs : lease[j].ttl > 0
  /\ lease' = [j \in Jobs |-> [lease[j] EXCEPT !.ttl = Elapse(@)]]
  /\ UNCHANGED <<token, disposition, worker>>

Next ==
  \/ \E w \in Workers :
       \/ \E j \in Jobs : Claim(w, j)
       \/ Heartbeat(w)
       \/ HeartbeatAnswerLost(w)
       \/ HeartbeatFailed(w)
       \/ StopHeartbeat(w)
       \/ \E verdict \in JobDisposition : CommitDisposition(w, verdict)
       \/ CommitWithoutVerdict(w)
       \/ Release(w)
       \/ Crash(w)
  \/ \E j \in Jobs : Supersede(j)
  \/ Tick

Fairness == WF_vars(Tick)

Spec == Init /\ [][Next]_vars /\ Fairness
-----------------------------------------------------------------------------
\* The verdict of a worker is the verdict of the newest claim of the job: no
\* zombie whose lease was taken over gets its result in, and no claim is
\* granted after the verdict (acquire_job_lease, record_job_disposition).
VerdictByNewestClaim ==
  \A j \in Jobs : disposition[j].fence # 0 => disposition[j].fence = token[j]

\* Two processes working on the same job never carry the same fencing token,
\* not even when one of them is a zombie and the rows of the claims between
\* them were released and deleted (_job_lease_tokens outlives _job_leases).
ClaimsAreDistinct ==
  \A v, w \in Workers :
    v # w /\ worker[v].job = worker[w].job /\ worker[v].job # NoJob
      => worker[v].fence # worker[w].fence

\* What makes the two facts above inductive: a lease row carries the newest
\* token, a pending job has no fence recorded, a worker's token was granted
\* to it, and a worker with a failed heartbeat is not about to commit.
LeaseIsNewest ==
  \A j \in Jobs : lease[j].owner # NoWorker => lease[j].fence = token[j]

PendingHasNoFence == \A j \in Jobs : ~IsDisposed(j) => disposition[j].fence = 0

ClaimsAreGranted ==
  \A w \in Workers :
    worker[w].job # NoJob => worker[w].fence \in 1 .. token[worker[w].job]

FailedNeverCommits ==
  \A w \in Workers : worker[w].failed => worker[w].at # "committing"

IInv ==
  /\ TypeOK
  /\ LeaseIsNewest
  /\ PendingHasNoFence
  /\ ClaimsAreGranted
  /\ FailedNeverCommits
  /\ VerdictByNewestClaim
  /\ ClaimsAreDistinct

\* A worker whose periodic heartbeat failed, for whatever reason, never
\* commits a verdict, even while its row is still live in the storage
\* (JobHeartbeatSupervisor.stop_and_get raises LeaseFenceLost).
NoVerdictAfterFailedHeartbeat ==
  [][\A w \in Workers :
       LET j == worker[w].job IN
         worker[w].failed /\ disposition'[j] # disposition[j]
           => disposition'[j].fence # worker[w].fence]_vars

\* An expired claim is never renewed: the row comes back to life only with a
\* newer fencing token, so a takeover that was possible stays possible.
ExpiredClaimStaysExpired ==
  [][\A j \in Jobs :
       lease[j].owner # NoWorker /\ lease[j].ttl = 0 /\ lease'[j].ttl > 0
         => lease'[j].fence > lease[j].fence]_vars

\* A row whose worker crashed, or lost the answer of its last heartbeat,
\* stops blocking the job: it expires without anybody's help.
AbandonedLeaseExpires ==
  \A j \in Jobs :
    (Live(j) /\ \A w \in Workers : ~(worker[w].job = j /\ HoldsRow(w)))
      ~> ~Live(j)

\* The leases, tokens and worker memory implement the two-variable promise
\* of OutboxDelivery.
Delivery == INSTANCE OutboxDelivery
              WITH claims <- token, verdict <- disposition

DeliveryPromise == Delivery!Spec

\* The delivery of w has the live lease of job j: the row is that of its own
\* claim, whatever the last heartbeat left in it.
HoldsLease(w, j) ==
  /\ worker[w].job = j
  /\ lease[j].owner = w
  /\ lease[j].fence = worker[w].fence
  /\ lease[j].ttl > 0

\* The same rows and memory as the holder of each job (JobHolding): what the
\* modules that know a lease by its holder rest on.
Holding == INSTANCE JobHolding
             WITH leased <- [j \in Jobs |-> Live(j)],
                  holder <- [j \in Jobs |-> {w \in Workers : HoldsLease(w, j)}],
                  verdict <- [j \in Jobs |-> disposition[j].verdict]

HoldingPromise == Holding!Spec
=============================================================================
