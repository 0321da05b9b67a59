-------------------------- MODULE JobLease_proofs --------------------------
(***************************************************************************)
(* Machine-checked facts about JobLease, for every set of jobs and of      *)
(* workers, every lease duration and every bound on the claims.            *)
(***************************************************************************)
EXTENDS JobLease, TLAPS

\* A worker inside a handler has every field of one.
LEMMA BusyWorker ==
  ASSUME TypeOK, NEW w \in Workers, worker[w].at # "idle"
  PROVE  worker[w] \in BusyStates
BY DEF TypeOK, WorkerStates, Idle

\* Moving one worker to a state of a handler keeps the worker table typed.
LEMMA BusyUpdate ==
  ASSUME TypeOK, NEW w \in Workers, NEW s \in BusyStates
  PROVE  [worker EXCEPT ![w] = s] \in [Workers -> WorkerStates]
BY DEF TypeOK, WorkerStates

\* So does moving it to another step of the same handler.
LEMMA MoveKeepsType ==
  ASSUME TypeOK, NEW w \in Workers, worker[w].at # "idle",
         NEW step \in Steps \ {"idle"}, MoveTo(w, step)
  PROVE  worker' \in [Workers -> WorkerStates]
<1>1. worker[w] \in BusyStates
  BY BusyWorker
<1>2. [worker[w] EXCEPT !.at = step] \in BusyStates
  BY <1>1 DEF BusyStates
<1> QED BY <1>2, BusyUpdate DEF MoveTo

LEMMA TypeInit == Init => TypeOK
BY LeaseTicksAssumption
DEF Init, TypeOK, LeaseRows, NoLease, Dispositions, Undisposed, WorkerStates,
    Beats

\* One case per action; only the tables an action writes are looked at.
LEMMA TypeStep == ASSUME TypeOK, [Next]_vars PROVE TypeOK'
<1> USE NoWorkerAssumption, NoJobAssumption, LeaseTicksAssumption,
        MaxClaimsAssumption
<1>1. ASSUME NEW w \in Workers, NEW j \in Jobs, Claim(w, j) PROVE TypeOK'
  <2>1. token[j] + 1 \in Nat
    BY DEF TypeOK
  <2>2. lease' \in [Jobs -> LeaseRows] /\ token' \in [Jobs -> Nat]
    BY <1>1, <2>1 DEF Claim, NextFence, TypeOK, LeaseRows, Beats
  <2>3. worker' \in [Workers -> WorkerStates]
    BY <1>1, <2>1, BusyUpdate DEF Claim, NextFence, BusyStates, Steps, Beats
  <2> QED BY <1>1, <2>2, <2>3 DEF Claim, TypeOK
<1>2. ASSUME NEW w \in Workers, Heartbeat(w) PROVE TypeOK'
  <2>1. worker[w] \in BusyStates
    BY <1>2, BusyWorker DEF Heartbeat
  <2>2. lease' \in [Jobs -> LeaseRows]
    BY <1>2, <2>1 DEF Heartbeat, TypeOK, LeaseRows, Beats, BusyStates
  <2>3. [worker[w] EXCEPT !.beat = 1 - @] \in BusyStates
    BY <2>1 DEF BusyStates, Beats
  <2>4. worker' \in [Workers -> WorkerStates]
    BY <1>2, <2>3, BusyUpdate DEF Heartbeat
  <2> QED BY <1>2, <2>2, <2>4 DEF Heartbeat, TypeOK
<1>3. ASSUME NEW w \in Workers, HeartbeatAnswerLost(w) PROVE TypeOK'
  <2>1. worker[w] \in BusyStates
    BY <1>3, BusyWorker DEF HeartbeatAnswerLost
  <2>2. lease' \in [Jobs -> LeaseRows]
    BY <1>3, <2>1
    DEF HeartbeatAnswerLost, TypeOK, LeaseRows, Beats, BusyStates
  <2>3. [worker[w] EXCEPT !.failed = TRUE] \in BusyStates
    BY <2>1 DEF BusyStates
  <2>4. worker' \in [Workers -> WorkerStates]
    BY <1>3, <2>3, BusyUpdate DEF HeartbeatAnswerLost
  <2> QED BY <1>3, <2>2, <2>4 DEF HeartbeatAnswerLost, TypeOK
<1>4. ASSUME NEW w \in Workers, HeartbeatFailed(w) PROVE TypeOK'
  <2>1. worker[w] \in BusyStates
    BY <1>4, BusyWorker DEF HeartbeatFailed
  <2>2. [worker[w] EXCEPT !.failed = TRUE] \in BusyStates
    BY <2>1 DEF BusyStates
  <2> QED BY <1>4, <2>2, BusyUpdate DEF HeartbeatFailed, TypeOK
<1>5. ASSUME NEW w \in Workers, StopHeartbeat(w) PROVE TypeOK'
  <2>1. worker' \in [Workers -> WorkerStates]
    <3>1. CASE worker[w].failed
      BY <1>5, <3>1, MoveKeepsType DEF StopHeartbeat, Steps
    <3>2. CASE ~worker[w].failed
      BY <1>5, <3>2, MoveKeepsType DEF StopHeartbeat, Steps
    <3> QED BY <3>1, <3>2
  <2> QED BY <1>5, <2>1 DEF StopHeartbeat, TypeOK
<1>6. ASSUME NEW w \in Workers, NEW verdict \in JobDisposition,
             CommitDisposition(w, verdict)
      PROVE  TypeOK'
  <2>1. worker[w] \in BusyStates
    BY <1>6, BusyWorker DEF CommitDisposition
  <2>2. disposition' \in [Jobs -> Dispositions]
    BY <1>6, <2>1 DEF CommitDisposition, TypeOK, Dispositions, BusyStates
  <2>3. worker' \in [Workers -> WorkerStates]
    BY <1>6, MoveKeepsType DEF CommitDisposition, Steps
  <2> QED BY <1>6, <2>2, <2>3 DEF CommitDisposition, TypeOK
<1>7. ASSUME NEW w \in Workers, CommitWithoutVerdict(w) PROVE TypeOK'
  <2>1. worker' \in [Workers -> WorkerStates]
    BY <1>7, MoveKeepsType DEF CommitWithoutVerdict, Steps
  <2> QED BY <1>7, <2>1 DEF CommitWithoutVerdict, TypeOK
<1>8. ASSUME NEW w \in Workers, Release(w) PROVE TypeOK'
  <2>1. worker' \in [Workers -> WorkerStates]
    BY <1>8 DEF Release, TypeOK, WorkerStates
  <2>2. NoLease \in LeaseRows
    BY DEF NoLease, LeaseRows, Beats
  <2>3. lease' \in [Jobs -> LeaseRows]
    BY <1>8, <2>2 DEF Release, TypeOK
  <2> QED BY <1>8, <2>1, <2>3 DEF Release, TypeOK
<1>9. ASSUME NEW w \in Workers, Crash(w) PROVE TypeOK'
  BY <1>9 DEF Crash, TypeOK, WorkerStates
<1>10. ASSUME NEW j \in Jobs, Supersede(j) PROVE TypeOK'
  BY <1>10 DEF Supersede, TypeOK, Dispositions, JobDisposition
<1>11. CASE Tick
  <2>1. ASSUME NEW t \in 0 .. LeaseTicks
        PROVE  Elapse(t) \in 0 .. LeaseTicks
    BY <2>1 DEF Elapse
  <2>2. ASSUME NEW j \in Jobs
        PROVE  [lease[j] EXCEPT !.ttl = Elapse(@)]
                 \in LeaseRows
    BY <2>1 DEF TypeOK, LeaseRows
  <2> QED BY <1>11, <2>2 DEF Tick, TypeOK
<1>12. CASE UNCHANGED vars
  BY <1>12 DEF vars, TypeOK
<1> QED
  BY <1>1, <1>2, <1>3, <1>4, <1>5, <1>6, <1>7, <1>8, <1>9, <1>10, <1>11,
     <1>12 DEF Next

\* Every value a reachable state holds is of its declared kind: in
\* particular no lease is ever longer than the lease duration.
THEOREM TypeCorrect == Spec => []TypeOK
<1>1. TypeOK /\ [Next]_vars => TypeOK'
  BY TypeStep
<1> QED BY TypeInit, <1>1, PTL DEF Spec
-----------------------------------------------------------------------------
LEMMA InvInit == Init => IInv
<1> SUFFICES ASSUME Init PROVE IInv
  OBVIOUS
<1>1. TypeOK
  BY TypeInit
<1>2. LeaseIsNewest
  BY DEF Init, LeaseIsNewest, NoLease
<1>3. PendingHasNoFence /\ VerdictByNewestClaim
  BY DEF Init, PendingHasNoFence, VerdictByNewestClaim, Undisposed
<1>4. ClaimsAreGranted /\ FailedNeverCommits /\ ClaimsAreDistinct
  BY DEF Init, ClaimsAreGranted, FailedNeverCommits, ClaimsAreDistinct, Idle
<1> QED BY <1>1, <1>2, <1>3, <1>4 DEF IInv

\* Whoever holds the fence holds the newest claim.
LEMMA FenceIsNewest ==
  ASSUME IInv, NEW w \in Workers, worker[w].at # "idle", FenceHeld(w)
  PROVE  worker[w].fence = token[worker[w].job]
<1>1. worker[w].job \in Jobs
  BY BusyWorker DEF IInv, BusyStates
<1> QED
  BY <1>1, NoWorkerAssumption DEF IInv, LeaseIsNewest, FenceHeld, HoldsRow

\* An action that leaves the tokens alone, and every worker either with its
\* claim or idle, keeps what is known of the claims.
LEMMA ClaimsKept ==
  ASSUME IInv, token' = token,
         \A w \in Workers :
           \/ worker'[w] = Idle
           \/ worker'[w].job = worker[w].job /\ worker'[w].fence = worker[w].fence
  PROVE  ClaimsAreGranted' /\ ClaimsAreDistinct'
BY DEF IInv, ClaimsAreGranted, ClaimsAreDistinct, Idle

LEMMA InvStep == ASSUME IInv, [Next]_vars PROVE IInv'
<1> USE NoWorkerAssumption, NoJobAssumption DEF IInv
<1>0. TypeOK'
  BY TypeStep
<1>1. ASSUME NEW w \in Workers, NEW j \in Jobs, Claim(w, j) PROVE IInv'
  <2>1. token[j] \in Nat /\ token[j] + 1 \in Nat
    BY DEF TypeOK
  <2>2. LeaseIsNewest'
    BY <1>1, <2>1 DEF Claim, NextFence, LeaseIsNewest, TypeOK
  <2>3. PendingHasNoFence' /\ VerdictByNewestClaim'
    BY <1>1, <2>1
    DEF Claim, NextFence, PendingHasNoFence, VerdictByNewestClaim, IsDisposed,
        TypeOK
  <2>4. \A v \in Workers \ {w} : worker'[v] = worker[v]
    BY <1>1 DEF Claim, TypeOK
  <2>5. /\ worker'[w].job = j /\ worker'[w].fence = token[j] + 1
        /\ worker'[w].failed = FALSE
        /\ token' = [token EXCEPT ![j] = token[j] + 1]
    BY <1>1 DEF Claim, NextFence, TypeOK
  <2>6. \A v \in Workers : worker[v].job # NoJob => worker[v].job \in Jobs
    BY DEF TypeOK, WorkerStates, BusyStates, Idle
  <2>7. \A v \in Workers : worker[v].job = j => worker[v].fence \in 1 .. token[j]
    BY DEF ClaimsAreGranted
  <2>8. \A v \in Workers :
          worker[v].job # NoJob =>
            worker[v].fence \in 1 .. token'[worker[v].job]
    BY <2>1, <2>5, <2>6 DEF ClaimsAreGranted, TypeOK
  <2>9. ClaimsAreGranted'
    BY <2>1, <2>4, <2>5, <2>8 DEF ClaimsAreGranted, TypeOK
  <2>10. ClaimsAreDistinct'
    BY <2>1, <2>4, <2>5, <2>7 DEF ClaimsAreDistinct
  <2>11. FailedNeverCommits'
    BY <2>4, <2>5 DEF FailedNeverCommits
  <2> QED BY <1>0, <2>2, <2>3, <2>9, <2>10, <2>11
<1>2. ASSUME NEW w \in Workers, Heartbeat(w) \/ HeartbeatAnswerLost(w)
      PROVE  IInv'
  <2>1. worker[w].job \in Jobs
    BY <1>2, BusyWorker DEF Heartbeat, HeartbeatAnswerLost, BusyStates
  <2>2. LeaseIsNewest'
    <3>1. lease' = [lease EXCEPT ![worker[w].job].beat = 1 - @,
                                 ![worker[w].job].ttl = LeaseTicks]
      BY <1>2 DEF Heartbeat, HeartbeatAnswerLost
    <3>2. \A j \in Jobs : /\ lease'[j].owner = lease[j].owner
                          /\ lease'[j].fence = lease[j].fence
      BY <3>1, <2>1 DEF TypeOK, LeaseRows
    <3>3. token' = token
      BY <1>2 DEF Heartbeat, HeartbeatAnswerLost
    <3> QED BY <3>2, <3>3 DEF LeaseIsNewest
  <2>3. PendingHasNoFence' /\ VerdictByNewestClaim'
    BY <1>2
    DEF Heartbeat, HeartbeatAnswerLost, PendingHasNoFence,
        VerdictByNewestClaim, IsDisposed
  <2>4. \A v \in Workers : /\ worker'[v].job = worker[v].job
                           /\ worker'[v].fence = worker[v].fence
                           /\ worker'[v].at = worker[v].at
                           /\ worker'[v].failed => \/ worker[v].failed
                                                   \/ worker[v].at = "calling"
    BY <1>2, BusyWorker
    DEF Heartbeat, HeartbeatAnswerLost, TypeOK, BusyStates
  <2>5. ClaimsAreGranted' /\ ClaimsAreDistinct'
    BY <1>2, <2>4, ClaimsKept DEF Heartbeat, HeartbeatAnswerLost
  <2>6. FailedNeverCommits'
    BY <2>4 DEF FailedNeverCommits
  <2> QED BY <1>0, <2>2, <2>3, <2>5, <2>6
<1>3. ASSUME NEW w \in Workers,
             HeartbeatFailed(w) \/ StopHeartbeat(w) \/ CommitWithoutVerdict(w)
      PROVE  IInv'
  <2>1. LeaseIsNewest' /\ PendingHasNoFence' /\ VerdictByNewestClaim'
    BY <1>3
    DEF HeartbeatFailed, StopHeartbeat, CommitWithoutVerdict, LeaseIsNewest,
        PendingHasNoFence, VerdictByNewestClaim, IsDisposed
  <2>2. worker[w] \in BusyStates
    BY <1>3, BusyWorker DEF HeartbeatFailed, StopHeartbeat, CommitWithoutVerdict
  <2>3. \A v \in Workers : /\ worker'[v].job = worker[v].job
                           /\ worker'[v].fence = worker[v].fence
    BY <1>3, <2>2
    DEF HeartbeatFailed, StopHeartbeat, CommitWithoutVerdict, MoveTo, TypeOK,
        BusyStates
  <2>4. ClaimsAreGranted' /\ ClaimsAreDistinct'
    BY <1>3, <2>3, ClaimsKept
    DEF HeartbeatFailed, StopHeartbeat, CommitWithoutVerdict
  <2>5. \A v \in Workers \ {w} : worker'[v] = worker[v]
    BY <1>3
    DEF HeartbeatFailed, StopHeartbeat, CommitWithoutVerdict, MoveTo, TypeOK
  <2>6. worker'[w].failed => worker'[w].at # "committing"
    <3>1. CASE HeartbeatFailed(w)
      BY <3>1, <2>2 DEF HeartbeatFailed, TypeOK, BusyStates
    <3>2. CASE StopHeartbeat(w)
      BY <3>2, <2>2 DEF StopHeartbeat, MoveTo, TypeOK, BusyStates
    <3>3. CASE CommitWithoutVerdict(w)
      BY <3>3, <2>2 DEF CommitWithoutVerdict, MoveTo, TypeOK, BusyStates
    <3> QED BY <1>3, <3>1, <3>2, <3>3
  <2>7. FailedNeverCommits'
    BY <2>5, <2>6 DEF FailedNeverCommits
  <2> QED BY <1>0, <2>1, <2>4, <2>7
<1>4. ASSUME NEW w \in Workers, NEW verdict \in JobDisposition,
             CommitDisposition(w, verdict)
      PROVE  IInv'
  <2>1. worker[w] \in BusyStates
    BY <1>4, BusyWorker DEF CommitDisposition
  <2>2. worker[w].fence = token[worker[w].job]
    BY <1>4, FenceIsNewest DEF CommitDisposition
  <2>3. LeaseIsNewest'
    BY <1>4 DEF CommitDisposition, LeaseIsNewest
  <2>4. PendingHasNoFence' /\ VerdictByNewestClaim'
    BY <1>4, <2>1, <2>2
    DEF CommitDisposition, PendingHasNoFence, VerdictByNewestClaim, IsDisposed,
        TypeOK, BusyStates, JobDisposition
  <2>5. \A v \in Workers : /\ worker'[v].job = worker[v].job
                           /\ worker'[v].fence = worker[v].fence
                           /\ worker'[v].failed = worker[v].failed
                           /\ \/ worker'[v].at = worker[v].at
                              \/ worker'[v].at = "releasing"
    BY <1>4, <2>1 DEF CommitDisposition, MoveTo, TypeOK, BusyStates
  <2>6. ClaimsAreGranted' /\ ClaimsAreDistinct'
    BY <1>4, <2>5, ClaimsKept DEF CommitDisposition
  <2>7. FailedNeverCommits'
    BY <2>5 DEF FailedNeverCommits
  <2> QED BY <1>0, <2>3, <2>4, <2>6, <2>7
<1>5. ASSUME NEW w \in Workers, Release(w) \/ Crash(w) PROVE IInv'
  <2>1. \A j \in Jobs : lease'[j] = lease[j] \/ lease'[j] = NoLease
    BY <1>5 DEF Release, Crash, TypeOK
  <2>2. LeaseIsNewest'
    <3>1. token' = token
      BY <1>5 DEF Release, Crash
    <3>2. NoLease.owner = NoWorker
      BY DEF NoLease
    <3> QED BY <2>1, <3>1, <3>2 DEF LeaseIsNewest
  <2>3. PendingHasNoFence' /\ VerdictByNewestClaim'
    BY <1>5
    DEF Release, Crash, PendingHasNoFence, VerdictByNewestClaim, IsDisposed
  <2>4. \A v \in Workers : worker'[v] = Idle \/ worker'[v] = worker[v]
    BY <1>5 DEF Release, Crash, TypeOK
  <2>5. ClaimsAreGranted' /\ ClaimsAreDistinct'
    BY <1>5, <2>4, ClaimsKept DEF Release, Crash
  <2>6. FailedNeverCommits'
    BY <2>4 DEF FailedNeverCommits, Idle
  <2> QED BY <1>0, <2>2, <2>3, <2>5, <2>6
<1>6. ASSUME NEW j \in Jobs, Supersede(j) PROVE IInv'
  <2>1. PendingHasNoFence' /\ VerdictByNewestClaim'
    BY <1>6
    DEF Supersede, PendingHasNoFence, VerdictByNewestClaim, IsDisposed, TypeOK
  <2>2. /\ LeaseIsNewest' /\ FailedNeverCommits'
        /\ ClaimsAreGranted' /\ ClaimsAreDistinct'
    BY <1>6
    DEF Supersede, LeaseIsNewest, FailedNeverCommits, ClaimsAreGranted,
        ClaimsAreDistinct
  <2> QED BY <1>0, <2>1, <2>2
<1>7. CASE Tick
  <2>1. \A j \in Jobs : /\ lease'[j].owner = lease[j].owner
                        /\ lease'[j].fence = lease[j].fence
    BY <1>7 DEF Tick, TypeOK, LeaseRows
  <2>2. LeaseIsNewest'
    BY <1>7, <2>1 DEF Tick, LeaseIsNewest
  <2>3. /\ PendingHasNoFence' /\ VerdictByNewestClaim' /\ FailedNeverCommits'
        /\ ClaimsAreGranted' /\ ClaimsAreDistinct'
    BY <1>7
    DEF Tick, PendingHasNoFence, VerdictByNewestClaim, IsDisposed,
        FailedNeverCommits, ClaimsAreGranted, ClaimsAreDistinct
  <2> QED BY <1>0, <2>2, <2>3
<1>8. CASE UNCHANGED vars
  BY <1>0, <1>8
  DEF vars, LeaseIsNewest, PendingHasNoFence, VerdictByNewestClaim, IsDisposed,
      FailedNeverCommits, ClaimsAreGranted, ClaimsAreDistinct
<1> QED
  BY <1>1, <1>2, <1>3, <1>4, <1>5, <1>6, <1>7, <1>8 DEF Next

LEMMA Invariance == Spec => []IInv
<1>1. IInv /\ [Next]_vars => IInv'
  BY InvStep
<1> QED BY InvInit, <1>1, PTL DEF Spec

\* For every number of workers, jobs, claims and every lease duration: a
\* verdict that names a fence names the newest one.
THEOREM VerdictIsOfNewestClaim == Spec => []VerdictByNewestClaim
<1>1. IInv => VerdictByNewestClaim
  BY DEF IInv
<1> QED BY <1>1, Invariance, PTL

\* Two processes never work on one job with the same fencing token.
THEOREM ClaimsNeverShareAFence == Spec => []ClaimsAreDistinct
<1>1. IInv => ClaimsAreDistinct
  BY DEF IInv
<1> QED BY <1>1, Invariance, PTL

\* A failed heartbeat keeps its worker out of the dispositions for good.
THEOREM FailedHeartbeatIsFenced == Spec => NoVerdictAfterFailedHeartbeat
<1>1. ASSUME IInv, [Next]_vars, NEW w \in Workers, worker[w].failed,
             disposition'[worker[w].job] # disposition[worker[w].job]
      PROVE  disposition'[worker[w].job].fence # worker[w].fence
  <2> USE NoJobAssumption DEF IInv
  <2>1. worker[w].at # "idle" /\ worker[w].at # "committing"
    BY <1>1 DEF FailedNeverCommits, TypeOK, WorkerStates, BusyStates, Idle
  <2>2. /\ worker[w].job \in Jobs /\ worker[w].job # NoJob
        /\ worker[w].fence \in 1 .. token[worker[w].job]
    BY <1>1, <2>1, BusyWorker DEF ClaimsAreGranted, BusyStates
  <2>3. worker[w].fence # 0
    BY <1>1, <2>2 DEF TypeOK
  <2>4. ASSUME NEW v \in Workers, NEW verdict \in JobDisposition,
               CommitDisposition(v, verdict)
        PROVE  disposition'[worker[w].job].fence # worker[w].fence
    <3>1. v # w
      BY <2>1, <2>4 DEF CommitDisposition
    <3>2. worker[v].job = worker[w].job
      BY <1>1, <2>4, <2>2 DEF CommitDisposition, TypeOK
    <3>3. disposition'[worker[w].job].fence = worker[v].fence
      BY <1>1, <2>4, <2>2, <3>2 DEF CommitDisposition, TypeOK
    <3> QED BY <3>1, <3>2, <3>3, <2>2, <1>1 DEF ClaimsAreDistinct
  <2>5. ASSUME NEW j \in Jobs, Supersede(j)
        PROVE  disposition'[worker[w].job].fence # worker[w].fence
    <3>1. worker[w].job = j
      BY <1>1, <2>2, <2>5 DEF Supersede, TypeOK
    <3>2. disposition'[j].fence = 0
      BY <1>1, <2>5 DEF Supersede, TypeOK
    <3> QED BY <3>1, <3>2, <2>3
  <2>6. CASE UNCHANGED disposition
    BY <1>1, <2>6
  <2>7. \/ \E v \in Workers, verdict \in JobDisposition :
             CommitDisposition(v, verdict)
        \/ \E j \in Jobs : Supersede(j)
        \/ UNCHANGED disposition
    BY <1>1
    DEF Next, vars, Claim, Heartbeat, HeartbeatAnswerLost, HeartbeatFailed,
        StopHeartbeat, CommitWithoutVerdict, Release, Crash, Tick
  <2> QED BY <2>4, <2>5, <2>6, <2>7
<1>2. ASSUME IInv, [Next]_vars
      PROVE  [\A w \in Workers :
                LET j == worker[w].job IN
                  worker[w].failed /\ disposition'[j] # disposition[j]
                    => disposition'[j].fence # worker[w].fence]_vars
  BY <1>1, <1>2
<1> QED BY <1>2, Invariance, PTL DEF Spec, NoVerdictAfterFailedHeartbeat
\* A row comes back to life only through a claim, and a claim carries a token
\* above the one of the row it replaces: an expired claim is never renewed.
LEMMA RevivedByClaim ==
  ASSUME IInv, [Next]_vars, NEW j \in Jobs, lease[j].owner # NoWorker,
         lease[j].ttl = 0, lease'[j].ttl > 0
  PROVE  lease'[j].fence > lease[j].fence
<1> USE DEF IInv
<1>1. ASSUME NEW w \in Workers, NEW k \in Jobs, Claim(w, k)
      PROVE  lease'[j].fence > lease[j].fence
  <2>1. k = j
    BY <1>1 DEF Claim, TypeOK
  <2>2. lease'[j].fence = token[j] + 1
    BY <1>1, <2>1 DEF Claim, NextFence, TypeOK
  <2>3. lease[j].fence = token[j] /\ token[j] \in Nat
    BY DEF LeaseIsNewest, TypeOK
  <2> QED BY <2>2, <2>3
<1>2. ASSUME NEW w \in Workers, Heartbeat(w) \/ HeartbeatAnswerLost(w)
      PROVE  FALSE
  <2>1. worker[w].job # j
    BY <1>2 DEF Heartbeat, HeartbeatAnswerLost, FenceHeld
  <2>2. lease'[j] = lease[j]
    BY <1>2, <2>1 DEF Heartbeat, HeartbeatAnswerLost, TypeOK
  <2> QED BY <2>2
<1>3. ASSUME NEW w \in Workers, Release(w) PROVE FALSE
  <2>1. lease'[j] = lease[j] \/ lease'[j] = NoLease
    BY <1>3 DEF Release, TypeOK
  <2> QED BY <2>1 DEF NoLease
<1>4. ASSUME Tick PROVE FALSE
  <2>1. lease'[j].ttl = Elapse(lease[j].ttl)
    BY <1>4 DEF Tick, TypeOK, LeaseRows
  <2> QED BY <2>1 DEF Elapse
<1>5. lease' # lease
  OBVIOUS
<1> QED
  BY <1>1, <1>2, <1>3, <1>4, <1>5
  DEF Next, vars, HeartbeatFailed, StopHeartbeat, CommitDisposition,
      CommitWithoutVerdict, Crash, Supersede

\* A takeover that was possible stays possible: nobody revives an expired
\* claim, not the heartbeat thread whose renewal was on its way either.
THEOREM ExpiredClaimNeverRevived == Spec => ExpiredClaimStaysExpired
<1>1. ASSUME IInv, [Next]_vars
      PROVE  [\A j \in Jobs :
                lease[j].owner # NoWorker /\ lease[j].ttl = 0 /\ lease'[j].ttl > 0
                  => lease'[j].fence > lease[j].fence]_vars
  BY <1>1, RevivedByClaim
<1> QED BY <1>1, Invariance, PTL DEF Spec, ExpiredClaimStaysExpired
-----------------------------------------------------------------------------
\* The detailed delivery keeps the promise of OutboxDelivery: its claims are
\* the tokens, its verdicts the dispositions.
THEOREM ImplementsDelivery == Spec => DeliveryPromise
<1>1. Init => Delivery!Init
  BY DEF Init, Delivery!Init, Undisposed
<1>2. ASSUME IInv, [Next]_vars PROVE [Delivery!Next]_(Delivery!vars)
  <2> USE DEF IInv
  <2>1. ASSUME NEW w \in Workers, NEW j \in Jobs, Claim(w, j)
        PROVE  Delivery!ClaimJob(j)
    BY <2>1
    DEF Claim, NextFence, IsDisposed, Delivery!ClaimJob, Delivery!Pending
  <2>2. ASSUME NEW w \in Workers, NEW verdict \in JobDisposition,
               CommitDisposition(w, verdict)
        PROVE  Delivery!SettleByWorker(worker[w].job)
    <3>1. worker[w].job \in Jobs /\ worker[w].job # NoJob
      BY <1>2, <2>2, BusyWorker, NoJobAssumption DEF CommitDisposition, BusyStates
    <3>2. worker[w].fence = token[worker[w].job]
      BY <1>2, <2>2, FenceIsNewest DEF CommitDisposition
    <3>3. token[worker[w].job] > 0
      BY <1>2, <3>1, <3>2 DEF ClaimsAreGranted, TypeOK
    <3> QED
      BY <2>2, <3>1, <3>2, <3>3
      DEF CommitDisposition, IsDisposed, JobDisposition,
          Delivery!SettleByWorker, Delivery!Pending
  <2>3. ASSUME NEW w \in Workers, NEW verdict \in JobDisposition,
               CommitDisposition(w, verdict)
        PROVE  worker[w].job \in Jobs
    BY <1>2, <2>3, BusyWorker DEF CommitDisposition, BusyStates
  <2>4. ASSUME NEW j \in Jobs, Supersede(j) PROVE Delivery!SettleByController(j)
    BY <2>4
    DEF Supersede, IsDisposed, Delivery!SettleByController, Delivery!Pending
  <2>5. \/ \E w \in Workers, j \in Jobs : Claim(w, j)
        \/ \E w \in Workers, verdict \in JobDisposition :
             CommitDisposition(w, verdict)
        \/ \E j \in Jobs : Supersede(j)
        \/ UNCHANGED <<token, disposition>>
    BY <1>2
    DEF Next, vars, Heartbeat, HeartbeatAnswerLost, HeartbeatFailed,
        StopHeartbeat, CommitWithoutVerdict, Release, Crash, Tick
  <2> QED BY <2>1, <2>2, <2>3, <2>4, <2>5 DEF Delivery!Next, Delivery!vars
<1> QED
  BY <1>1, <1>2, Invariance, PTL DEF Spec, DeliveryPromise, Delivery!Spec
-----------------------------------------------------------------------------
\* The parts of Holding, job by job.
LEMMA HoldingParts ==
  ASSUME NEW j \in Jobs
  PROVE  /\ Holding!Pending(j) <=> ~IsDisposed(j)
         /\ IsDisposed(j) <=> disposition[j].verdict # "none"
BY DEF Holding!Pending, IsDisposed

\* No delivery has a lease before the first claim.
LEMMA HoldingInit == Init => Holding!Init
<1> SUFFICES ASSUME Init PROVE Holding!Init
  OBVIOUS
<1>1. \A j \in Jobs : ~Live(j) /\ disposition[j].verdict = "none"
  BY DEF Init, Live, NoLease, Undisposed
<1>2. \A j \in Jobs, w \in Workers : ~HoldsLease(w, j)
  BY NoJobAssumption DEF Init, HoldsLease, Idle
<1>3. [j \in Jobs |-> Live(j)] = [j \in Jobs |-> FALSE]
  BY <1>1 DEF Live
<1>4. [j \in Jobs |-> {w \in Workers : HoldsLease(w, j)}] = [j \in Jobs |-> {}]
  BY <1>2
<1>5. [j \in Jobs |-> disposition[j].verdict] = [j \in Jobs |-> "none"]
  BY <1>1
<1> QED BY <1>3, <1>4, <1>5 DEF Holding!Init

\* A step that grants no lease and gives no verdict can only lose leases.
LEMMA Losing ==
  ASSUME UNCHANGED disposition,
         \A j \in Jobs : Live(j)' => Live(j),
         \A w \in Workers, j \in Jobs : HoldsLease(w, j)' => HoldsLease(w, j),
         TypeOK'
  PROVE  Holding!Lose
<1>1. ASSUME NEW w \in Workers, NEW j \in Jobs, HoldsLease(w, j)'
      PROVE  Live(j)'
  BY <1>1, NoWorkerAssumption DEF HoldsLease, Live
<1>2. [j \in Jobs |-> Live(j)]' \in [Jobs -> BOOLEAN]
  BY DEF Live
<1>3. \A j \in Jobs : /\ [k \in Jobs |-> Live(k)]'[j] <=> Live(j)'
                     /\ [k \in Jobs |-> Live(k)][j] <=> Live(j)
  BY DEF Live
<1>4. \A j \in Jobs :
        /\ [k \in Jobs |-> {v \in Workers : HoldsLease(v, k)}]'[j]
             = {v \in Workers : HoldsLease(v, j)'}
        /\ [k \in Jobs |-> {v \in Workers : HoldsLease(v, k)}][j]
             = {v \in Workers : HoldsLease(v, j)}
  BY DEF HoldsLease
<1>5. [k \in Jobs |-> {v \in Workers : HoldsLease(v, k)}]'
        \in [Jobs -> SUBSET Workers]
  BY DEF HoldsLease
<1>6. UNCHANGED [j \in Jobs |-> disposition[j].verdict]
  OBVIOUS
<1> QED BY <1>1, <1>2, <1>3, <1>4, <1>5, <1>6 DEF Holding!Lose

\* A step that moves no lease leaves the leases and the holders as they are.
LEMMA LeasesKept ==
  ASSUME \A j \in Jobs : Live(j)' <=> Live(j),
         \A w \in Workers, j \in Jobs : HoldsLease(w, j)' <=> HoldsLease(w, j)
  PROVE  /\ UNCHANGED [j \in Jobs |-> Live(j)]
         /\ UNCHANGED [j \in Jobs |-> {w \in Workers : HoldsLease(w, j)}]
<1>1. UNCHANGED [j \in Jobs |-> Live(j)]
  BY DEF Live
<1>2. UNCHANGED [j \in Jobs |-> {w \in Workers : HoldsLease(w, j)}]
  BY DEF HoldsLease
<1> QED BY <1>1, <1>2

\* Whoever is about to commit and is let through holds the lease.
LEMMA FencedHolds ==
  ASSUME NEW w \in Workers, FenceHeld(w)
  PROVE  HoldsLease(w, worker[w].job)
BY DEF FenceHeld, HoldsRow, HoldsLease

\* A claim grants the lease of one job to one delivery.
LEMMA ClaimTakes ==
  ASSUME IInv, NEW w \in Workers, NEW j \in Jobs, Claim(w, j)
  PROVE  Holding!Take(w, j)
<1>1. /\ worker[w] = Idle /\ ~Live(j) /\ ~IsDisposed(j) /\ UNCHANGED disposition
      /\ lease' = [lease EXCEPT ![j] = [owner |-> w, fence |-> NextFence(j),
                                        beat |-> 0, ttl |-> LeaseTicks]]
      /\ worker' = [worker EXCEPT ![w] = [at |-> "calling", job |-> j,
                                          fence |-> NextFence(j), beat |-> 0,
                                          failed |-> FALSE]]
  BY DEF Claim, IInv, TypeOK, WorkerStates, BusyStates
<1>2. /\ lease'[j] = [owner |-> w, fence |-> NextFence(j), beat |-> 0,
                      ttl |-> LeaseTicks]
      /\ \A k \in Jobs \ {j} : lease'[k] = lease[k]
      /\ worker'[w].job = j /\ worker'[w].fence = NextFence(j)
      /\ \A v \in Workers \ {w} : worker'[v] = worker[v]
  BY <1>1 DEF IInv, TypeOK
<1>3. \A k \in Jobs : Live(k)' <=> (k = j \/ Live(k))
  BY <1>2, NoWorkerAssumption, LeaseTicksAssumption DEF Live
<1>4. \A v \in Workers : HoldsLease(v, j)' <=> v = w
  BY <1>2, LeaseTicksAssumption DEF HoldsLease
<1>5. \A v \in Workers, k \in Jobs \ {j} : HoldsLease(v, k)' <=> HoldsLease(v, k)
  BY <1>1, <1>2, NoJobAssumption DEF HoldsLease, Idle
<1>6. [k \in Jobs |-> Live(k)]' = [[k \in Jobs |-> Live(k)] EXCEPT ![j] = TRUE]
  BY <1>3 DEF Live
<1>7. [k \in Jobs |-> {v \in Workers : HoldsLease(v, k)}]'
        = [[k \in Jobs |-> {v \in Workers : HoldsLease(v, k)}] EXCEPT ![j] = {w}]
  BY <1>4, <1>5
<1> QED BY <1>1, <1>6, <1>7, HoldingParts DEF Holding!Take

\* The rows, tokens, clocks and heartbeats of a lease amount to a holder: at
\* most one delivery has the lease of a job, it never gets back what it lost,
\* and the verdict of a worker is given by the holder (assert_job_lease,
\* heartbeat_job_lease).  ModelJob rests on this.
THEOREM LeasesAreHeld == Spec => HoldingPromise
<1>1. ASSUME IInv, [Next]_vars PROVE [Holding!Next]_(Holding!vars)
  <2> USE DEF IInv
  <2>1. TypeOK'
    BY <1>1, TypeStep
  <2>2. ASSUME NEW w \in Workers, NEW j \in Jobs, Claim(w, j)
        PROVE  Holding!Take(w, j)
    BY <1>1, <2>2, ClaimTakes
  <2>3. ASSUME NEW w \in Workers, NEW verdict \in JobDisposition,
               CommitDisposition(w, verdict)
        PROVE  \E j \in Jobs : Holding!SettleByHolder(w, j)
    <3>0. worker[w].job \in Jobs
      BY <1>1, <2>3, BusyWorker DEF CommitDisposition, BusyStates
    <3>1. PICK j \in Jobs : j = worker[w].job
      BY <3>0
    <3>2. HoldsLease(w, j) /\ ~IsDisposed(j)
      BY <2>3, <3>1, FencedHolds DEF CommitDisposition
    <3>3. disposition' = [disposition EXCEPT ![j] =
                            [verdict |-> verdict, fence |-> worker[w].fence]]
      BY <2>3, <3>1 DEF CommitDisposition
    <3>4. [k \in Jobs |-> disposition[k].verdict]'
            = [[k \in Jobs |-> disposition[k].verdict] EXCEPT ![j] = verdict]
      BY <1>1, <3>1, <3>3 DEF TypeOK
    <3>5. \A v \in Workers, k \in Jobs : HoldsLease(v, k)' <=> HoldsLease(v, k)
      BY <1>1, <2>3 DEF CommitDisposition, MoveTo, HoldsLease, TypeOK,
         WorkerStates, BusyStates, Idle
    <3>6. \A k \in Jobs : Live(k)' <=> Live(k)
      BY <2>3 DEF CommitDisposition, Live
    <3>7. w \in [k \in Jobs |-> {v \in Workers : HoldsLease(v, k)}][j]
      BY <3>1, <3>2
    <3>8. Holding!SettleByHolder(w, j)
      BY <3>1, <3>2, <3>4, <3>5, <3>6, <3>7, LeasesKept, HoldingParts
      DEF Holding!SettleByHolder, JobDisposition
    <3> QED BY <3>1, <3>8
  <2>4. ASSUME NEW j \in Jobs, Supersede(j)
        PROVE  Holding!SettleByController(j)
    <3>1. [k \in Jobs |-> disposition[k].verdict]'
            = [[k \in Jobs |-> disposition[k].verdict] EXCEPT ![j] = "SUPERSEDED"]
      BY <1>1, <2>4 DEF Supersede, TypeOK
    <3>2. /\ \A v \in Workers, k \in Jobs : HoldsLease(v, k)' <=> HoldsLease(v, k)
          /\ \A k \in Jobs : Live(k)' <=> Live(k)
      BY <2>4 DEF Supersede, HoldsLease, Live
    <3> QED BY <2>4, <3>1, <3>2, LeasesKept, HoldingParts
            DEF Supersede, Holding!SettleByController
  <2>5. UNCHANGED vars => Holding!Lose
    BY <2>1, Losing DEF vars, Live, HoldsLease
  <2>6. ASSUME NEW w \in Workers,
               \/ HeartbeatFailed(w) \/ StopHeartbeat(w) \/ CommitWithoutVerdict(w)
        PROVE  Holding!Lose
    <3>1. UNCHANGED <<lease, disposition>>
      BY <2>6 DEF HeartbeatFailed, StopHeartbeat, CommitWithoutVerdict
    <3>2. \A v \in Workers : /\ worker'[v].job = worker[v].job
                             /\ worker'[v].fence = worker[v].fence
      BY <1>1, <2>6 DEF HeartbeatFailed, StopHeartbeat, CommitWithoutVerdict,
         MoveTo, TypeOK, WorkerStates, BusyStates, Idle
    <3> QED BY <2>1, <3>1, <3>2, Losing DEF Live, HoldsLease
  <2>7. ASSUME NEW w \in Workers, Crash(w)
        PROVE  Holding!Lose
    BY <1>1, <2>1, <2>7, Losing, NoJobAssumption DEF Crash, Live, HoldsLease, Idle, TypeOK
  <2>8. ASSUME NEW w \in Workers, Heartbeat(w) \/ HeartbeatAnswerLost(w)
        PROVE  Holding!Lose
    <3>1. worker[w].job \in Jobs
      BY <1>1, <2>8, BusyWorker DEF Heartbeat, HeartbeatAnswerLost, BusyStates
    <3>2. \A v \in Workers : /\ worker'[v].job = worker[v].job
                             /\ worker'[v].fence = worker[v].fence
      BY <1>1, <2>8 DEF Heartbeat, HeartbeatAnswerLost, TypeOK, WorkerStates,
         BusyStates, Idle
    <3>3. /\ \A k \in Jobs : /\ lease'[k].owner = lease[k].owner
                             /\ lease'[k].fence = lease[k].fence
          /\ \A k \in Jobs \ {worker[w].job} : lease'[k] = lease[k]
          /\ lease[worker[w].job].ttl > 0
      <4> DEFINE j == worker[w].job
      <4>1. lease' = [lease EXCEPT ![j].beat = 1 - @, ![j].ttl = LeaseTicks]
        BY <2>8 DEF Heartbeat, HeartbeatAnswerLost
      <4>2. lease[j].ttl > 0
        BY <2>8 DEF Heartbeat, HeartbeatAnswerLost, FenceHeld
      <4>3. lease \in [Jobs -> LeaseRows]
        BY <1>1 DEF TypeOK
      <4> QED BY <3>1, <4>1, <4>2, <4>3 DEF LeaseRows
    <3>4. UNCHANGED disposition
      BY <2>8 DEF Heartbeat, HeartbeatAnswerLost
    <3> QED BY <2>1, <3>2, <3>3, <3>4, Losing DEF Live, HoldsLease
  <2>9. ASSUME NEW w \in Workers, Release(w)
        PROVE  Holding!Lose
    <3>1. worker[w].job \in Jobs
      BY <1>1, <2>9, BusyWorker DEF Release, BusyStates
    <3>2. /\ worker'[w].job = NoJob
          /\ \A v \in Workers \ {w} : worker'[v] = worker[v]
      BY <1>1, <2>9 DEF Release, TypeOK, Idle
    <3>3. \A k \in Jobs : lease'[k] = lease[k] \/ lease'[k] = NoLease
      BY <1>1, <2>9, <3>1 DEF Release, TypeOK
    <3>4. UNCHANGED disposition
      BY <2>9 DEF Release
    <3> QED BY <2>1, <3>2, <3>3, <3>4, Losing, NoJobAssumption
            DEF Live, HoldsLease, NoLease
  <2>10. ASSUME Tick
         PROVE  Holding!Lose
    <3>1. /\ UNCHANGED <<disposition, worker>>
          /\ \A k \in Jobs : /\ lease'[k].owner = lease[k].owner
                             /\ lease'[k].fence = lease[k].fence
                             /\ lease'[k].ttl > 0 => lease[k].ttl > 0
      BY <1>1, <2>10 DEF Tick, Elapse, TypeOK, LeaseRows
    <3> QED BY <2>1, <3>1, Losing DEF Live, HoldsLease
  <2>11. \/ \E w \in Workers, j \in Jobs : Claim(w, j)
         \/ \E w \in Workers, verdict \in JobDisposition :
              CommitDisposition(w, verdict)
         \/ \E j \in Jobs : Supersede(j)
         \/ Holding!Lose
    BY <1>1, <2>5, <2>6, <2>7, <2>8, <2>9, <2>10 DEF Next
  <2> HIDE DEF IInv
  <2>12. CASE \E w \in Workers, j \in Jobs : Claim(w, j)
    <3>1. PICK w \in Workers, j \in Jobs : Claim(w, j)
      BY <2>12
    <3> QED BY <3>1, <2>2 DEF Holding!Next
  <2>13. CASE \E w \in Workers, verdict \in JobDisposition :
                CommitDisposition(w, verdict)
    <3>1. PICK w \in Workers, verdict \in JobDisposition :
            CommitDisposition(w, verdict)
      BY <2>13
    <3> QED BY <3>1, <2>3 DEF Holding!Next
  <2>14. CASE \E j \in Jobs : Supersede(j)
    BY <2>14, <2>4 DEF Holding!Next
  <2>15. CASE Holding!Lose
    BY <2>15 DEF Holding!Next
  <2> QED BY <2>11, <2>12, <2>13, <2>14, <2>15
<1> QED
  BY <1>1, HoldingInit, Invariance, PTL DEF Spec, HoldingPromise, Holding!Spec
=============================================================================
