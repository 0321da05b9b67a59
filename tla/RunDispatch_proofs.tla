------------------------- MODULE RunDispatch_proofs -------------------------
(***************************************************************************)
(* Machine-checked facts about RunDispatch, for any number of processes,   *)
(* runs, answers and faults of every kind.                                 *)
(***************************************************************************)
EXTENDS RunDispatch, TLAPS

\* A process only ever claims what was leased before: its claim is not newer
\* than the dispatch of the run.
ClaimsAreOld ==
  \A w \in Workers :
    LET c == worker[w].claim
    IN c # NoClaim =>
         /\ status[c.run] # "none"
         /\ c.id <= dispatch[c.run].id
         /\ c.id = dispatch[c.run].id => c.epoch <= dispatch[c.run].epoch

\* No claim is held twice.
ClaimsDiffer ==
  \A v, w \in Workers :
    v # w /\ worker[v].claim = worker[w].claim => worker[v].claim = NoClaim

\* A process at work has a claim.
Seated ==
  \A w \in Workers :
    worker[w].at \in Active \cup {"raised"} => worker[w].claim # NoClaim

IInv ==
  /\ TypeOK
  /\ Seated
  /\ DispatchMatchesRun
  /\ ClaimsAreOld
  /\ ClaimsDiffer
-----------------------------------------------------------------------------
LEMMA Constants ==
  /\ 1 \in Runs
  /\ \A r \in Runs : r \in Nat /\ r # 0
  /\ Nobody \notin Workers
  /\ \A w \in Workers : w \in Children <=> w \notin Recoverers
  /\ NoClaim \notin Claims
  /\ MaxAnswers \in Nat /\ MaxFaults \in Nat
BY RunDispatchAssumption DEF Runs, Workers, NoClaim, Claims

\* The claim of a process that is not at rest is about a run.
LEMMA ClaimOfRun ==
  ASSUME TypeOK, NEW w \in Workers, worker[w].claim # NoClaim
  PROVE  worker[w].claim \in Claims /\ worker[w].claim.run \in Runs
BY DEF TypeOK, Processes, Claims

LEMMA NewDispatchType ==
  ASSUME NEW kind \in Kinds, NEW id \in Nat, NEW resumes \in BOOLEAN
  PROVE  NewDispatch(kind, id, resumes) \in Dispatches
BY DEF NewDispatch, Dispatches

LEMMA EndedType ==
  ASSUME NEW d \in Dispatches,
         NEW end \in {"none", "waiting_for_clarification"} \cup Final
  PROVE  /\ Ended(d, end) \in Dispatches
         /\ Ended(d, end).beat = Nobody
BY DEF Ended, Dispatches

LEMMA ReleasedType ==
  ASSUME NEW d \in Dispatches
  PROVE  /\ Released(d) \in Dispatches
         /\ Released(d).beat = Nobody
BY DEF Released, Dispatches

LEMMA ExpiredType ==
  ASSUME NEW d \in Dispatches
  PROVE  /\ Expired(d) \in Dispatches
         /\ Expired(d).beat = Nobody
BY DEF Expired, Dispatches

LEMMA RunningType ==
  ASSUME NEW d \in Dispatches, NEW w \in Workers
  PROVE  /\ [d EXCEPT !.state = "running", !.beat = w] \in Dispatches
         /\ [d EXCEPT !.state = "running", !.beat = w].state = "running"
         /\ [d EXCEPT !.state = "running", !.beat = w].live = d.live
BY DEF Dispatches

LEMMA QuietType ==
  ASSUME NEW d \in Dispatches, NEW w
  PROVE  LET q == [d EXCEPT !.beat = IF @ = w THEN Nobody ELSE @]
         IN  /\ q \in Dispatches /\ q.state = d.state /\ q.live = d.live
             /\ q.beat # Nobody => d.beat # Nobody
BY DEF Dispatches

-----------------------------------------------------------------------------
(* The parts of an action keep the types.                                  *)

BeatOK ==
  \A r \in Runs : dispatch[r].beat # Nobody =>
    dispatch[r].state = "running" /\ dispatch[r].live

DispatchOK == dispatch \in [Runs -> Dispatches] /\ BeatOK

LEMMA MoveType ==
  ASSUME TypeOK, NEW w \in Workers,
         NEW at \in Active \cup {"idle", "raised", "exited", "gone"},
         Move(w, at)
  PROVE  worker' \in [Workers -> Processes]
BY DEF TypeOK, Move, Processes

LEMMA LeaveType ==
  ASSUME TypeOK, NEW w \in Workers, Leave(w)
  PROVE  worker' \in [Workers -> Processes]
BY DEF TypeOK, Leave, Processes, Resting

LEMMA StatusType ==
  ASSUME TypeOK, NEW r \in Runs, NEW s \in RunStatuses, SetStatus(r, s)
  PROVE  status' \in [Runs -> RunStatuses]
BY DEF TypeOK, SetStatus

LEMMA StageType ==
  ASSUME TypeOK, NEW r \in Runs, NEW s \in Stages, SetStage(r, s)
  PROVE  life' \in [Runs -> LifeRows]
BY DEF TypeOK, SetStage, LifeRows

LEMMA RetryType ==
  ASSUME TypeOK, NEW r \in Runs, NEW s \in RetryStates, SetRetry(r, s)
  PROVE  life' \in [Runs -> LifeRows]
BY DEF TypeOK, SetRetry, LifeRows

LEMMA EndType ==
  ASSUME TypeOK, NEW r \in Runs,
         NEW end \in {"none", "waiting_for_clarification"} \cup Final,
         End(r, end)
  PROVE  DispatchOK'
BY EndedType DEF TypeOK, End, DispatchOK, BeatOK

LEMMA ReleaseType ==
  ASSUME TypeOK, NEW r \in Runs, Release(r)
  PROVE  DispatchOK'
BY ReleasedType DEF TypeOK, Release, DispatchOK, BeatOK

LEMMA LapseType ==
  ASSUME TypeOK, NEW r \in Runs, Lapse(r)
  PROVE  DispatchOK'
BY ExpiredType DEF TypeOK, Lapse, DispatchOK, BeatOK

LEMMA SilenceType ==
  ASSUME TypeOK, NEW w \in Workers, Silence(w)
  PROVE  DispatchOK'
<1>1. dispatch \in [Runs -> Dispatches] /\ BeatOK
  BY DEF TypeOK, BeatOK
<1> DEFINE q(r) == [dispatch[r] EXCEPT !.beat = IF @ = w THEN Nobody ELSE @]
<1>2. dispatch' = [r \in Runs |-> q(r)]
  BY DEF Silence
<1>3. \A r \in Runs : /\ q(r) \in Dispatches
                      /\ q(r).state = dispatch[r].state
                      /\ q(r).live = dispatch[r].live
                      /\ q(r).beat # Nobody => dispatch[r].beat # Nobody
  BY <1>1, QuietType
<1> HIDE DEF q
<1> QED BY <1>1, <1>2, <1>3 DEF DispatchOK, BeatOK

LEMMA KeptDispatch ==
  ASSUME TypeOK, UNCHANGED dispatch
  PROVE  DispatchOK'
BY DEF TypeOK, DispatchOK, BeatOK

LEMMA FaultType ==
  ASSUME TypeOK, NEW kind, Fault(kind)
  PROVE  faults' \in 0..MaxFaults
BY Constants DEF TypeOK, Fault

LEMMA ObservedType ==
  ASSUME TypeOK, NEW c \in Claims \cup {NoClaim}, Observed(c)
  PROVE  DispatchOK'
<1>1. CASE UNCHANGED dispatch
  BY <1>1, KeptDispatch
<1>2. CASE c # NoClaim /\ Release(c.run)
  BY <1>2, ReleaseType DEF Claims
<1>3. CASE c # NoClaim /\ Lapse(c.run)
  BY <1>3, LapseType DEF Claims
<1> QED BY <1>1, <1>2, <1>3 DEF Observed, Same

LEMMA SeatedKept ==
  ASSUME Seated, NEW w \in Workers, NEW at, Move(w, at),
         worker \in [Workers -> Processes],
         worker[w].at \in Active \cup {"raised"} \/ at \in {"gone", "exited"}
  PROVE  Seated'
BY DEF Seated, Move, Processes, Active

LEMMA SeatedLeft ==
  ASSUME Seated, NEW w \in Workers, Leave(w), worker \in [Workers -> Processes]
  PROVE  Seated'
BY DEF Seated, Leave, Processes, Active, Resting

\* The process of an action and the run of its claim.
LEMMA Sits ==
  ASSUME TypeOK, Seated, NEW w \in Workers,
         worker[w].at \in Active \cup {"raised"}
  PROVE  worker[w].claim \in Claims /\ worker[w].claim.run \in Runs
BY ClaimOfRun DEF Seated

LEMMA OwnedEndType ==
  ASSUME TypeOK, NEW w \in Workers, NEW from,
         NEW end \in {"waiting_for_clarification"} \cup Final,
         OwnedEnd(w, from, end)
  PROVE  /\ status' \in [Runs -> RunStatuses]
         /\ DispatchOK'
         /\ answers' \in 0..MaxAnswers /\ faults' \in 0..MaxFaults
<1>1. worker[w].claim.run \in Runs
  BY ClaimOfRun DEF OwnedEnd, Owns, Same
<1>2. status' \in [Runs -> RunStatuses]
  BY <1>1, StatusType DEF OwnedEnd, RunStatuses
<1>3. DispatchOK'
  BY <1>1, EndType DEF OwnedEnd
<1> QED BY <1>2, <1>3 DEF OwnedEnd, TypeOK

-----------------------------------------------------------------------------
\* The types are kept by every step of a process.
LEMMA WorkType ==
  ASSUME TypeOK, Seated, NEW w \in Workers, Work(w)
  PROVE  TypeOK' /\ Seated'
<1> DEFINE r == worker[w].claim.run
<1> USE DEF Active
<1>0. /\ worker \in [Workers -> Processes]
      /\ status \in [Runs -> RunStatuses] /\ life \in [Runs -> LifeRows]
      /\ answers \in 0..MaxAnswers /\ faults \in 0..MaxFaults
  BY DEF TypeOK
<1> HIDE DEF Active
<1>q. ASSUME status' \in [Runs -> RunStatuses], life' \in [Runs -> LifeRows],
             DispatchOK', worker' \in [Workers -> Processes],
             answers' \in 0..MaxAnswers, faults' \in 0..MaxFaults
      PROVE  TypeOK'
  BY <1>q DEF TypeOK, DispatchOK, BeatOK
<1>m. ASSUME NEW at \in Active \cup {"raised", "exited"}, Move(w, at),
             worker[w].at \in Active \cup {"raised"}
      PROVE  worker' \in [Workers -> Processes] /\ Seated'
  BY <1>0, <1>m, MoveType, SeatedKept
<1>l. ASSUME Leave(w)
      PROVE  worker' \in [Workers -> Processes] /\ Seated'
  BY <1>0, <1>l, LeaveType, SeatedLeft
<1>r. ASSUME worker[w].at \in Active \cup {"raised"}
      PROVE  r \in Runs
  BY <1>r, Sits
<1>1. CASE Claim(w)
  <2>1. r \in Runs /\ worker[w].at \in Active
    BY <1>1, <1>r DEF Claim, Active
  <2>2. DispatchOK'
    <3> DEFINE d == [dispatch[r] EXCEPT !.state = "running", !.beat = w]
    <3>1. /\ dispatch \in [Runs -> Dispatches] /\ BeatOK
          /\ dispatch[r].live
          /\ dispatch' = [dispatch EXCEPT ![r] = d]
      BY <1>1, <2>1 DEF Claim, TypeOK, BeatOK
    <3>2. d \in Dispatches /\ d.state = "running" /\ d.live
      BY <2>1, <3>1, RunningType
    <3> HIDE DEF d
    <3> QED BY <2>1, <3>1, <3>2 DEF DispatchOK, BeatOK
  <2>3. CASE dispatch[r].kind = "thread_message"
    <3>1. SetStatus(r, "running") /\ SetStage(r, "running") /\ Move(w, "conversing")
      BY <1>1, <2>3 DEF Claim
    <3>2. worker' \in [Workers -> Processes] /\ Seated'
      BY <3>1, <2>1, <1>m DEF Active
    <3>3. status' \in [Runs -> RunStatuses] /\ life' \in [Runs -> LifeRows]
      BY <3>1, <2>1, StatusType, StageType DEF RunStatuses, InWork, Stages
    <3> QED BY <3>2, <3>3, <2>2, <1>0, <1>1, <1>q DEF Claim
  <2>4. CASE dispatch[r].kind = "clarification_resolution"
    <3>1. /\ life' \in [Runs -> LifeRows]
          /\ Move(w, "deciding") /\ UNCHANGED status
      BY <1>0, <1>1, <2>1, <2>4, RetryType DEF Claim, RetryStates
    <3>2. worker' \in [Workers -> Processes] /\ Seated'
      BY <3>1, <2>1, <1>m DEF Active
    <3> QED BY <3>1, <3>2, <2>2, <1>0, <1>1, <1>q DEF Claim
  <2> QED BY <1>1, <2>3, <2>4 DEF Claim
<1>2. CASE InteractionDone(w)
  BY <1>2, <1>0, <1>l, <1>q, OwnedEndType DEF InteractionDone, Final
<1>3. CASE EntryFails(w)
  <2>1. worker' \in [Workers -> Processes] /\ Seated'
    BY <1>3, <1>m DEF EntryFails, Active
  <2> QED BY <1>3, <2>1, <1>0, <1>q, OwnedEndType DEF EntryFails, Final
<1>4. CASE StartWorkflow(w) \/ Resume(w)
  <2>1. /\ r \in Runs /\ worker[w].at \in Active
        /\ SetStatus(r, "running_workflow") /\ Move(w, "working")
        /\ UNCHANGED <<life, dispatch, answers, faults>>
    BY <1>4, <1>r DEF StartWorkflow, Resume, OwnedStart, Active
  <2>2. worker' \in [Workers -> Processes] /\ Seated'
    BY <2>1, <1>m DEF Active
  <2>3. status' \in [Runs -> RunStatuses]
    BY <2>1, StatusType DEF RunStatuses, InWork
  <2> QED BY <2>1, <2>2, <2>3, <1>0, <1>q, KeptDispatch
<1>5. CASE RecordDecision(w) \/ Activate(w) \/ ReplayDecision(w) \/ Ask(w)
  <2>1. r \in Runs /\ worker[w].at \in Active
    BY <1>5, <1>r DEF RecordDecision, Activate, ReplayDecision, Ask, Active
  <2>2. worker' \in [Workers -> Processes] /\ Seated'
    BY <1>5, <2>1, <1>m DEF RecordDecision, Activate, ReplayDecision, Ask, Active
  <2>3. life' \in [Runs -> LifeRows]
    <3>1. CASE RecordDecision(w)
      BY <3>1, <1>0, <2>1 DEF RecordDecision, LifeRows
    <3>2. CASE Activate(w)
      BY <3>2, <1>0, <2>1, StageType DEF Activate, Stages
    <3>3. CASE ReplayDecision(w)
      BY <3>3, <1>0 DEF ReplayDecision
    <3>4. CASE Ask(w)
      BY <3>4, <1>0, <2>1 DEF Ask, LifeRows, Stages
    <3> QED BY <1>5, <3>1, <3>2, <3>3, <3>4
  <2> QED BY <1>5, <2>2, <2>3, <1>0, <1>q, KeptDispatch
          DEF RecordDecision, Activate, ReplayDecision, Ask
<1>6. CASE Cancel(w)
  <2>1. r \in Runs
    BY <1>6, <1>r DEF Cancel, Directive, Active
  <2>2. life' \in [Runs -> LifeRows]
    BY <1>6, <2>1, StageType DEF Cancel, Stages
  <2> QED BY <1>6, <2>2, <1>0, <1>l, <1>q, OwnedEndType DEF Cancel, Final
<1>7. CASE Challenge(w)
  <2>1. r \in Runs
    BY <1>7, <1>r DEF Challenge, Directive, Active
  <2>2. DispatchOK'
    BY <1>7, <2>1, EndType DEF Challenge
  <2> QED BY <1>7, <2>2, <1>0, <1>l, <1>q DEF Challenge
<1>8. CASE Revise(w)
  <2>1. r \in Runs /\ r + 1 \in Runs
    BY <1>8, <1>r DEF Revise, Directive, Active
  <2>2. status' \in [Runs -> RunStatuses] /\ life' \in [Runs -> LifeRows]
    BY <1>8, <2>1, <1>0, StageType DEF Revise, RunStatuses, Final, Stages
  <2>3. [NewDispatch("thread_message", 1, FALSE) EXCEPT
            !.state = "leased", !.epoch = 1, !.live = TRUE] \in Dispatches
    BY DEF NewDispatch, Dispatches, Kinds
  <2>4. DispatchOK'
    BY <1>8, <2>1, <2>3, EndedType
       DEF Revise, TypeOK, DispatchOK, BeatOK, NewDispatch, Final
  <2>5. [run |-> r + 1, id |-> 1, epoch |-> 1] \in Claims \ {NoClaim}
    BY <2>1, Constants DEF Claims
  <2>6. worker' \in [Workers -> Processes] /\ Seated'
    BY <1>8, <2>5, <1>0 DEF Revise, Processes, Seated, Active
  <2> QED BY <1>8, <2>2, <2>4, <2>6, <1>0, <1>q DEF Revise
<1>9. CASE Settle(w) \/ Seal(w) \/ Publish(w) \/ PostSealFail(w)
  <2>1. r \in Runs
    BY <1>9, <1>r DEF Settle, Seal, Stage, Publish, PostSealFail, Active
  <2>2. life' \in [Runs -> LifeRows]
    <3>1. CASE Settle(w) \/ Seal(w)
      BY <3>1, <2>1, StageType DEF Settle, Seal, Stage, Stages
    <3>2. CASE Publish(w)
      BY <3>2, <1>0, <2>1 DEF Publish, LifeRows, Stages, RetryStates
    <3>3. CASE PostSealFail(w)
      BY <3>3, <2>1, RetryType DEF PostSealFail, RetryStates
    <3> QED BY <1>9, <3>1, <3>2, <3>3
  <2>3. Seated'
    BY <1>9 DEF Settle, Seal, Stage, Publish, PostSealFail, Seated
  <2> QED BY <1>9, <2>2, <2>3, <1>0, <1>q, KeptDispatch
          DEF Settle, Seal, Stage, Publish, PostSealFail
<1>10. CASE Complete(w) \/ Fail(w) \/ FinalizeWaiting(w)
  BY <1>10, <1>0, <1>l, <1>q, OwnedEndType
     DEF Complete, Fail, FinalizeWaiting, Final
<1>11. CASE Raise(w) \/ ChildEnds(w)
  <2>1. worker' \in [Workers -> Processes] /\ Seated'
    BY <1>11, <1>m DEF Raise, ChildEnds
  <2> QED BY <1>11, <2>1, <1>0, <1>q, SilenceType, KeptDispatch DEF Raise, ChildEnds
<1>12. CASE FailOwned(w)
  <2>1. /\ Leave(w)
        /\ UNCHANGED <<life, answers, faults>>
        /\ \/ UNCHANGED <<status, dispatch>>
           \/ /\ Same(worker[w].lease)
              /\ End(worker[w].lease.run, "failed")
              /\ UNCHANGED status \/ SetStatus(worker[w].lease.run, "failed")
    BY <1>12 DEF FailOwned
  <2>2. Same(worker[w].lease) => worker[w].lease.run \in Runs
    BY <1>0 DEF Same, Processes, Claims
  <2>3. DispatchOK' /\ status' \in [Runs -> RunStatuses]
    BY <2>1, <2>2, <1>0, EndType, StatusType, KeptDispatch DEF Final, RunStatuses
  <2> QED BY <2>1, <2>3, <1>0, <1>l, <1>q
<1> QED
  BY <1>1, <1>2, <1>3, <1>4, <1>5, <1>6, <1>7, <1>8, <1>9, <1>10, <1>11, <1>12
     DEF Work

LEMMA GatewayType ==
  ASSUME TypeOK, Seated, NEW w \in Workers,
         ObserveExit(w) \/ StartupTimeout(w) \/ GatewayLost(w)
  PROVE  TypeOK' /\ Seated'
<1>0. /\ worker \in [Workers -> Processes]
      /\ status \in [Runs -> RunStatuses] /\ life \in [Runs -> LifeRows]
      /\ answers \in 0..MaxAnswers /\ faults \in 0..MaxFaults
      /\ worker[w].lease \in Claims \cup {NoClaim}
  BY DEF TypeOK, Processes
<1>1. worker' \in [Workers -> Processes] /\ Seated'
  <2>1. CASE Move(w, "gone")
    BY <2>1, <1>0, MoveType, SeatedKept
  <2>2. CASE UNCHANGED worker
    BY <2>2, <1>0 DEF Seated
  <2> QED BY <2>1, <2>2 DEF ObserveExit, StartupTimeout, GatewayLost
<1>2. DispatchOK'
  BY <1>0, ObservedType, KeptDispatch DEF ObserveExit, StartupTimeout, GatewayLost
<1>3. faults' \in 0..MaxFaults
  BY <1>0, FaultType DEF ObserveExit, StartupTimeout, GatewayLost
<1> QED
  BY <1>0, <1>1, <1>2, <1>3
     DEF ObserveExit, StartupTimeout, GatewayLost, TypeOK, DispatchOK, BeatOK

LEMMA RunType ==
  ASSUME TypeOK, Seated, NEW r \in Runs,
         Answer(r) \/ LeaseExpires(r) \/ StartsTooLate(r) \/ HeartbeatFails(r)
  PROVE  TypeOK' /\ Seated'
<1>1. worker' = worker /\ status' = status /\ life' = life
  BY DEF Answer, LeaseExpires, StartsTooLate, HeartbeatFails
<1>2. answers' \in 0..MaxAnswers
  BY Constants DEF Answer, LeaseExpires, StartsTooLate, HeartbeatFails, TypeOK
<1>3. faults' \in 0..MaxFaults
  BY FaultType DEF Answer, LeaseExpires, StartsTooLate, HeartbeatFails, TypeOK
<1>4. DispatchOK'
  <2>1. CASE Answer(r)
    <3> DEFINE d == NewDispatch("clarification_resolution", dispatch[r].id + 1,
                                life[r].stage \in {"asked", "decided"})
    <3>1. dispatch[r].id + 1 \in Nat
      BY DEF TypeOK, Dispatches
    <3>2. d \in Dispatches /\ d.beat = Nobody
      BY <3>1 DEF NewDispatch, Dispatches, Kinds
    <3>3. dispatch' = [dispatch EXCEPT ![r] = d]
      BY <2>1 DEF Answer
    <3> HIDE DEF d
    <3> QED BY <3>2, <3>3 DEF TypeOK, DispatchOK, BeatOK
  <2>2. CASE LeaseExpires(r) \/ StartsTooLate(r)
    BY <2>2, LapseType DEF LeaseExpires, StartsTooLate
  <2>3. CASE HeartbeatFails(r)
    BY <2>3 DEF HeartbeatFails, TypeOK, DispatchOK, BeatOK, Dispatches
  <2> QED BY <2>1, <2>2, <2>3
<1> QED BY <1>1, <1>2, <1>3, <1>4 DEF TypeOK, DispatchOK, BeatOK, Seated

LEMMA CrashType ==
  ASSUME TypeOK, Seated, NEW w \in Workers, Crash(w)
  PROVE  TypeOK' /\ Seated'
<1>1. worker' \in [Workers -> Processes] /\ Seated'
  BY LeaveType, SeatedLeft DEF Crash, TypeOK
<1> QED BY <1>1, SilenceType, FaultType DEF Crash, TypeOK, DispatchOK, BeatOK

LEMMA LeaseType ==
  ASSUME TypeOK, Seated, NEW w \in Workers, NEW r \in Runs, Lease(w, r)
  PROVE  TypeOK' /\ Seated'
<1> DEFINE c == [run |-> r, id |-> dispatch[r].id, epoch |-> LeaseEpoch(r)]
<1>1. c \in Claims /\ LeaseEpoch(r) \in Nat
  BY DEF TypeOK, Dispatches, Claims, LeaseEpoch
<1>2. worker' = [worker EXCEPT ![w] = [at |-> "starting", lease |-> c, claim |-> c]]
  BY DEF Lease
<1>3. c # NoClaim
  BY <1>1, Constants
<1> HIDE DEF c
<1>4. worker' \in [Workers -> Processes]
  BY <1>1, <1>2 DEF TypeOK, Processes, Active
<1>5. Seated'
  BY <1>2, <1>3 DEF TypeOK, Seated
<1>6. dispatch' = [dispatch EXCEPT ![r].state = "leased",
                                   ![r].epoch = LeaseEpoch(r), ![r].live = TRUE]
  BY DEF Lease
<1>7. dispatch[r].beat = Nobody
  BY DEF Lease, Leasable, TypeOK
<1>8. DispatchOK'
  <2> DEFINE d == [dispatch[r] EXCEPT !.state = "leased",
                                      !.epoch = LeaseEpoch(r), !.live = TRUE]
  <2>1. d \in Dispatches /\ d.beat = Nobody
    BY <1>1, <1>7 DEF TypeOK, Dispatches
  <2>2. dispatch' = [dispatch EXCEPT ![r] = d]
    BY <1>6
  <2> HIDE DEF d
  <2> QED BY <2>1, <2>2 DEF TypeOK, DispatchOK, BeatOK
<1> QED BY <1>4, <1>5, <1>8 DEF Lease, TypeOK, DispatchOK, BeatOK

LEMMA SweepType ==
  ASSUME TypeOK, Seated, NEW w \in Workers, NEW r \in Runs, Sweep(w, r)
  PROVE  TypeOK' /\ Seated'
<1>1. status' \in [Runs -> RunStatuses]
  BY StatusType DEF Sweep, ReleaseUnclaimed, ReleaseWaiting,
     ReleasePostAuthority, FailExpired, TypeOK, RunStatuses, Final
<1>2. life' \in [Runs -> LifeRows]
  BY RetryType DEF Sweep, ReleaseUnclaimed, ReleaseWaiting,
     ReleasePostAuthority, FailExpired, TypeOK, RetryStates
<1>3. DispatchOK'
  BY ReleaseType, EndType DEF Sweep, ReleaseUnclaimed, ReleaseWaiting,
     ReleasePostAuthority, FailExpired, Final
<1> QED BY <1>1, <1>2, <1>3 DEF Sweep, TypeOK, DispatchOK, BeatOK, Seated

\* The types are kept by every step.
LEMMA NextType ==
  ASSUME TypeOK, Seated, [Next]_vars
  PROVE  TypeOK' /\ Seated'
<1>1. CASE UNCHANGED vars
  BY <1>1 DEF vars, TypeOK, Seated
<1>2. CASE Next
  BY <1>2, WorkType, GatewayType, RunType, CrashType, LeaseType, SweepType DEF Next
<1> QED BY <1>1, <1>2

-----------------------------------------------------------------------------
(* The run and its dispatch.                                               *)

RunOK(r) ==
  /\ status[r] = "none" <=> dispatch[r].state = "none"
  /\ dispatch[r].state \in {"pending", "leased"} => Dispatchable(r)
  /\ dispatch[r].state = "running" =>
       \/ status[r] \in InWork
       \/ /\ dispatch[r].kind = "clarification_resolution"
          /\ status[r] = "waiting_for_clarification"
  /\ dispatch[r].state = "terminal" =>
       \/ status[r] = dispatch[r].end
       \/ /\ dispatch[r].kind = "clarification_resolution"
          /\ dispatch[r].end = "failed"
          /\ status[r] = "waiting_for_clarification"

LEMMA RunsOK == DispatchMatchesRun <=> \A r \in Runs : RunOK(r)
BY DEF DispatchMatchesRun, RunOK

\* Only the lease and the heartbeat of dispatches change.
SameRows ==
  /\ status' = status
  /\ \A r \in Runs : /\ dispatch'[r].kind = dispatch[r].kind
                     /\ dispatch'[r].state = dispatch[r].state
                     /\ dispatch'[r].end = dispatch[r].end

LEMMA RowsKept ==
  ASSUME DispatchMatchesRun, SameRows
  PROVE  DispatchMatchesRun'
BY DEF DispatchMatchesRun, SameRows, Dispatchable

LEMMA UnchangedRows ==
  ASSUME UNCHANGED <<status, dispatch>>
  PROVE  SameRows
BY DEF SameRows

LEMMA LapsedRows ==
  ASSUME TypeOK, NEW r \in Runs, Lapse(r), UNCHANGED status
  PROVE  SameRows
BY DEF SameRows, Lapse, Expired, TypeOK, Dispatches

LEMMA SilentRows ==
  ASSUME TypeOK, NEW w, Silence(w), UNCHANGED status
  PROVE  SameRows
BY DEF SameRows, Silence, TypeOK, Dispatches

\* A step on one run leaves the others alone.
LEMMA OneRun ==
  ASSUME DispatchMatchesRun, NEW r \in Runs,
         \A q \in Runs \ {r} : status'[q] = status[q] /\ dispatch'[q] = dispatch[q],
         RunOK(r)'
  PROVE  DispatchMatchesRun'
BY DEF DispatchMatchesRun, RunOK, Dispatchable

\* The run is ended, or its question is left to the user.
LEMMA EndedRows ==
  ASSUME TypeOK, DispatchMatchesRun, NEW r \in Runs,
         NEW end \in {"waiting_for_clarification"} \cup Final,
         End(r, end),
         \/ SetStatus(r, end)
         \/ UNCHANGED status /\ status[r] = end
         \/ /\ UNCHANGED status /\ status[r] = "waiting_for_clarification"
            /\ end = "failed" /\ dispatch[r].kind = "clarification_resolution"
  PROVE  DispatchMatchesRun'
<1>1. /\ dispatch'[r].state = "terminal"
      /\ dispatch'[r].end = end
      /\ dispatch'[r].kind = dispatch[r].kind
  BY DEF End, Ended, TypeOK, Dispatches
<1>2. \A q \in Runs \ {r} : status'[q] = status[q] /\ dispatch'[q] = dispatch[q]
  BY DEF End, SetStatus, TypeOK
<1>3. status'[r] # "none" /\ (status'[r] = end \/ (status' = status /\ end # status[r]))
  BY DEF SetStatus, TypeOK, Final
<1>4. RunOK(r)'
  BY <1>1, <1>3 DEF RunOK, SetStatus, TypeOK
<1> QED BY <1>2, <1>4, OneRun

\* A run that waits is offered again.
LEMMA ReleasedRows ==
  ASSUME TypeOK, DispatchMatchesRun, NEW r \in Runs, Release(r),
         \/ UNCHANGED status /\ Dispatchable(r) /\ dispatch[r].state # "none"
         \/ /\ dispatch[r].kind = "clarification_resolution"
            /\ \/ UNCHANGED status /\ status[r] = "waiting_for_clarification"
               \/ SetStatus(r, "waiting_for_clarification")
  PROVE  DispatchMatchesRun'
<1>1. /\ dispatch'[r].state = "pending"
      /\ dispatch'[r].kind = dispatch[r].kind
  BY DEF Release, Released, TypeOK, Dispatches
<1>2. \A q \in Runs \ {r} : status'[q] = status[q] /\ dispatch'[q] = dispatch[q]
  BY DEF Release, SetStatus, TypeOK
<1>3. RunOK(r)'
  BY <1>1 DEF RunOK, SetStatus, TypeOK, Dispatchable, DispatchMatchesRun
<1> QED BY <1>2, <1>3, OneRun

LEMMA ObservedRows ==
  ASSUME TypeOK, DispatchMatchesRun, NEW c \in Claims \cup {NoClaim},
         Observed(c), UNCHANGED status
  PROVE  DispatchMatchesRun'
<1>1. CASE UNCHANGED dispatch
  BY <1>1, UnchangedRows, RowsKept
<1>2. CASE c # NoClaim /\ Lapse(c.run)
  BY <1>2, LapsedRows, RowsKept DEF Claims
<1>3. CASE /\ c # NoClaim /\ Release(c.run)
           /\ dispatch[c.run].state \in {"leased", "running"}
           /\ status[c.run] = "waiting_for_clarification"
  <2>1. c.run \in Runs
    BY <1>3 DEF Claims
  <2>2. dispatch[c.run].kind = "clarification_resolution"
    BY <1>3, <2>1 DEF DispatchMatchesRun, Dispatchable, InWork, TypeOK, Dispatches, Kinds
  <2> QED BY <1>3, <2>1, <2>2, ReleasedRows
<1> QED BY <1>1, <1>2, <1>3 DEF Observed, Same

LEMMA OwnedEndRows ==
  ASSUME TypeOK, DispatchMatchesRun, NEW w \in Workers, NEW from,
         NEW end \in {"waiting_for_clarification"} \cup Final,
         OwnedEnd(w, from, end)
  PROVE  DispatchMatchesRun'
BY ClaimOfRun, EndedRows DEF OwnedEnd, Owns, Same

LEMMA OwnedStartRows ==
  ASSUME TypeOK, DispatchMatchesRun, NEW w \in Workers, NEW from,
         OwnedStart(w, from)
  PROVE  DispatchMatchesRun'
<1>1. PICK r \in Runs : r = worker[w].claim.run /\ dispatch[r].state = "running"
  BY ClaimOfRun DEF OwnedStart, Owns, Same
<1>2. /\ UNCHANGED dispatch
      /\ status' = [status EXCEPT ![r] = "running_workflow"]
  BY <1>1 DEF OwnedStart, SetStatus
<1>3. RunOK(r)'
  BY <1>1, <1>2 DEF RunOK, InWork, TypeOK
<1> QED BY <1>1, <1>2, <1>3, OneRun DEF TypeOK

LEMMA WorkRows ==
  ASSUME TypeOK, Seated, DispatchMatchesRun, NEW w \in Workers, Work(w)
  PROVE  DispatchMatchesRun'
<1>r. ASSUME worker[w].at \in Active \cup {"raised"}
      PROVE  worker[w].claim.run \in Runs
  BY <1>r, Sits
<1>1. CASE Claim(w)
  <2>1. PICK r \in Runs : r = worker[w].claim.run
    BY <1>1, <1>r DEF Claim, Active
  <2>2. /\ dispatch'[r].state = "running"
        /\ dispatch'[r].kind = dispatch[r].kind
        /\ \A q \in Runs \ {r} : dispatch'[q] = dispatch[q]
    BY <1>1, <2>1 DEF Claim, TypeOK, Dispatches
  <2>3. CASE dispatch[r].kind = "thread_message"
    <3>1. status' = [status EXCEPT ![r] = "running"]
      BY <1>1, <2>1, <2>3 DEF Claim, SetStatus
    <3>2. RunOK(r)'
      BY <2>1, <2>2, <3>1 DEF RunOK, InWork, TypeOK
    <3> QED BY <2>1, <2>2, <3>1, <3>2, OneRun DEF TypeOK
  <2>4. CASE dispatch[r].kind = "clarification_resolution"
    <3>1. status' = status /\ status[r] = "waiting_for_clarification"
      BY <1>1, <2>1, <2>4 DEF Claim, Dispatchable
    <3>2. RunOK(r)'
      BY <2>1, <2>2, <2>4, <3>1 DEF RunOK
    <3> QED BY <2>1, <2>2, <3>1, <3>2, OneRun
  <2> QED BY <1>1, <2>1, <2>3, <2>4 DEF Claim
<1>2. CASE InteractionDone(w) \/ EntryFails(w) \/ Cancel(w)
  BY <1>2, OwnedEndRows DEF InteractionDone, EntryFails, Cancel, Final
<1>3. CASE Complete(w) \/ Fail(w) \/ FinalizeWaiting(w)
  BY <1>3, OwnedEndRows DEF Complete, Fail, FinalizeWaiting, Final
<1>4. CASE StartWorkflow(w) \/ Resume(w)
  BY <1>4, OwnedStartRows DEF StartWorkflow, Resume
<1>5. CASE RecordDecision(w) \/ Activate(w) \/ ReplayDecision(w) \/ Ask(w)
  BY <1>5, UnchangedRows, RowsKept DEF RecordDecision, Activate, ReplayDecision, Ask
<1>6. CASE Challenge(w)
  BY <1>6, <1>r, EndedRows DEF Challenge, Directive, Active
<1>7. CASE Revise(w)
  <2>1. PICK r \in Runs : r = worker[w].claim.run /\ r + 1 \in Runs /\ r # r + 1
    BY <1>7, <1>r, Constants DEF Revise, Directive, Active
  <2> DEFINE d == [NewDispatch("thread_message", 1, FALSE) EXCEPT
                     !.state = "leased", !.epoch = 1, !.live = TRUE]
  <2>2. status' = [status EXCEPT ![r] = "interaction_completed", ![r + 1] = "queued"]
    BY <1>7, <2>1 DEF Revise
  <2>3. dispatch' = [dispatch EXCEPT ![r] = Ended(@, "interaction_completed"),
                                     ![r + 1] = d]
    BY <1>7, <2>1 DEF Revise
  <2>4. d.state = "leased" /\ d.kind = "thread_message"
    BY DEF NewDispatch
  <2> HIDE DEF d
  <2>5. dispatch'[r] = Ended(dispatch[r], "interaction_completed")
    BY <2>1, <2>3 DEF TypeOK
  <2>6. dispatch'[r].state = "terminal" /\ dispatch'[r].end = "interaction_completed"
    BY <2>1, <2>5 DEF Ended, TypeOK, Dispatches
  <2>7. RunOK(r)'
    BY <2>1, <2>2, <2>6 DEF RunOK, TypeOK
  <2>8. RunOK(r + 1)'
    BY <2>1, <2>2, <2>3, <2>4 DEF RunOK, Dispatchable, TypeOK
  <2>9. \A q \in Runs \ {r, r + 1} : status'[q] = status[q] /\ dispatch'[q] = dispatch[q]
    BY <2>1, <2>2, <2>3 DEF TypeOK
  <2>10. \A q \in Runs : RunOK(q)'
    BY <2>7, <2>8, <2>9 DEF RunOK, Dispatchable, DispatchMatchesRun
  <2> QED BY <2>10 DEF RunOK, DispatchMatchesRun
<1>8. CASE Settle(w) \/ Seal(w) \/ Publish(w) \/ PostSealFail(w)
  BY <1>8, UnchangedRows, RowsKept DEF Settle, Seal, Stage, Publish, PostSealFail
<1>9. CASE Raise(w) \/ ChildEnds(w)
  BY <1>9, UnchangedRows, SilentRows, RowsKept DEF Raise, ChildEnds
<1>10. CASE FailOwned(w)
  <2> DEFINE q == worker[w].lease.run
  <2>1. CASE UNCHANGED <<status, dispatch>>
    BY <2>1, UnchangedRows, RowsKept
  <2>2. CASE /\ Same(worker[w].lease)
             /\ End(q, "failed")
             /\ \/ SetStatus(q, "failed")
                \/ /\ UNCHANGED status
                   /\ status[q] = "waiting_for_clarification"
                   /\ dispatch[q].kind = "clarification_resolution"
    <3>1. q \in Runs
      BY <2>2 DEF Same, TypeOK, Processes, Claims
    <3> QED BY <2>2, <3>1, EndedRows DEF Final
  <2> QED BY <1>10, <2>1, <2>2 DEF FailOwned, InWork
<1> QED
  BY <1>1, <1>2, <1>3, <1>4, <1>5, <1>6, <1>7, <1>8, <1>9, <1>10 DEF Work

LEMMA NextRows ==
  ASSUME TypeOK, Seated, DispatchMatchesRun, [Next]_vars
  PROVE  DispatchMatchesRun'
<1>1. CASE UNCHANGED vars
  BY <1>1, UnchangedRows, RowsKept DEF vars
<1>2. ASSUME NEW r \in Runs, Answer(r)
      PROVE  DispatchMatchesRun'
  <2>1. /\ dispatch'[r].state = "pending"
        /\ dispatch'[r].kind = "clarification_resolution"
        /\ \A q \in Runs \ {r} : dispatch'[q] = dispatch[q]
    BY <1>2 DEF Answer, TypeOK, NewDispatch
  <2>2. RunOK(r)'
    BY <1>2, <2>1 DEF Answer, RunOK, Dispatchable
  <2> QED BY <1>2, <2>1, <2>2, OneRun DEF Answer
<1>3. ASSUME NEW r \in Runs, LeaseExpires(r) \/ StartsTooLate(r)
      PROVE  DispatchMatchesRun'
  BY <1>3, LapsedRows, RowsKept DEF LeaseExpires, StartsTooLate
<1>4. ASSUME NEW r \in Runs, HeartbeatFails(r)
      PROVE  DispatchMatchesRun'
  <2>1. SameRows
    BY <1>4 DEF HeartbeatFails, SameRows, TypeOK, Dispatches
  <2> QED BY <2>1, RowsKept
<1>5. ASSUME NEW w \in Workers, NEW r \in Runs, Lease(w, r)
      PROVE  DispatchMatchesRun'
  <2>1. /\ dispatch'[r].state = "leased"
        /\ dispatch'[r].kind = dispatch[r].kind
        /\ \A q \in Runs \ {r} : dispatch'[q] = dispatch[q]
    BY <1>5 DEF Lease, TypeOK, Dispatches
  <2>2. RunOK(r)'
    BY <1>5, <2>1 DEF Lease, Leasable, RunOK, Dispatchable, DispatchMatchesRun
  <2> QED BY <1>5, <2>1, <2>2, OneRun DEF Lease
<1>6. ASSUME NEW w \in Workers, NEW r \in Runs, Sweep(w, r)
      PROVE  DispatchMatchesRun'
  <2>1. CASE ReleaseUnclaimed(r) \/ ReleaseWaiting(r) \/ ReleasePostAuthority(r)
    BY <2>1, ReleasedRows
       DEF ReleaseUnclaimed, ReleaseWaiting, ReleasePostAuthority, ResumingPostAuthority
  <2>2. CASE FailExpired(r)
    BY <2>2, EndedRows DEF FailExpired, Final
  <2> QED BY <1>6, <2>1, <2>2 DEF Sweep
<1>7. ASSUME NEW w \in Workers,
             ObserveExit(w) \/ StartupTimeout(w) \/ GatewayLost(w)
      PROVE  DispatchMatchesRun'
  <2>1. worker[w].lease \in Claims \cup {NoClaim}
    BY DEF TypeOK, Processes
  <2> QED BY <1>7, <2>1, ObservedRows, UnchangedRows, RowsKept
          DEF ObserveExit, StartupTimeout, GatewayLost
<1>8. ASSUME NEW w \in Workers, Crash(w)
      PROVE  DispatchMatchesRun'
  BY <1>8, SilentRows, RowsKept DEF Crash
<1> QED
  BY <1>1, <1>2, <1>3, <1>4, <1>5, <1>6, <1>7, <1>8, WorkRows DEF Next

-----------------------------------------------------------------------------
(* Claims and the age of dispatches.                                       *)

\* Dispatches only grow older: a new one has a greater id, a new lease of
\* the same one a greater epoch.
Ages ==
  \A r \in Runs : status[r] # "none" =>
    /\ status'[r] # "none"
    /\ dispatch[r].id <= dispatch'[r].id
    /\ dispatch'[r].id = dispatch[r].id => dispatch[r].epoch <= dispatch'[r].epoch

\* Claims are only given up.
Drops == \A w \in Workers : worker'[w].claim \in {worker[w].claim, NoClaim}

OldClaim(w) ==
  LET c == worker[w].claim
  IN c # NoClaim =>
       /\ status[c.run] # "none"
       /\ c.id <= dispatch[c.run].id
       /\ c.id = dispatch[c.run].id => c.epoch <= dispatch[c.run].epoch

LEMMA OldKept ==
  ASSUME TypeOK, TypeOK', Ages, NEW w \in Workers, OldClaim(w),
         worker'[w].claim \in {worker[w].claim, NoClaim}
  PROVE  OldClaim(w)'
<1> SUFFICES ASSUME worker'[w].claim # NoClaim
             PROVE  OldClaim(w)'
  BY DEF OldClaim
<1>1. PICK c \in Claims : c = worker[w].claim /\ c = worker'[w].claim
  BY DEF TypeOK, Processes
<1>2. c.run \in Runs /\ c.id \in Nat /\ c.epoch \in Nat
  BY DEF Claims
<1>3. /\ status[c.run] # "none"
      /\ c.id <= dispatch[c.run].id
      /\ c.id = dispatch[c.run].id => c.epoch <= dispatch[c.run].epoch
  BY <1>1 DEF OldClaim
<1>4. /\ dispatch[c.run].id \in Nat /\ dispatch[c.run].epoch \in Nat
      /\ dispatch'[c.run].id \in Nat /\ dispatch'[c.run].epoch \in Nat
  BY <1>2 DEF TypeOK, Dispatches
<1>5. /\ status'[c.run] # "none"
      /\ dispatch[c.run].id <= dispatch'[c.run].id
      /\ dispatch'[c.run].id = dispatch[c.run].id =>
           dispatch[c.run].epoch <= dispatch'[c.run].epoch
  BY <1>2, <1>3 DEF Ages
<1>6. /\ c.id <= dispatch'[c.run].id
      /\ c.id = dispatch'[c.run].id => c.epoch <= dispatch'[c.run].epoch
  BY <1>2, <1>3, <1>4, <1>5
<1> QED BY <1>1, <1>5, <1>6 DEF OldClaim

LEMMA ClaimsKept ==
  ASSUME TypeOK, TypeOK', ClaimsAreOld, ClaimsDiffer, Ages, Drops
  PROVE  ClaimsAreOld' /\ ClaimsDiffer'
<1>1. ClaimsDiffer'
  BY DEF ClaimsDiffer, Drops
<1>2. \A w \in Workers : OldClaim(w)'
  BY OldKept DEF Drops, ClaimsAreOld, OldClaim
<1> QED BY <1>1, <1>2 DEF ClaimsAreOld, OldClaim

SameAge ==
  \A r \in Runs : /\ dispatch'[r].id = dispatch[r].id
                  /\ dispatch'[r].epoch = dispatch[r].epoch

StatusOnly == \A r \in Runs : status[r] # "none" => status'[r] # "none"

LEMMA AgesKept ==
  ASSUME TypeOK, SameAge, StatusOnly
  PROVE  Ages
BY DEF Ages, SameAge, StatusOnly, TypeOK, Dispatches

LEMMA PartsAge ==
  ASSUME TypeOK
  PROVE  /\ UNCHANGED dispatch => SameAge
         /\ \A r \in Runs : \A end : End(r, end) => SameAge
         /\ \A r \in Runs : Release(r) \/ Lapse(r) => SameAge
         /\ \A w : Silence(w) => SameAge
         /\ UNCHANGED status => StatusOnly
         /\ \A r \in Runs, s \in RunStatuses \ {"none"} :
              SetStatus(r, s) => StatusOnly
         /\ UNCHANGED worker => Drops
         /\ \A w \in Workers : \A at : Move(w, at) => Drops
         /\ \A w \in Workers : Leave(w) => Drops
<1>1. UNCHANGED dispatch => SameAge
  BY DEF SameAge
<1>2. \A r \in Runs : \A end : End(r, end) => SameAge
  BY DEF SameAge, End, Ended, TypeOK, Dispatches
<1>3. \A r \in Runs : Release(r) \/ Lapse(r) => SameAge
  <2>1. \A r \in Runs : Release(r) => SameAge
    BY DEF SameAge, Release, Released, TypeOK, Dispatches
  <2>2. \A r \in Runs : Lapse(r) => SameAge
    BY DEF SameAge, Lapse, Expired, TypeOK, Dispatches
  <2> QED BY <2>1, <2>2
<1>4. \A w : Silence(w) => SameAge
  BY DEF SameAge, Silence, TypeOK, Dispatches
<1>5. UNCHANGED status => StatusOnly
  BY DEF StatusOnly
<1>6. \A r \in Runs, s \in RunStatuses \ {"none"} : SetStatus(r, s) => StatusOnly
  BY DEF StatusOnly, SetStatus, TypeOK
<1>7. UNCHANGED worker => Drops
  BY DEF Drops
<1>8. \A w \in Workers : \A at : Move(w, at) => Drops
  BY DEF Drops, Move, TypeOK, Processes
<1>9. \A w \in Workers : Leave(w) => Drops
  BY DEF Drops, Leave, Resting, TypeOK, Processes
<1> QED BY <1>1, <1>2, <1>3, <1>4, <1>5, <1>6, <1>7, <1>8, <1>9

\* Most steps of a process only give claims up.
LEMMA WorkAges ==
  ASSUME TypeOK, Seated, NEW w \in Workers, Work(w), ~Revise(w)
  PROVE  Ages /\ Drops
<1>r. ASSUME worker[w].at \in Active \cup {"raised"}
      PROVE  worker[w].claim.run \in Runs
  BY <1>r, Sits
<1>o. Owns(w) => worker[w].claim.run \in Runs
  BY ClaimOfRun DEF Owns, Same
<1>s. Final \cup InWork \cup {"waiting_for_clarification"} \subseteq RunStatuses \ {"none"}
  BY DEF Final, InWork, RunStatuses
<1>e. ASSUME NEW from, NEW end \in Final \cup {"waiting_for_clarification"},
             OwnedEnd(w, from, end)
      PROVE  SameAge /\ StatusOnly
  BY <1>e, <1>o, <1>s, PartsAge DEF OwnedEnd
<1>b. ASSUME NEW from, OwnedStart(w, from)
      PROVE  Ages /\ Drops
  BY <1>b, <1>o, <1>s, PartsAge, AgesKept DEF OwnedStart, InWork
<1>1. CASE Claim(w)
  <2>1. PICK r \in Runs : r = worker[w].claim.run
    BY <1>1, <1>r DEF Claim, Active
  <2>2. SameAge
    BY <1>1, <2>1 DEF Claim, SameAge, TypeOK, Dispatches
  <2>3. StatusOnly
    BY <1>1, <2>1, <1>s, PartsAge DEF Claim, InWork
  <2>4. Drops
    BY <1>1, PartsAge DEF Claim
  <2> QED BY <2>2, <2>3, <2>4, AgesKept
<1>2. CASE InteractionDone(w) \/ Cancel(w) \/ FinalizeWaiting(w)
  BY <1>2, <1>e, PartsAge, AgesKept
     DEF InteractionDone, Cancel, FinalizeWaiting, Final
<1>3. CASE EntryFails(w) \/ Complete(w) \/ Fail(w)
  BY <1>3, <1>e, PartsAge, AgesKept DEF EntryFails, Complete, Fail, Final
<1>4. CASE StartWorkflow(w) \/ Resume(w)
  BY <1>4, <1>b DEF StartWorkflow, Resume
<1>5. CASE RecordDecision(w) \/ Activate(w) \/ ReplayDecision(w) \/ Ask(w)
  BY <1>5, PartsAge, AgesKept DEF RecordDecision, Activate, ReplayDecision, Ask
<1>6. CASE Challenge(w)
  BY <1>6, <1>r, PartsAge, AgesKept DEF Challenge, Directive, Active
<1>7. CASE Settle(w) \/ Seal(w) \/ Publish(w) \/ PostSealFail(w)
  BY <1>7, PartsAge, AgesKept DEF Settle, Seal, Stage, Publish, PostSealFail
<1>8. CASE Raise(w) \/ ChildEnds(w)
  BY <1>8, PartsAge, AgesKept DEF Raise, ChildEnds
<1>9. CASE FailOwned(w)
  <2>1. Same(worker[w].lease) => worker[w].lease.run \in Runs
    BY DEF Same, TypeOK, Processes, Claims
  <2> QED BY <1>9, <2>1, <1>s, PartsAge, AgesKept DEF FailOwned, Final
<1> QED
  BY <1>1, <1>2, <1>3, <1>4, <1>5, <1>6, <1>7, <1>8, <1>9 DEF Work

\* A process that takes a claim nobody holds.
LEMMA ClaimsGrown ==
  ASSUME TypeOK, TypeOK', ClaimsAreOld, ClaimsDiffer, Ages,
         NEW w \in Workers, NEW c \in Claims,
         worker'[w].claim = c,
         \A v \in Workers \ {w} : worker'[v].claim = worker[v].claim,
         \A v \in Workers : worker[v].claim # c,
         status'[c.run] # "none",
         c.id = dispatch'[c.run].id, c.epoch = dispatch'[c.run].epoch
  PROVE  ClaimsAreOld' /\ ClaimsDiffer'
<1>1. ClaimsDiffer'
  BY DEF ClaimsDiffer
<1>2. OldClaim(w)'
  <2>1. c.id \in Nat /\ c.epoch \in Nat
    BY DEF Claims
  <2> QED BY <2>1 DEF OldClaim
<1>3. \A v \in Workers \ {w} : OldClaim(v)'
  BY OldKept DEF ClaimsAreOld, OldClaim
<1> QED BY <1>1, <1>2, <1>3 DEF ClaimsAreOld, OldClaim

LEMMA LeaseClaims ==
  ASSUME IInv, TypeOK', NEW w \in Workers, NEW r \in Runs, Lease(w, r)
  PROVE  ClaimsAreOld' /\ ClaimsDiffer'
<1>1. /\ TypeOK /\ ClaimsAreOld /\ ClaimsDiffer
      /\ dispatch[r].id \in Nat /\ dispatch[r].epoch \in Nat
  BY DEF IInv, TypeOK, Dispatches
<1>2. PICK c \in Claims : c = [run |-> r, id |-> dispatch[r].id,
                               epoch |-> dispatch[r].epoch + 1]
  <2>1. dispatch[r].epoch + 1 \in Nat
    BY <1>1
  <2>2. [run |-> r, id |-> dispatch[r].id, epoch |-> dispatch[r].epoch + 1] \in Claims
    BY <1>1, <2>1 DEF Claims
  <2> QED BY <2>2
<1>3. worker' = [worker EXCEPT ![w] = [at |-> "starting", lease |-> c, claim |-> c]]
  <2>1. c = [run |-> r, id |-> dispatch[r].id, epoch |-> LeaseEpoch(r)]
    BY <1>2 DEF LeaseEpoch
  <2> QED BY <2>1 DEF Lease
<1>4. /\ dispatch'[r].id = c.id
      /\ dispatch'[r].epoch = c.epoch
      /\ \A q \in Runs \ {r} : dispatch'[q] = dispatch[q]
  BY <1>1, <1>2 DEF Lease, LeaseEpoch, TypeOK, Dispatches
<1>5. status[r] # "none" /\ status' = status
  BY DEF Lease, Leasable, IInv, DispatchMatchesRun
<1>6. Ages
  BY <1>1, <1>2, <1>4, <1>5 DEF Ages, TypeOK, Dispatches
<1>7. ASSUME NEW v \in Workers, worker[v].claim = c
      PROVE  FALSE
  <2>1. c.epoch <= dispatch[c.run].epoch
    BY <1>1, <1>2, <1>7, Constants DEF ClaimsAreOld
  <2> QED BY <1>1, <1>2, <2>1
<1>8. /\ worker'[w].claim = c
      /\ \A v \in Workers \ {w} : worker'[v].claim = worker[v].claim
  BY <1>1, <1>3 DEF TypeOK
<1> QED BY <1>1, <1>2, <1>4, <1>5, <1>6, <1>7, <1>8, ClaimsGrown

LEMMA ReviseClaims ==
  ASSUME IInv, TypeOK', NEW w \in Workers, Revise(w)
  PROVE  ClaimsAreOld' /\ ClaimsDiffer'
<1>1. TypeOK /\ Seated /\ ClaimsAreOld /\ ClaimsDiffer
  BY DEF IInv
<1>2. PICK r \in Runs : /\ r = worker[w].claim.run
                        /\ r + 1 \in Runs /\ r # r + 1
                        /\ status[r + 1] = "none"
  BY <1>1, Sits, Constants DEF Revise, Directive, Active
<1>3. PICK c \in Claims : c = [run |-> r + 1, id |-> 1, epoch |-> 1]
  BY <1>2 DEF Claims
<1>4. worker' = [worker EXCEPT ![w].at = "starting", ![w].claim = c]
  BY <1>2, <1>3 DEF Revise
<1>5. status' = [status EXCEPT ![r] = "interaction_completed", ![r + 1] = "queued"]
  BY <1>2 DEF Revise
<1>6. dispatch' = [dispatch EXCEPT
        ![r] = Ended(@, "interaction_completed"),
        ![r + 1] = [NewDispatch("thread_message", 1, FALSE) EXCEPT
                      !.state = "leased", !.epoch = 1, !.live = TRUE]]
  BY <1>2 DEF Revise
<1>7. dispatch'[r + 1].id = 1 /\ dispatch'[r + 1].epoch = 1
  BY <1>1, <1>2, <1>6 DEF TypeOK, NewDispatch
<1>8. dispatch'[r] = Ended(dispatch[r], "interaction_completed")
  BY <1>1, <1>2, <1>6 DEF TypeOK
<1>9. dispatch'[r].id = dispatch[r].id /\ dispatch'[r].epoch = dispatch[r].epoch
  BY <1>1, <1>8 DEF Ended, TypeOK, Dispatches
<1>10. \A q \in Runs \ {r, r + 1} : dispatch'[q] = dispatch[q] /\ status'[q] = status[q]
  BY <1>1, <1>2, <1>5, <1>6 DEF TypeOK
<1>11. status'[r] = "interaction_completed" /\ status'[r + 1] = "queued"
  BY <1>1, <1>2, <1>5 DEF TypeOK
<1>12. Ages
  BY <1>1, <1>2, <1>9, <1>10, <1>11 DEF Ages, TypeOK, Dispatches
<1>13. \A v \in Workers : worker[v].claim # c
  BY <1>1, <1>2, <1>3, Constants DEF ClaimsAreOld
<1>14. /\ worker'[w].claim = c
       /\ \A v \in Workers \ {w} : worker'[v].claim = worker[v].claim
  BY <1>1, <1>4 DEF TypeOK, Processes
<1> QED BY <1>1, <1>3, <1>7, <1>11, <1>12, <1>13, <1>14, ClaimsGrown

LEMMA NextClaims ==
  ASSUME IInv, TypeOK', [Next]_vars
  PROVE  ClaimsAreOld' /\ ClaimsDiffer'
<1>1. TypeOK /\ Seated /\ ClaimsAreOld /\ ClaimsDiffer
  BY DEF IInv
<1>k. Ages /\ Drops => ClaimsAreOld' /\ ClaimsDiffer'
  BY <1>1, ClaimsKept
<1>2. CASE UNCHANGED vars
  BY <1>1, <1>2, <1>k, PartsAge, AgesKept DEF vars
<1>3. ASSUME NEW r \in Runs, Answer(r)
      PROVE  Ages /\ Drops
  <2>1. /\ dispatch'[r].id = dispatch[r].id + 1
        /\ \A q \in Runs \ {r} : dispatch'[q] = dispatch[q]
    BY <1>1, <1>3 DEF Answer, NewDispatch, TypeOK
  <2>2. Ages
    BY <1>1, <1>3, <2>1 DEF Answer, Ages, TypeOK, Dispatches
  <2> QED BY <1>1, <1>3, <2>2, PartsAge DEF Answer
<1>4. ASSUME NEW r \in Runs, LeaseExpires(r) \/ StartsTooLate(r)
      PROVE  Ages /\ Drops
  BY <1>1, <1>4, PartsAge, AgesKept DEF LeaseExpires, StartsTooLate
<1>5. ASSUME NEW r \in Runs, HeartbeatFails(r)
      PROVE  Ages /\ Drops
  <2>1. SameAge
    BY <1>1, <1>5 DEF HeartbeatFails, SameAge, TypeOK, Dispatches
  <2> QED BY <1>1, <1>5, <2>1, PartsAge, AgesKept DEF HeartbeatFails
<1>6. ASSUME NEW w \in Workers, NEW r \in Runs, Sweep(w, r)
      PROVE  Ages /\ Drops
  BY <1>1, <1>6, PartsAge, AgesKept
     DEF Sweep, ReleaseUnclaimed, ReleaseWaiting, ReleasePostAuthority,
         FailExpired, RunStatuses, Final
<1>7. ASSUME NEW w \in Workers,
             ObserveExit(w) \/ StartupTimeout(w) \/ GatewayLost(w)
      PROVE  Ages /\ Drops
  <2>1. ASSUME Observed(worker[w].lease)
        PROVE  SameAge
    <3>1. worker[w].lease # NoClaim => worker[w].lease.run \in Runs
      BY <1>1 DEF TypeOK, Processes, Claims
    <3> QED BY <1>1, <2>1, <3>1, PartsAge DEF Observed, Same
  <2>2. SameAge
    BY <1>1, <1>7, <2>1, PartsAge DEF ObserveExit, StartupTimeout, GatewayLost
  <2> QED BY <1>1, <1>7, <2>2, PartsAge, AgesKept
          DEF ObserveExit, StartupTimeout, GatewayLost
<1>8. ASSUME NEW w \in Workers, Crash(w)
      PROVE  Ages /\ Drops
  BY <1>1, <1>8, PartsAge, AgesKept DEF Crash
<1>9. ASSUME NEW w \in Workers, Work(w)
      PROVE  ClaimsAreOld' /\ ClaimsDiffer'
  BY <1>1, <1>9, <1>k, WorkAges, ReviseClaims
<1>10. ASSUME NEW w \in Workers, NEW r \in Runs, Lease(w, r)
       PROVE  ClaimsAreOld' /\ ClaimsDiffer'
  BY <1>10, LeaseClaims
<1> QED
  BY <1>2, <1>3, <1>4, <1>5, <1>6, <1>7, <1>8, <1>9, <1>10, <1>k DEF Next

-----------------------------------------------------------------------------
(* The inductive invariant and its consequences.                           *)

LEMMA InitIInv == Init => IInv
<1> SUFFICES ASSUME Init PROVE IInv
  OBVIOUS
<1>1. NewDispatch("thread_message", 1, FALSE) \in Dispatches
      /\ NoDispatch \in Dispatches
  BY DEF NewDispatch, NoDispatch, Dispatches, Kinds
<1>2. TypeOK
  BY <1>1, Constants DEF Init, TypeOK, RunStatuses, LifeRows, Stages, RetryStates,
     Processes, Resting, NewDispatch, NoDispatch
<1>3. Seated
  BY DEF Init, Seated, Resting, Active
<1>4. DispatchMatchesRun
  BY DEF Init, DispatchMatchesRun, Dispatchable, NewDispatch, NoDispatch
<1>5. ClaimsAreOld /\ ClaimsDiffer
  BY DEF Init, ClaimsAreOld, ClaimsDiffer, Resting
<1> QED BY <1>2, <1>3, <1>4, <1>5 DEF IInv

LEMMA NextIInv == IInv /\ [Next]_vars => IInv'
BY NextType, NextRows, NextClaims DEF IInv

LEMMA OwnersDiffer == IInv => OneOwner
<1> SUFFICES ASSUME IInv, NEW v \in Workers, NEW w \in Workers, v # w,
                    Owns(v), Owns(w),
                    worker[v].claim.run = worker[w].claim.run
             PROVE  FALSE
  BY DEF OneOwner
<1>1. worker[v].claim \in Claims /\ worker[w].claim \in Claims
  BY ClaimOfRun DEF IInv, Owns, Same
<1>2. /\ worker[v].claim.id = worker[w].claim.id
      /\ worker[v].claim.epoch = worker[w].claim.epoch
  BY DEF Owns, Same
<1>3. worker[v].claim = worker[w].claim
  BY <1>1, <1>2 DEF Claims
<1> QED BY <1>3 DEF IInv, ClaimsDiffer, Owns, Same

LEMMA SpecIInv == Spec => []IInv
BY InitIInv, NextIInv, PTL DEF Spec

\* The types of the rows and of the processes; a heartbeat renews only a
\* dispatch that is running on a live lease.
THEOREM DispatchTypes == Spec => []TypeOK
<1>1. IInv => TypeOK
  BY DEF IInv
<1> QED BY <1>1, SpecIInv, PTL

\* The row of a run and the row of its dispatch agree, whatever the gateway,
\* the workers and their sweeps do to either.
THEOREM DispatchFollowsRun == Spec => []DispatchMatchesRun
<1>1. IInv => DispatchMatchesRun
  BY DEF IInv
<1> QED BY <1>1, SpecIInv, PTL

\* Two processes never both hold a live claim of one run.
THEOREM RunHasOneOwner == Spec => []OneOwner
BY OwnersDiffer, SpecIInv, PTL
==============================================================================
