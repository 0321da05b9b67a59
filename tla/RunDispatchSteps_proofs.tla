----------------------- MODULE RunDispatchSteps_proofs -----------------------
(***************************************************************************)
(* What a step of RunDispatch may never do: machine-checked action         *)
(* properties, for any number of processes, runs, answers and faults.      *)
(* They follow from one summary of the steps: what any of them does to the *)
(* row of one run, RunStep.                                                *)
(***************************************************************************)
EXTENDS RunDispatch_proofs

\* A lease is live while the dispatch is leased or claimed only.
LiveOK ==
  \A r \in Runs : dispatch[r].live => dispatch[r].state \in {"leased", "running"}

\* A process works under the lease it was given, unless it revised the run of
\* that lease, which has ended.
LeasesOK ==
  \A w \in Workers : worker[w].lease # worker[w].claim =>
    worker[w].lease # NoClaim /\ status[worker[w].lease.run] \in Final

StepInv == IInv /\ LiveOK /\ LeasesOK
-----------------------------------------------------------------------------
(* The row of a run before and after a step.                               *)

SameLease(r) ==
  dispatch'[r].id = dispatch[r].id /\ dispatch'[r].epoch = dispatch[r].epoch

\* The process that owns the dispatch of the run does the step.
OwnerActs(w, r) == Owns(w) /\ worker[w].claim.run = r /\ worker'[w] # worker[w]

Untouched(r) == status'[r] = status[r] /\ dispatch'[r] = dispatch[r]

\* The lease lapses, or its heartbeat ends.
Dims(r) ==
  /\ status'[r] = status[r]
  /\ dispatch[r].state \in {"leased", "running"}
  /\ dispatch'[r].state = dispatch[r].state
  /\ dispatch'[r].live => dispatch[r].live
  /\ SameLease(r)

\* The user answered.
Reopens(r) ==
  /\ status'[r] = status[r] /\ status[r] = "waiting_for_clarification"
  /\ dispatch[r].state = "terminal" /\ dispatch'[r].state = "pending"
  /\ ~dispatch'[r].live
  /\ dispatch'[r].id = dispatch[r].id + 1

IsLeased(r) ==
  /\ status'[r] = status[r]
  /\ dispatch[r].state \in {"pending", "leased"}
  /\ dispatch'[r].state = "leased"
  /\ dispatch'[r].id = dispatch[r].id
  /\ dispatch'[r].epoch = dispatch[r].epoch + 1

IsClaimed(w, r) ==
  /\ worker[w].at = "starting" /\ worker[w].claim.run = r
  /\ Same(worker[w].claim)
  /\ dispatch[r].state = "leased" /\ ClaimReady(r) /\ Dispatchable(r)
  /\ dispatch'[r].state = "running"
  /\ SameLease(r)

IsOffered(r) ==
  /\ dispatch[r].state \in {"leased", "running"}
  /\ dispatch'[r].state = "pending" /\ ~dispatch'[r].live
  /\ SameLease(r)
  /\ \/ status'[r] = status[r]
     \/ dispatch[r].state = "running" /\ ~dispatch[r].live

IsEnded(r) ==
  /\ dispatch[r].state \in {"leased", "running"}
  /\ dispatch'[r].state = "terminal" /\ ~dispatch'[r].live
  /\ SameLease(r)
  /\ \/ status'[r] = status[r]
     \/ dispatch[r].state = "running" /\ ~dispatch[r].live
     \/ dispatch[r].state = "leased" /\ status[r] = "queued"
     \/ \E w \in Workers : OwnerActs(w, r)

IsStarted(r) ==
  dispatch'[r] = dispatch[r] /\ \E w \in Workers : OwnerActs(w, r)

IsCreated(r) ==
  /\ status[r] = "none" /\ dispatch[r].state = "none"
  /\ dispatch'[r].state = "leased"

RunStep(r) ==
  \/ Untouched(r) \/ Dims(r) \/ Reopens(r) \/ IsLeased(r)
  \/ \E w \in Workers : IsClaimed(w, r)
  \/ IsOffered(r) \/ IsEnded(r) \/ IsStarted(r) \/ IsCreated(r)

\* A step touches one run.
OnlyRun(r) == \A q \in Runs \ {r} : Untouched(q)
-----------------------------------------------------------------------------
LEMMA EndRow ==
  ASSUME TypeOK, NEW r \in Runs, NEW end, End(r, end)
  PROVE  /\ dispatch'[r].state = "terminal" /\ ~dispatch'[r].live
         /\ SameLease(r)
         /\ \A q \in Runs \ {r} : dispatch'[q] = dispatch[q]
BY DEF End, Ended, TypeOK, Dispatches, SameLease

LEMMA ReleaseRow ==
  ASSUME TypeOK, NEW r \in Runs, Release(r)
  PROVE  /\ dispatch'[r].state = "pending" /\ ~dispatch'[r].live
         /\ SameLease(r)
         /\ \A q \in Runs \ {r} : dispatch'[q] = dispatch[q]
BY DEF Release, Released, TypeOK, Dispatches, SameLease

LEMMA LapseRow ==
  ASSUME TypeOK, NEW r \in Runs, Lapse(r), UNCHANGED status,
         dispatch[r].state \in {"leased", "running"}
  PROVE  Dims(r) /\ OnlyRun(r)
BY DEF Lapse, Expired, TypeOK, Dispatches, SameLease, Dims, OnlyRun, Untouched

LEMMA StatusRow ==
  ASSUME TypeOK, NEW r \in Runs, NEW s, SetStatus(r, s)
  PROVE  status'[r] = s /\ \A q \in Runs \ {r} : status'[q] = status[q]
BY DEF SetStatus, TypeOK

\* The heartbeats of a process belong to claimed dispatches.
LEMMA SilenceRows ==
  ASSUME TypeOK, NEW w \in Workers, Silence(w), UNCHANGED status, NEW r \in Runs
  PROVE  Untouched(r) \/ Dims(r)
<1> DEFINE q == [dispatch[r] EXCEPT !.beat = IF @ = w THEN Nobody ELSE @]
<1>1. dispatch'[r] = q /\ dispatch[r] \in Dispatches
  BY DEF Silence, TypeOK
<1>2. CASE dispatch[r].beat = w
  <2>1. dispatch[r].state = "running"
    BY <1>2, Constants DEF TypeOK
  <2>2. /\ q.state = dispatch[r].state /\ q.live = dispatch[r].live
        /\ q.id = dispatch[r].id /\ q.epoch = dispatch[r].epoch
    BY <1>1 DEF Dispatches
  <2> QED BY <1>1, <2>1, <2>2 DEF Dims, SameLease
<1>3. CASE dispatch[r].beat # w
  BY <1>1, <1>3 DEF Dispatches, Untouched
<1> QED BY <1>2, <1>3

\* The gateway releases or lapses what it leased.
LEMMA ObservedRun ==
  ASSUME TypeOK, NEW c \in Claims \cup {NoClaim}, Observed(c), UNCHANGED status,
         NEW r \in Runs
  PROVE  Untouched(r) \/ Dims(r) \/ IsOffered(r)
<1>1. CASE UNCHANGED dispatch
  BY <1>1 DEF Untouched
<1>2. CASE Same(c) /\ dispatch[c.run].state \in {"leased", "running"} /\ Release(c.run)
  <2>1. c.run \in Runs
    BY <1>2 DEF Same, Claims
  <2> QED BY <1>2, <2>1, ReleaseRow DEF IsOffered, Untouched
<1>3. CASE Same(c) /\ dispatch[c.run].state \in {"leased", "running"} /\ Lapse(c.run)
  <2>1. c.run \in Runs
    BY <1>3 DEF Same, Claims
  <2> QED BY <1>3, <2>1, LapseRow DEF OnlyRun
<1> QED BY <1>1, <1>2, <1>3 DEF Observed

\* A fenced write is a step of the owner.
LEMMA OwnedEndRun ==
  ASSUME TypeOK, NEW w \in Workers, NEW from, NEW end, OwnedEnd(w, from, end),
         worker'[w] # worker[w], NEW r \in Runs
  PROVE  Untouched(r) \/ IsEnded(r)
<1>1. PICK q \in Runs : /\ q = worker[w].claim.run /\ dispatch[q].state = "running"
                        /\ End(q, end) /\ SetStatus(q, end)
  BY ClaimOfRun DEF OwnedEnd, Owns, Same
<1>2. OwnerActs(w, q)
  BY <1>1 DEF OwnedEnd, OwnerActs
<1> QED BY <1>1, <1>2, EndRow, StatusRow DEF IsEnded, Untouched

LEMMA OwnedStartRun ==
  ASSUME TypeOK, NEW w \in Workers, NEW from, OwnedStart(w, from),
         worker[w].at # "working", NEW r \in Runs
  PROVE  Untouched(r) \/ IsStarted(r)
<1>1. PICK q \in Runs : /\ q = worker[w].claim.run
                        /\ SetStatus(q, "running_workflow")
                        /\ UNCHANGED dispatch
  BY ClaimOfRun DEF OwnedStart, Owns, Same
<1>2. OwnerActs(w, q)
  BY <1>1 DEF OwnedStart, OwnerActs, Move, TypeOK, Processes
<1> QED BY <1>1, <1>2, StatusRow DEF IsStarted, Untouched

\* A process that leaves or moves on is another one than before.
LEMMA Leaves ==
  ASSUME TypeOK, NEW w \in Workers, Leave(w), worker[w].at \in Active \cup {"raised"}
  PROVE  worker'[w] # worker[w]
BY DEF Leave, TypeOK, Processes, Resting, Active

LEMMA Moves ==
  ASSUME TypeOK, NEW w \in Workers, NEW at, Move(w, at), worker[w].at # at
  PROVE  worker'[w] # worker[w]
BY DEF Move, TypeOK, Processes
-----------------------------------------------------------------------------
(* Every step is one of these.                                             *)

\* A process that claims takes the lease it was given.
LEMMA ClaimRun ==
  ASSUME StepInv, NEW w \in Workers, Claim(w), NEW r \in Runs
  PROVE  RunStep(r)
<1>1. TypeOK /\ Seated
  BY DEF StepInv, IInv
<1>2. PICK q \in Runs : q = worker[w].claim.run
  BY <1>1, Sits DEF Claim, Active
<1>3. /\ dispatch'[q].state = "running" /\ SameLease(q)
      /\ \A p \in Runs \ {q} : dispatch'[p] = dispatch[p]
  BY <1>1, <1>2 DEF Claim, TypeOK, Dispatches, SameLease
<1>4. IsClaimed(w, q)
  BY <1>2, <1>3 DEF Claim, IsClaimed
<1>5. \A p \in Runs \ {q} : status'[p] = status[p]
  BY <1>1, <1>2, StatusRow DEF Claim
<1> QED BY <1>2, <1>3, <1>4, <1>5 DEF RunStep, Untouched

\* The successor of a revised run is a row of its own.
LEMMA ReviseRun ==
  ASSUME StepInv, NEW w \in Workers, Revise(w), NEW r \in Runs
  PROVE  RunStep(r)
<1>1. TypeOK /\ Seated /\ DispatchMatchesRun
  BY DEF StepInv, IInv
<1>2. PICK q \in Runs : /\ q = worker[w].claim.run
                        /\ q + 1 \in Runs /\ q # q + 1
                        /\ status[q + 1] = "none"
  BY <1>1, Sits, Constants DEF Revise, Directive, Active
<1> DEFINE d == [NewDispatch("thread_message", 1, FALSE) EXCEPT
                   !.state = "leased", !.epoch = 1, !.live = TRUE]
<1>3. d.state = "leased"
  BY DEF NewDispatch
<1> HIDE DEF d
<1>4. dispatch' = [dispatch EXCEPT ![q] = Ended(@, "interaction_completed"),
                                   ![q + 1] = d]
  BY <1>2 DEF Revise, d
<1>5. status' = [status EXCEPT ![q] = "interaction_completed", ![q + 1] = "queued"]
  BY <1>2 DEF Revise
<1>6. CASE r = q + 1
  <2>1. dispatch[r].state = "none"
    BY <1>1, <1>2, <1>6 DEF DispatchMatchesRun
  <2>2. dispatch'[r].state = "leased"
    BY <1>1, <1>2, <1>3, <1>4, <1>6 DEF TypeOK
  <2> QED BY <1>2, <1>6, <2>1, <2>2 DEF RunStep, IsCreated
<1>7. CASE r = q
  <2>1. dispatch'[r] = Ended(dispatch[r], "interaction_completed")
    BY <1>1, <1>2, <1>4, <1>7 DEF TypeOK
  <2>2. /\ dispatch'[r].state = "terminal" /\ ~dispatch'[r].live
        /\ SameLease(r)
    BY <1>1, <2>1 DEF Ended, TypeOK, Dispatches, SameLease
  <2>3. worker'[w].at = "starting" /\ worker[w].at = "deciding"
    BY <1>1 DEF Revise, Directive, TypeOK, Processes
  <2>4. OwnerActs(w, r)
    BY <1>2, <1>7, <2>3 DEF Revise, Directive, OwnerActs
  <2>5. dispatch[r].state = "running"
    BY <1>2, <1>7 DEF Revise, Directive, Owns
  <2> QED BY <2>2, <2>4, <2>5 DEF RunStep, IsEnded
<1>8. CASE r # q /\ r # q + 1
  BY <1>1, <1>2, <1>4, <1>5, <1>8 DEF TypeOK, RunStep, Untouched
<1> QED BY <1>6, <1>7, <1>8

\* A recovery worker fails what it leased: what it claimed, or what it did not
\* come to claim.
LEMMA FailOwnedRun ==
  ASSUME StepInv, NEW w \in Workers, FailOwned(w), NEW r \in Runs
  PROVE  RunStep(r)
<1> DEFINE q == worker[w].lease.run
<1>1. TypeOK /\ DispatchMatchesRun /\ LeasesOK
  BY DEF StepInv, IInv
<1>2. CASE UNCHANGED <<status, dispatch>>
  BY <1>2 DEF RunStep, Untouched
<1>3. CASE /\ Same(worker[w].lease) /\ dispatch[q].live
           /\ dispatch[q].state \in {"leased", "running"}
           /\ End(q, "failed")
           /\ \/ UNCHANGED status
              \/ SetStatus(q, "failed") /\ status[q] \in {"queued"} \cup InWork
  <2>1. q \in Runs
    BY <1>1, <1>3 DEF Same, TypeOK, Processes, Claims
  <2>2. /\ dispatch'[q].state = "terminal" /\ ~dispatch'[q].live
        /\ SameLease(q)
        /\ \A p \in Runs \ {q} : dispatch'[p] = dispatch[p]
    BY <1>1, <1>3, <2>1, EndRow
  <2>3. \A p \in Runs \ {q} : status'[p] = status[p]
    BY <1>1, <1>3, <2>1, StatusRow
  <2>4. CASE UNCHANGED status
    BY <1>3, <2>1, <2>2, <2>3, <2>4 DEF RunStep, IsEnded, Untouched
  <2>5. CASE dispatch[q].state = "leased" /\ status[q] \in {"queued"} \cup InWork
    <3>1. status[q] = "queued"
      BY <1>1, <2>1, <2>5 DEF DispatchMatchesRun, Dispatchable, InWork
    <3> QED BY <2>1, <2>2, <2>3, <2>5, <3>1 DEF RunStep, IsEnded, Untouched
  <2>6. CASE dispatch[q].state = "running" /\ status[q] \in {"queued"} \cup InWork
    <3>1. worker[w].lease = worker[w].claim
      BY <1>1, <2>6 DEF LeasesOK, InWork, Final
    <3>2. worker'[w] # worker[w]
      BY <1>1, Leaves DEF FailOwned, Active
    <3>3. OwnerActs(w, q)
      BY <1>3, <2>6, <3>1, <3>2 DEF OwnerActs, Owns
    <3> QED BY <2>1, <2>2, <2>3, <2>6, <3>3 DEF RunStep, IsEnded, Untouched
  <2> QED BY <1>3, <2>4, <2>5, <2>6
<1> QED BY <1>2, <1>3 DEF FailOwned

LEMMA WorkRun ==
  ASSUME StepInv, NEW w \in Workers, Work(w), NEW r \in Runs
  PROVE  RunStep(r)
<1>1. TypeOK /\ Seated /\ DispatchMatchesRun
  BY DEF StepInv, IInv
<1>2. CASE UNCHANGED <<status, dispatch>>
  BY <1>2 DEF RunStep, Untouched
<1>3. CASE InteractionDone(w) \/ Cancel(w) \/ FinalizeWaiting(w)
  BY <1>1, <1>3, OwnedEndRun, Leaves
     DEF InteractionDone, Cancel, Directive, FinalizeWaiting, Active, RunStep
<1>4. CASE EntryFails(w) \/ Complete(w) \/ Fail(w)
  BY <1>1, <1>4, OwnedEndRun, Leaves, Moves
     DEF EntryFails, Complete, Fail, Active, RunStep
<1>5. CASE StartWorkflow(w) \/ Resume(w)
  BY <1>1, <1>5, OwnedStartRun DEF StartWorkflow, Resume, RunStep
<1>6. CASE Challenge(w)
  <2>1. PICK q \in Runs : q = worker[w].claim.run /\ dispatch[q].state = "running"
                          /\ End(q, "waiting_for_clarification") /\ UNCHANGED status
    BY <1>1, <1>6, Sits DEF Challenge, Directive, Owns, Active
  <2> QED BY <1>1, <2>1, EndRow DEF RunStep, IsEnded, Untouched
<1>7. CASE Raise(w) \/ ChildEnds(w)
  BY <1>1, <1>2, <1>7, SilenceRows DEF Raise, ChildEnds, RunStep
<1>8. CASE Claim(w) \/ Revise(w) \/ FailOwned(w)
  BY <1>8, ClaimRun, ReviseRun, FailOwnedRun
<1>9. CASE \/ RecordDecision(w) \/ Activate(w) \/ ReplayDecision(w) \/ Ask(w)
           \/ Settle(w) \/ Seal(w) \/ Publish(w) \/ PostSealFail(w)
  BY <1>2, <1>9 DEF RecordDecision, Activate, ReplayDecision, Ask, Settle, Seal,
     Stage, Publish, PostSealFail
<1> QED BY <1>3, <1>4, <1>5, <1>6, <1>7, <1>8, <1>9 DEF Work

LEMMA SweepRun ==
  ASSUME StepInv, NEW w \in Workers, NEW q \in Runs, Sweep(w, q), NEW r \in Runs
  PROVE  RunStep(r)
<1>1. TypeOK /\ ~dispatch[q].live
  BY DEF StepInv, IInv, Sweep
<1>2. CASE ReleaseUnclaimed(q) \/ ReleaseWaiting(q)
  BY <1>1, <1>2, ReleaseRow
     DEF ReleaseUnclaimed, ReleaseWaiting, RunStep, IsOffered, Untouched
<1>3. CASE ReleasePostAuthority(q)
  BY <1>1, <1>3, ReleaseRow, StatusRow
     DEF ReleasePostAuthority, RunStep, IsOffered, Untouched
<1>4. CASE FailExpired(q)
  BY <1>1, <1>4, EndRow, StatusRow DEF FailExpired, RunStep, IsEnded, Untouched
<1> QED BY <1>2, <1>3, <1>4 DEF Sweep

\* The summary: what a step of the system does to the row of a run.
LEMMA NextRun ==
  ASSUME StepInv, [Next]_vars, NEW r \in Runs
  PROVE  RunStep(r)
<1>1. TypeOK /\ LiveOK
  BY DEF StepInv, IInv
<1>2. CASE UNCHANGED vars
  BY <1>2 DEF vars, RunStep, Untouched
<1>3. ASSUME NEW q \in Runs, Answer(q)
      PROVE  RunStep(r)
  <2>1. /\ dispatch'[q].state = "pending" /\ ~dispatch'[q].live
        /\ dispatch'[q].id = dispatch[q].id + 1
        /\ \A p \in Runs \ {q} : dispatch'[p] = dispatch[p]
    BY <1>1, <1>3 DEF Answer, NewDispatch, TypeOK
  <2> QED BY <1>3, <2>1 DEF Answer, RunStep, Reopens, Untouched
<1>4. ASSUME NEW q \in Runs, LeaseExpires(q) \/ StartsTooLate(q)
      PROVE  RunStep(r)
  <2>1. dispatch[q].state \in {"leased", "running"}
    BY <1>1, <1>4 DEF LiveOK, LeaseExpires, StartsTooLate
  <2> QED BY <1>1, <1>4, <2>1, LapseRow
          DEF LeaseExpires, StartsTooLate, RunStep, OnlyRun
<1>5. ASSUME NEW q \in Runs, HeartbeatFails(q)
      PROVE  RunStep(r)
  <2>1. dispatch[q].state = "running" /\ status' = status
    BY <1>1, <1>5 DEF HeartbeatFails, TypeOK
  <2>2. /\ dispatch'[q].state = dispatch[q].state
        /\ dispatch'[q].live = dispatch[q].live /\ SameLease(q)
        /\ \A p \in Runs \ {q} : dispatch'[p] = dispatch[p]
    BY <1>1, <1>5 DEF HeartbeatFails, TypeOK, Dispatches, SameLease
  <2> QED BY <2>1, <2>2 DEF RunStep, Dims, Untouched
<1>6. ASSUME NEW w \in Workers, NEW q \in Runs, Lease(w, q)
      PROVE  RunStep(r)
  <2>1. /\ dispatch'[q].state = "leased"
        /\ dispatch'[q].id = dispatch[q].id
        /\ dispatch'[q].epoch = dispatch[q].epoch + 1
        /\ \A p \in Runs \ {q} : dispatch'[p] = dispatch[p]
        /\ status' = status
    BY <1>1, <1>6 DEF Lease, LeaseEpoch, TypeOK, Dispatches
  <2> QED BY <1>6, <2>1 DEF Lease, Leasable, RunStep, IsLeased, Untouched
<1>7. ASSUME NEW w \in Workers,
             ObserveExit(w) \/ StartupTimeout(w) \/ GatewayLost(w)
      PROVE  RunStep(r)
  <2>1. worker[w].lease \in Claims \cup {NoClaim}
    BY <1>1 DEF TypeOK, Processes
  <2> QED BY <1>1, <1>7, <2>1, ObservedRun
          DEF ObserveExit, StartupTimeout, GatewayLost, RunStep, Untouched
<1>8. ASSUME NEW w \in Workers, Crash(w)
      PROVE  RunStep(r)
  BY <1>1, <1>8, SilenceRows DEF Crash, RunStep
<1> QED
  BY <1>2, <1>3, <1>4, <1>5, <1>6, <1>7, <1>8, WorkRun, SweepRun DEF Next
-----------------------------------------------------------------------------
(* The invariant of the steps.                                             *)

\* The row of a run that has ended does not change any more.
LEMMA EndedRun ==
  ASSUME StepInv, NEW r \in Runs, status[r] \in Final, RunStep(r)
  PROVE  Untouched(r)
<1>1. dispatch[r].state = "terminal"
  <2>1. dispatch[r].state \in {"none", "pending", "leased", "running", "terminal"}
    BY DEF StepInv, IInv, TypeOK, Dispatches
  <2>2. dispatch[r].state \in {"pending", "leased"} => Dispatchable(r)
    BY DEF StepInv, IInv, DispatchMatchesRun
  <2>3. status[r] \notin InWork \cup {"none", "queued", "waiting_for_clarification"}
    BY DEF Final, InWork
  <2> QED BY <2>1, <2>2, <2>3 DEF Dispatchable, StepInv, IInv, DispatchMatchesRun
<1>2. status[r] # "waiting_for_clarification" /\ status[r] # "none"
  BY DEF Final
<1>3. ASSUME NEW w \in Workers, OwnerActs(w, r)
      PROVE  FALSE
  BY <1>1, <1>3 DEF OwnerActs, Owns
<1> QED
  BY <1>1, <1>2, <1>3 DEF RunStep, Dims, Reopens, IsLeased, IsClaimed, IsOffered,
     IsEnded, IsStarted, IsCreated

LEMMA LiveStep == ASSUME StepInv, [Next]_vars PROVE LiveOK'
<1> SUFFICES ASSUME NEW r \in Runs
             PROVE  dispatch'[r].live => dispatch'[r].state \in {"leased", "running"}
  BY DEF LiveOK
<1>1. dispatch[r].live => dispatch[r].state \in {"leased", "running"}
  BY DEF StepInv, LiveOK
<1>2. RunStep(r)
  BY NextRun
<1> QED
  BY <1>1, <1>2 DEF RunStep, Untouched, Dims, Reopens, IsLeased, IsClaimed, IsOffered,
     IsEnded, IsStarted, IsCreated

\* A process keeps its lease and its claim, or gives both up, or takes a new
\* lease, or revises its run.
KeepsPlace(w) ==
  \/ worker'[w].lease = worker[w].lease /\ worker'[w].claim = worker[w].claim
  \/ worker'[w].lease = worker'[w].claim

LEMMA PlaceSteps ==
  ASSUME TypeOK, NEW w \in Workers
  PROVE  /\ UNCHANGED worker => KeepsPlace(w)
         /\ \A v \in Workers : \A at : Move(v, at) => KeepsPlace(w)
         /\ \A v \in Workers : Leave(v) => KeepsPlace(w)
<1>1. UNCHANGED worker => KeepsPlace(w)
  BY DEF KeepsPlace
<1>2. \A v \in Workers : \A at : Move(v, at) => KeepsPlace(w)
  BY DEF KeepsPlace, Move, TypeOK, Processes
<1>3. \A v \in Workers : Leave(v) => KeepsPlace(w)
  BY DEF KeepsPlace, Leave, Resting, TypeOK, Processes
<1> QED BY <1>1, <1>2, <1>3

LEMMA NextPlace ==
  ASSUME TypeOK, [Next]_vars, NEW w \in Workers
  PROVE  KeepsPlace(w) \/ Revise(w)
<1>1. CASE UNCHANGED vars
  BY <1>1, PlaceSteps DEF vars
<1>2. ASSUME NEW r \in Runs, \/ Answer(r) \/ LeaseExpires(r)
                             \/ StartsTooLate(r) \/ HeartbeatFails(r)
      PROVE  KeepsPlace(w)
  BY <1>2, PlaceSteps DEF Answer, LeaseExpires, StartsTooLate, HeartbeatFails
<1>3. ASSUME NEW v \in Workers, NEW r \in Runs, Lease(v, r)
      PROVE  KeepsPlace(w)
  BY <1>3 DEF KeepsPlace, Lease, TypeOK
<1>4. ASSUME NEW v \in Workers, NEW r \in Runs, Sweep(v, r)
      PROVE  KeepsPlace(w)
  BY <1>4, PlaceSteps DEF Sweep
<1>5. ASSUME NEW v \in Workers, \/ ObserveExit(v) \/ StartupTimeout(v)
                                \/ GatewayLost(v) \/ Crash(v)
      PROVE  KeepsPlace(w)
  BY <1>5, PlaceSteps DEF ObserveExit, StartupTimeout, GatewayLost, Crash
<1>6. ASSUME NEW v \in Workers, Work(v), ~Revise(v)
      PROVE  KeepsPlace(w)
  <2>1. \/ UNCHANGED worker \/ Leave(v) \/ \E at : Move(v, at)
    BY <1>6 DEF Work, Claim, InteractionDone, StartWorkflow, EntryFails,
       RecordDecision, Activate, ReplayDecision, Cancel, Challenge, Resume,
       OwnedStart, Settle, Seal, Stage, Publish, PostSealFail, Complete, Fail, Ask,
       FinalizeWaiting, Raise, ChildEnds, FailOwned
  <2> QED BY <2>1, PlaceSteps
<1>7. ASSUME NEW v \in Workers, Revise(v), v # w
      PROVE  KeepsPlace(w)
  BY <1>7 DEF KeepsPlace, Revise, TypeOK
<1> QED BY <1>1, <1>2, <1>3, <1>4, <1>5, <1>6, <1>7 DEF Next

\* The lease of a run that has ended stays one of a run that has ended.
LEMMA LeasesStep == ASSUME StepInv, [Next]_vars PROVE LeasesOK'
<1> SUFFICES ASSUME NEW w \in Workers, worker'[w].lease # worker'[w].claim
             PROVE  worker'[w].lease # NoClaim
                    /\ status'[worker'[w].lease.run] \in Final
  BY DEF LeasesOK
<1>1. TypeOK /\ Seated /\ LeasesOK
  BY DEF StepInv, IInv
<1>2. ASSUME worker[w].lease # worker[w].claim
      PROVE  worker[w].lease # NoClaim /\ status'[worker[w].lease.run] \in Final
  <2>1. worker[w].lease # NoClaim /\ status[worker[w].lease.run] \in Final
    BY <1>1, <1>2 DEF LeasesOK
  <2>2. worker[w].lease.run \in Runs
    BY <1>1, <2>1 DEF TypeOK, Processes, Claims
  <2> QED BY <2>1, <2>2, NextRun, EndedRun DEF Untouched
<1>3. CASE worker'[w].lease = worker[w].lease /\ worker'[w].claim = worker[w].claim
  BY <1>2, <1>3
<1>4. CASE Revise(w)
  <2>1. worker'[w].lease = worker[w].lease
    BY <1>1, <1>4 DEF Revise, TypeOK, Processes
  <2>2. CASE worker[w].lease = worker[w].claim
    <3>1. PICK r \in Runs : /\ r = worker[w].claim.run /\ worker[w].claim # NoClaim
                            /\ r + 1 \in Runs /\ r # r + 1
      BY <1>1, <1>4, Sits, Constants DEF Revise, Directive, Active, Seated
    <3>2. status'[r] = "interaction_completed"
      BY <1>1, <1>4, <3>1 DEF Revise, TypeOK
    <3> QED BY <2>1, <2>2, <3>1, <3>2 DEF Final
  <2> QED BY <1>2, <2>1, <2>2
<1> QED BY <1>1, <1>3, <1>4, NextPlace DEF KeepsPlace

LEMMA StepInvInit == Init => StepInv
<1> SUFFICES ASSUME Init PROVE StepInv
  OBVIOUS
<1>1. LiveOK
  BY DEF Init, LiveOK, NewDispatch, NoDispatch
<1>2. LeasesOK
  BY DEF Init, LeasesOK, Resting
<1> QED BY <1>1, <1>2, InitIInv DEF StepInv

LEMMA StepInvNext == StepInv /\ [Next]_vars => StepInv'
BY NextIInv, LiveStep, LeasesStep DEF StepInv

LEMMA SpecStepInv == Spec => []StepInv
BY StepInvInit, StepInvNext, PTL DEF Spec
-----------------------------------------------------------------------------
(* The action properties.                                                  *)

\* The end of a run is one transaction on two rows, and the fences of every
\* later one refuse it: both rows stay as they were left.
THEOREM EndsAreFinal == Spec => EndedRunsStayEnded
<1> DEFINE Stays ==
      \A r \in Runs : status[r] \in Final => UNCHANGED <<status[r], dispatch[r]>>
<1>1. StepInv /\ [Next]_vars => [Stays]_vars
  BY NextRun, EndedRun DEF Untouched
<1> QED BY <1>1, SpecStepInv, PTL DEF Spec, EndedRunsStayEnded

\* A claim that is not the newest of its dispatch does not become it again.
LEMMA OldClaimsStayOld ==
  ASSUME StepInv, NEW w \in Workers, worker[w].claim # NoClaim, NEW r \in Runs,
         r = worker[w].claim.run, RunStep(r), ~Same(worker[w].claim)
  PROVE  \/ dispatch'[r].id # worker[w].claim.id
         \/ dispatch'[r].epoch # worker[w].claim.epoch
<1> DEFINE c == worker[w].claim
<1>1. /\ status[r] # "none"
      /\ c.id <= dispatch[r].id
      /\ c.id = dispatch[r].id => c.epoch <= dispatch[r].epoch
  BY DEF StepInv, IInv, ClaimsAreOld
<1>2. /\ dispatch[r].id \in Nat /\ dispatch[r].epoch \in Nat
      /\ c.id \in Nat /\ c.epoch \in Nat
  BY ClaimOfRun DEF StepInv, IInv, TypeOK, Dispatches, Claims
<1>3. \/ dispatch[r].id # c.id
      \/ dispatch[r].epoch # c.epoch
  BY DEF Same
<1> HIDE DEF c
<1>4. SameLease(r) => dispatch'[r].id # c.id \/ dispatch'[r].epoch # c.epoch
  BY <1>3 DEF SameLease
<1>5. Reopens(r) => dispatch'[r].id # c.id
  BY <1>1, <1>2 DEF Reopens
<1>6. IsLeased(r) => dispatch'[r].id # c.id \/ dispatch'[r].epoch # c.epoch
  BY <1>1, <1>2, <1>3 DEF IsLeased
<1>7. SameLease(r) \/ Reopens(r) \/ IsLeased(r)
  BY <1>1 DEF RunStep, Untouched, Dims, IsClaimed, IsOffered, IsEnded, IsStarted,
     IsCreated, SameLease
<1> QED BY <1>4, <1>5, <1>6, <1>7 DEF c

\* complete_run, claim_run_dispatch and the heartbeat are fenced by the epoch
\* of the lease: a process that fell behind does not catch up.
THEOREM ClaimsAreNotRegained == Spec => LostClaimsStayLost
<1> DEFINE Stays ==
      \A w \in Workers :
        /\ worker[w].claim # NoClaim /\ worker'[w].claim = worker[w].claim
        /\ worker[w].at # "starting" /\ ~Owns(w)
        => ~Owns(w)'
<1>1. StepInv /\ [Next]_vars => [Stays]_vars
  <2> SUFFICES ASSUME StepInv, [Next]_vars, NEW w \in Workers,
                      worker[w].claim # NoClaim,
                      worker'[w].claim = worker[w].claim,
                      worker[w].at # "starting", ~Owns(w), Owns(w)'
               PROVE  FALSE
    OBVIOUS
  <2>1. PICK r \in Runs : r = worker[w].claim.run
    BY ClaimOfRun DEF StepInv, IInv
  <2>2. RunStep(r)
    BY NextRun
  <2>3. /\ dispatch'[r].id = worker[w].claim.id
        /\ dispatch'[r].epoch = worker[w].claim.epoch
        /\ dispatch'[r].state = "running" /\ dispatch'[r].live
    BY <2>1 DEF Owns, Same
  <2>4. Same(worker[w].claim)
    BY <2>1, <2>2, <2>3, OldClaimsStayOld
  <2>5. dispatch[r].state # "running" \/ ~dispatch[r].live
    BY <2>1, <2>4 DEF Owns
  <2>6. PICK v \in Workers : IsClaimed(v, r)
    BY <2>2, <2>3, <2>5 DEF RunStep, Untouched, Dims, Reopens, IsLeased, IsOffered,
       IsEnded, IsStarted, IsCreated, OwnerActs, Owns
  <2>7. worker[v].claim = worker[w].claim
    <3>1. worker[v].claim \in Claims /\ worker[w].claim \in Claims
      BY <2>6, ClaimOfRun DEF IsClaimed, Same, StepInv, IInv
    <3> QED BY <2>1, <2>4, <2>6, <3>1 DEF IsClaimed, Same, Claims
  <2> QED BY <2>6, <2>7 DEF IsClaimed, StepInv, IInv, ClaimsDiffer
<1> QED BY <1>1, SpecStepInv, PTL DEF Spec, LostClaimsStayLost

\* complete_run and its fellows lock the dispatch and ask for its live lease,
\* and a sweep asks for an expired one: nobody moves a run beside its owner.
THEOREM OnlyOwnersMove == Spec => OwnersMoveTheirRun
<1> DEFINE Moved ==
      \A r \in Runs :
        /\ dispatch[r].state = "running" /\ dispatch[r].live
        /\ status'[r] # status[r]
        => \E w \in Workers :
             Owns(w) /\ worker[w].claim.run = r /\ worker'[w] # worker[w]
<1>1. StepInv /\ [Next]_vars => [Moved]_vars
  BY NextRun
  DEF RunStep, Untouched, Dims, Reopens, IsLeased, IsClaimed, IsOffered, IsEnded,
      IsStarted, IsCreated, OwnerActs
<1> QED BY <1>1, SpecStepInv, PTL DEF Spec, OwnersMoveTheirRun

\* The lifecycle of a run whose authority is sealed: it can be published, its
\* retry can be over, and a retry is scheduled by the sweep of a dispatch that
\* was claimed.
LifeStep(r) ==
  /\ life'[r].stage \in {"sealed", "published"}
  /\ life'[r].retry = "scheduled" =>
       life[r].retry = "scheduled" \/ dispatch[r].state = "running"

LEMMA LifeParts ==
  ASSUME TypeOK, NEW r \in Runs, NEW q \in Runs,
         life[r].stage \in {"sealed", "published"}
  PROVE  /\ UNCHANGED life => LifeStep(r)
         /\ \A s \in {"sealed", "published"} : SetStage(q, s) => LifeStep(r)
         /\ \A s : q # r /\ SetStage(q, s) => LifeStep(r)
         /\ \A s : s # "scheduled" /\ SetRetry(q, s) => LifeStep(r)
         /\ dispatch[q].state = "running" /\ SetRetry(q, "scheduled") => LifeStep(r)
<1>1. life \in [Runs -> LifeRows] /\ life[r] \in LifeRows /\ life[q] \in LifeRows
  BY DEF TypeOK
<1>2. ASSUME NEW s, SetStage(q, s), q # r \/ s \in {"sealed", "published"}
      PROVE  LifeStep(r)
  BY <1>1, <1>2 DEF LifeStep, SetStage, LifeRows
<1>3. ASSUME NEW s, SetRetry(q, s),
             s # "scheduled" \/ dispatch[q].state = "running"
      PROVE  LifeStep(r)
  BY <1>1, <1>3 DEF LifeStep, SetRetry, LifeRows
<1>4. UNCHANGED life => LifeStep(r)
  BY DEF LifeStep
<1> QED BY <1>2, <1>3, <1>4

LEMMA WorkLife ==
  ASSUME TypeOK, Seated, NEW w \in Workers, Work(w), NEW r \in Runs,
         life[r].stage \in {"sealed", "published"}
  PROVE  LifeStep(r)
<1>1. CASE UNCHANGED life
  BY <1>1, LifeParts
<1>2. CASE /\ worker[w].at \in Active
           /\ worker[w].claim.run \in Runs
           /\ \/ Claim(w) \/ Activate(w) \/ Cancel(w) \/ Revise(w)
              \/ Settle(w) \/ Seal(w) \/ PostSealFail(w)
  <2>1. PICK q \in Runs : q = worker[w].claim.run
    BY <1>2
  <2>2. CASE Claim(w)
    <3>1. CASE SetStage(q, "running") /\ life[q].stage = "none"
      BY <2>1, <3>1, LifeParts
    <3>2. CASE SetRetry(q, "running") \/ UNCHANGED life
      BY <2>1, <3>2, LifeParts
    <3> QED BY <2>1, <2>2, <3>1, <3>2 DEF Claim, ClaimReady
  <2>3. CASE Activate(w)
    BY <1>1, <2>1, <2>3, LifeParts DEF Activate
  <2>4. CASE Cancel(w) \/ Revise(w)
    BY <2>1, <2>4, LifeParts DEF Cancel, Revise, Directive
  <2>5. CASE Settle(w) \/ Seal(w)
    BY <2>1, <2>5, LifeParts DEF Settle, Seal, Stage
  <2>6. CASE PostSealFail(w)
    BY <2>1, <2>6, LifeParts DEF PostSealFail
  <2> QED BY <1>2, <2>2, <2>3, <2>4, <2>5, <2>6
<1>3. CASE /\ worker[w].at \in Active
           /\ worker[w].claim.run \in Runs
           /\ RecordDecision(w) \/ Ask(w) \/ Publish(w)
  <2>1. PICK q \in Runs : q = worker[w].claim.run
    BY <1>3
  <2>2. life \in [Runs -> LifeRows] /\ life[r] \in LifeRows /\ life[q] \in LifeRows
    BY DEF TypeOK
  <2>3. CASE RecordDecision(w)
    <3>1. life' = [life EXCEPT ![q].recorded = TRUE]
      BY <2>1, <2>3 DEF RecordDecision
    <3> QED BY <2>2, <3>1 DEF LifeStep, LifeRows
  <2>4. CASE Ask(w)
    <3>1. q # r /\ \A p \in Runs \ {q} : life'[p] = life[p]
      BY <2>1, <2>2, <2>4 DEF Ask
    <3> QED BY <3>1 DEF LifeStep
  <2>5. CASE Publish(w)
    <3>1. life' = [life EXCEPT ![q].stage = "published",
                               ![q].retry = IF @ = "idle" THEN "idle" ELSE "succeeded"]
      BY <2>1, <2>5 DEF Publish
    <3> QED BY <2>2, <3>1 DEF LifeStep, LifeRows
  <2> QED BY <1>3, <2>3, <2>4, <2>5
<1>4. worker[w].at \in Active => worker[w].claim.run \in Runs
  BY Sits
<1>5. \/ Claim(w) \/ Activate(w) \/ Cancel(w) \/ Revise(w) \/ Settle(w) \/ Seal(w)
      \/ PostSealFail(w) \/ RecordDecision(w) \/ Ask(w) \/ Publish(w)
      => worker[w].at \in Active
  BY DEF Claim, Activate, Cancel, Revise, Directive, Settle, Seal, Stage,
     PostSealFail, RecordDecision, Ask, Publish, Active
<1>6. \/ InteractionDone(w) \/ StartWorkflow(w) \/ EntryFails(w) \/ ReplayDecision(w)
      \/ Challenge(w) \/ Resume(w) \/ Complete(w) \/ Fail(w) \/ FinalizeWaiting(w)
      \/ Raise(w) \/ ChildEnds(w) \/ FailOwned(w)
      => UNCHANGED life
  BY DEF InteractionDone, StartWorkflow, EntryFails, ReplayDecision, Challenge,
     Resume, OwnedStart, Complete, Fail, FinalizeWaiting, Raise, ChildEnds, FailOwned
<1> QED BY <1>1, <1>2, <1>3, <1>4, <1>5, <1>6 DEF Work

LEMMA NextLife ==
  ASSUME TypeOK, Seated, [Next]_vars, NEW r \in Runs,
         life[r].stage \in {"sealed", "published"}
  PROVE  LifeStep(r)
<1>1. CASE UNCHANGED life
  BY <1>1, LifeParts
<1>2. ASSUME NEW w \in Workers, NEW q \in Runs, Sweep(w, q)
      PROVE  LifeStep(r)
  BY <1>1, <1>2, LifeParts
     DEF Sweep, ReleaseUnclaimed, ReleaseWaiting, ReleasePostAuthority, FailExpired
<1>3. ASSUME NEW q \in Runs, \/ Answer(q) \/ LeaseExpires(q)
                             \/ StartsTooLate(q) \/ HeartbeatFails(q)
      PROVE  UNCHANGED life
  BY <1>3 DEF Answer, LeaseExpires, StartsTooLate, HeartbeatFails
<1>4. ASSUME NEW w \in Workers, \/ ObserveExit(w) \/ StartupTimeout(w)
                                \/ GatewayLost(w) \/ Crash(w)
                                \/ \E q \in Runs : Lease(w, q)
      PROVE  UNCHANGED life
  BY <1>4 DEF ObserveExit, StartupTimeout, GatewayLost, Crash, Lease
<1> QED BY <1>1, <1>2, <1>3, <1>4, WorkLife DEF Next, vars

\* load_dispatched_resume asks for a scheduled retry, and only the sweep of a
\* claimed dispatch schedules one: a run that is offered, or answered, in
\* between is neither continued nor ended any more.
THEOREM LostRetriesAreLost == Spec => LostRetriesStayLost
<1> DEFINE Stays == \A r \in Runs : RetryIsLost(r) => RetryIsLost(r)'
<1>1. StepInv /\ [Next]_vars => [Stays]_vars
  <2> SUFFICES ASSUME StepInv, [Next]_vars, NEW r \in Runs, RetryIsLost(r)
               PROVE  RetryIsLost(r)'
    OBVIOUS
  <2>1. TypeOK /\ Seated /\ DispatchMatchesRun
    BY DEF StepInv, IInv
  <2>2. LifeStep(r) /\ RunStep(r)
    BY <2>1, NextLife, NextRun DEF RetryIsLost
  <2>3. life'[r].stage \in {"sealed", "published"} /\ life'[r].retry # "scheduled"
    BY <2>2 DEF LifeStep, RetryIsLost
  <2>4. ASSUME NEW w \in Workers
        PROVE  ~OwnerActs(w, r) /\ ~IsClaimed(w, r)
    <3>1. ~OwnerActs(w, r)
      BY DEF OwnerActs, Owns, RetryIsLost
    <3>2. ~ClaimReady(r) \/ ~Dispatchable(r)
      BY DEF ClaimReady, Dispatchable, RetryIsLost
    <3> QED BY <3>1, <3>2 DEF IsClaimed
  <2>5. status'[r] = status[r] /\ dispatch'[r].state # "running"
    BY <2>2, <2>4 DEF RetryIsLost, RunStep, Untouched, Dims, Reopens, IsLeased,
       IsOffered, IsEnded, IsStarted, IsCreated
  <2> QED BY <2>3, <2>5 DEF RetryIsLost
<1> QED BY <1>1, SpecStepInv, PTL DEF Spec, LostRetriesStayLost
==============================================================================
