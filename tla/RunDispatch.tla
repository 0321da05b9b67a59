---------------------------- MODULE RunDispatch -----------------------------
(***************************************************************************)
(* The durable dispatch of analysis runs of the first generation of the    *)
(* product: the rows of waje_runtime.run_dispatches and analysis_runs, the *)
(* lifecycle row of a run, the gateway that starts a process for a         *)
(* clarification of the user, and the recovery workers that lease what     *)
(* nobody runs and release or fail what its owner lost.                    *)
(*                                                                         *)
(* A dispatch is leased before a process is started for it, claimed by the *)
(* process (leased -> running, with a heartbeat thread), and ended in the  *)
(* transaction that ends the run.  The lease of a worker is fenced by      *)
(* <<dispatch, epoch>>; the stages of the analysis (decision, settlement,  *)
(* seal, publication) are recorded without that fence.                     *)
(*                                                                         *)
(* A run keeps its latest dispatch: an older one is terminal for good, so  *)
(* that a worker with an older dispatch is refused everywhere.  A material *)
(* revision of run r creates run r + 1.                                    *)
(***************************************************************************)
EXTENDS Naturals, FiniteSets

CONSTANTS
  Children,    \* processes the gateway starts, one clarification each
  Recoverers,  \* long-lived recovery workers
  Nobody,      \* no heartbeat thread
  MaxRuns,     \* bound: the first run and its successors
  MaxAnswers,  \* bound: answers of the user to clarifications
  Faults,      \* the kinds of fault that happen
  MaxFaults    \* bound: faults in a behaviour

FaultKinds == {"crash", "heartbeat", "gateway", "slow"}

ASSUME RunDispatchAssumption ==
  /\ Children \cap Recoverers = {}
  /\ Nobody \notin Children \cup Recoverers
  /\ MaxRuns \in Nat \ {0}
  /\ MaxAnswers \in Nat
  /\ MaxFaults \in Nat
  /\ Faults \subseteq FaultKinds

VARIABLES
  status,    \* analysis_runs.status
  life,      \* the lifecycle of a run: its stage, its retry state, and
             \* whether the decision of the user is in the ledger
  dispatch,  \* the latest dispatch of a run
  worker,    \* where a process is, and the lease and the claim it holds
  answers,   \* how many answers the user gave
  faults     \* how many faults happened

vars == <<status, life, dispatch, worker, answers, faults>>

-----------------------------------------------------------------------------
Runs == 1..MaxRuns
Workers == Children \cup Recoverers

\* The terminal statuses of an analysis that stops at an earlier stage
\* (planned, evidence_ready, authority_sealed, narrative_ready) are
\* "completed" here.
Final == {"completed", "interaction_completed", "failed"}
InWork == {"running", "running_workflow"}
RunStatuses ==
  {"none", "queued", "waiting_for_clarification"} \cup InWork \cup Final

\* Stages of the lifecycle: no row, execution running, waiting for the user,
\* the user answered, evidence partial, evidence complete, published,
\* cancelled or superseded.
Stages == {"none", "running", "asked", "decided", "settled", "sealed",
           "published", "closed"}
RetryStates == {"idle", "scheduled", "running", "exhausted", "succeeded"}
Kinds == {"thread_message", "clarification_resolution"}

Claims == [run : Runs, id : Nat, epoch : Nat]
NoClaim == [run |-> 0, id |-> 0, epoch |-> 0]

\* Where the process of a dispatch can be when it raises.
Active == {"starting", "conversing", "deciding", "activating", "resuming",
           "working", "asking"}

\* The rows of the tables, and what a process knows.
LifeRows == [stage : Stages, retry : RetryStates, recorded : BOOLEAN]
Dispatches ==
  [kind : Kinds, id : Nat,
   state : {"none", "pending", "leased", "running", "terminal"},
   epoch : Nat, live : BOOLEAN,
   end : {"none", "waiting_for_clarification"} \cup Final,
   resumes : BOOLEAN, beat : Workers \cup {Nobody}]
Processes ==
  [at : Active \cup {"idle", "raised", "exited", "gone"},
   lease : Claims \cup {NoClaim}, claim : Claims \cup {NoClaim}]

\* A dispatch as it is inserted.  "end" is terminal_status, "resumes" says
\* whether the saved resume request is one that a claim accepts, "beat" is
\* the process whose heartbeat thread renews the lease.
NewDispatch(kind, id, resumes) ==
  [kind |-> kind, id |-> id, state |-> "pending", epoch |-> 0, live |-> FALSE,
   end |-> "none", resumes |-> resumes, beat |-> Nobody]

NoDispatch == [NewDispatch("thread_message", 0, FALSE) EXCEPT !.state = "none"]

Resting == [at |-> "idle", lease |-> NoClaim, claim |-> NoClaim]

Init ==
  /\ status = [r \in Runs |-> IF r = 1 THEN "queued" ELSE "none"]
  /\ life = [r \in Runs |->
               [stage |-> "none", retry |-> "idle", recorded |-> FALSE]]
  /\ dispatch = [r \in Runs |->
                   IF r = 1 THEN NewDispatch("thread_message", 1, FALSE)
                            ELSE NoDispatch]
  /\ worker = [w \in Workers |-> Resting]
  /\ answers = 0
  /\ faults = 0

-----------------------------------------------------------------------------
(* The fences.                                                             *)

\* What the dispatch is for is still to be done: runDispatchCanStart.
Dispatchable(r) ==
  status[r] = IF dispatch[r].kind = "thread_message"
                THEN "queued" ELSE "waiting_for_clarification"

Leasable(r) ==
  /\ \/ dispatch[r].state = "pending"
     \/ dispatch[r].state = "leased" /\ ~dispatch[r].live
  /\ Dispatchable(r)

\* The dispatch is still the one that was leased as c.
Same(c) ==
  /\ c # NoClaim
  /\ dispatch[c.run].id = c.id
  /\ dispatch[c.run].epoch = c.epoch

\* The process holds the dispatch it claimed, and its lease has not expired.
Owns(w) ==
  /\ Same(worker[w].claim)
  /\ dispatch[worker[w].claim.run].state = "running"
  /\ dispatch[worker[w].claim.run].live

\* Mutant: a claim does not look at the retry of a sealed run.
ClaimReady_AnyRetry(r) ==
  IF dispatch[r].kind = "thread_message"
    THEN life[r].stage = "none"
    ELSE dispatch[r].resumes /\ life[r].stage \in {"asked", "decided", "sealed"}

\* The lifecycle a claim accepts.
ClaimReady(r) ==
  IF dispatch[r].kind = "thread_message"
    THEN life[r].stage = "none"
    ELSE /\ dispatch[r].resumes
         /\ \/ life[r].stage \in {"asked", "decided"}
            \/ life[r].stage = "sealed" /\ life[r].retry = "scheduled"

-----------------------------------------------------------------------------
(* What the actions do to a record.                                        *)

Move(w, at) == worker' = [worker EXCEPT ![w].at = at]

\* The process is through with its dispatch.
Leave(w) ==
  worker' = [worker EXCEPT ![w] =
               IF w \in Recoverers THEN Resting ELSE [@ EXCEPT !.at = "exited"]]

SetStatus(r, s) == status' = [status EXCEPT ![r] = s]
SetStage(r, s) == life' = [life EXCEPT ![r].stage = s]
SetRetry(r, s) == life' = [life EXCEPT ![r].retry = s]

Ended(d, end) ==
  [d EXCEPT !.state = "terminal", !.live = FALSE, !.end = end, !.beat = Nobody]

Released(d) ==
  [d EXCEPT !.state = "pending", !.live = FALSE, !.beat = Nobody]

Expired(d) == [d EXCEPT !.live = FALSE, !.beat = Nobody]

End(r, end) == dispatch' = [dispatch EXCEPT ![r] = Ended(@, end)]
Release(r) == dispatch' = [dispatch EXCEPT ![r] = Released(@)]
Lapse(r) == dispatch' = [dispatch EXCEPT ![r] = Expired(@)]

\* The heartbeat threads of a process end with it.
Silence(w) ==
  dispatch' = [r \in Runs |-> [dispatch[r] EXCEPT
                 !.beat = IF @ = w THEN Nobody ELSE @]]

Fault(kind) ==
  /\ kind \in Faults
  /\ faults < MaxFaults
  /\ faults' = faults + 1

-----------------------------------------------------------------------------
(* The user and the gateway.                                               *)

\* An answer to the question of a waiting run, whose earlier dispatch has
\* ended, becomes a dispatch with the current request of the run.
Answer(r) ==
  /\ status[r] = "waiting_for_clarification"
  /\ dispatch[r].state = "terminal"
  /\ answers < MaxAnswers
  /\ dispatch' = [dispatch EXCEPT ![r] =
       NewDispatch("clarification_resolution", @.id + 1,
                   life[r].stage \in {"asked", "decided"})]
  /\ answers' = answers + 1
  /\ UNCHANGED <<status, life, worker, faults>>

\* Mutant: a lease that is taken over keeps its epoch.
LeaseEpoch_Reused(r) == IF dispatch[r].epoch = 0 THEN 1 ELSE dispatch[r].epoch

LeaseEpoch(r) == dispatch[r].epoch + 1

\* The gateway leases for the process it starts, a recovery worker for
\* itself.
Lease(w, r) ==
  /\ worker[w].at = "idle"
  /\ w \in Children => dispatch[r].kind = "clarification_resolution"
  /\ Leasable(r)
  /\ LET epoch == LeaseEpoch(r)
         c == [run |-> r, id |-> dispatch[r].id, epoch |-> epoch]
     IN /\ dispatch' = [dispatch EXCEPT ![r].state = "leased",
                                        ![r].epoch = epoch,
                                        ![r].live = TRUE]
        /\ worker' = [worker EXCEPT ![w] =
                        [at |-> "starting", lease |-> c, claim |-> c]]
  /\ UNCHANGED <<status, life, answers, faults>>

\* What the gateway does when the process it started is gone, or did not
\* acknowledge in time: a waiting run is offered again, the lease of one at
\* work lapses.
Observed(c) ==
  LET r == c.run
      held == Same(c) /\ dispatch[r].state \in {"leased", "running"}
  IN IF held /\ status[r] = "waiting_for_clarification" THEN Release(r)
     ELSE IF held /\ status[r] \in InWork THEN Lapse(r)
     ELSE UNCHANGED dispatch

ObserveExit(w) ==
  /\ worker[w].at = "exited"
  /\ Observed(worker[w].lease)
  /\ Move(w, "gone")
  /\ UNCHANGED <<status, life, answers, faults>>

StartupTimeout(w) ==
  /\ w \in Children
  /\ worker[w].at \in {"starting", "deciding"}
  /\ Fault("slow")
  /\ Observed(worker[w].lease)
  /\ UNCHANGED <<status, life, worker, answers>>

\* The gateway stops before it sees the process end.
GatewayLost(w) ==
  /\ worker[w].at = "exited"
  /\ Fault("gateway")
  /\ Move(w, "gone")
  /\ UNCHANGED <<status, life, dispatch, answers>>

-----------------------------------------------------------------------------
(* The process of a dispatch.                                              *)

\* The claim is one transaction: the fence, the lifecycle and the request
\* are read under the lock of the row.
Claim(w) ==
  LET c == worker[w].claim
      r == c.run
  IN /\ worker[w].at = "starting"
     /\ Same(c)
     /\ dispatch[r].state = "leased"
     /\ dispatch[r].live
     /\ Dispatchable(r)
     /\ ClaimReady(r)
     /\ dispatch' = [dispatch EXCEPT ![r].state = "running", ![r].beat = w]
     /\ \/ /\ dispatch[r].kind = "thread_message"
           /\ SetStatus(r, "running")
           /\ SetStage(r, "running")
           /\ Move(w, "conversing")
        \/ /\ dispatch[r].kind = "clarification_resolution"
           /\ IF life[r].stage = "sealed" THEN SetRetry(r, "running")
                                          ELSE UNCHANGED life
           /\ Move(w, "deciding")
           /\ UNCHANGED status
     /\ UNCHANGED <<answers, faults>>

\* A write of the owner: the end of the run and of its dispatch are one
\* transaction, which a worker without a live claim cannot commit.
OwnedEnd(w, from, end) ==
  LET r == worker[w].claim.run
  IN /\ Owns(w)
     /\ status[r] \in from
     /\ SetStatus(r, end)
     /\ End(r, end)
     /\ UNCHANGED <<answers, faults>>

OwnedStart(w, from) ==
  LET r == worker[w].claim.run
  IN /\ Owns(w)
     /\ status[r] = from
     /\ SetStatus(r, "running_workflow")
     /\ Move(w, "working")
     /\ UNCHANGED <<life, dispatch, answers, faults>>

\* The message needs no analysis.
InteractionDone(w) ==
  /\ worker[w].at = "conversing"
  /\ OwnedEnd(w, {"running"}, "interaction_completed")
  /\ Leave(w)
  /\ UNCHANGED life

StartWorkflow(w) ==
  /\ worker[w].at = "conversing"
  /\ OwnedStart(w, "running")

\* The understanding of the message raised: the failure is recorded, and
\* raised again.
EntryFails(w) ==
  /\ worker[w].at = "conversing"
  /\ OwnedEnd(w, {"running"}, "failed")
  /\ Move(w, "raised")
  /\ UNCHANGED life

\* The decision goes to the ledger in one commit, without the fence; the
\* lifecycle follows in another one.
RecordDecision(w) ==
  LET r == worker[w].claim.run
  IN /\ worker[w].at = "deciding"
     /\ status[r] = "waiting_for_clarification"
     /\ life' = [life EXCEPT ![r].recorded = TRUE]
     /\ Move(w, "activating")
     /\ UNCHANGED <<status, dispatch, answers, faults>>

Activate(w) ==
  LET r == worker[w].claim.run
  IN /\ worker[w].at = "activating"
     /\ IF life[r].stage = "asked" THEN SetStage(r, "decided")
                                   ELSE UNCHANGED life
     /\ Move(w, "resuming")
     /\ UNCHANGED <<status, dispatch, answers, faults>>

\* A decision that was recorded before is returned as it is: the lifecycle
\* stays.
ReplayDecision(w) ==
  LET r == worker[w].claim.run
  IN /\ worker[w].at = "deciding"
     /\ status[r] = "waiting_for_clarification"
     /\ life[r].recorded
     /\ Move(w, "resuming")
     /\ UNCHANGED <<status, life, dispatch, answers, faults>>

\* The user cancels, or asks for another analysis: recorded with the end of
\* the run in one fenced transaction.
Directive(w) ==
  /\ worker[w].at = "deciding"
  /\ Owns(w)
  /\ status[worker[w].claim.run] = "waiting_for_clarification"
  /\ life[worker[w].claim.run].stage = "asked"

Cancel(w) ==
  LET r == worker[w].claim.run
  IN /\ Directive(w)
     /\ OwnedEnd(w, {"waiting_for_clarification"}, "interaction_completed")
     /\ SetStage(r, "closed")
     /\ Leave(w)

\* The user disputes the question: the run waits as before.
Challenge(w) ==
  LET r == worker[w].claim.run
  IN /\ Directive(w)
     /\ End(r, "waiting_for_clarification")
     /\ Leave(w)
     /\ UNCHANGED <<status, life, answers, faults>>

\* The successor is created with a lease of its own, under which the same
\* process goes on.
Revise(w) ==
  LET r == worker[w].claim.run
      c == [run |-> r + 1, id |-> 1, epoch |-> 1]
  IN /\ Directive(w)
     /\ r + 1 \in Runs
     /\ status[r + 1] = "none"
     /\ status' = [status EXCEPT ![r] = "interaction_completed",
                                 ![r + 1] = "queued"]
     /\ SetStage(r, "closed")
     /\ dispatch' = [dispatch EXCEPT
          ![r] = Ended(@, "interaction_completed"),
          ![r + 1] = [NewDispatch("thread_message", 1, FALSE) EXCEPT
                        !.state = "leased", !.epoch = 1, !.live = TRUE]]
     /\ worker' = [worker EXCEPT ![w].at = "starting", ![w].claim = c]
     /\ UNCHANGED <<answers, faults>>

\* The analysis goes on after the decision, or after the seal.
Resume(w) ==
  LET r == worker[w].claim.run
  IN /\ worker[w].at = "resuming"
     /\ \/ life[r].stage \in {"asked", "decided"}
        \/ life[r].stage = "sealed" /\ life[r].retry = "running"
     /\ OwnedStart(w, "waiting_for_clarification")

\* The stages of the analysis are recorded without the fence.
Stage(w, from, to) ==
  LET r == worker[w].claim.run
  IN /\ worker[w].at = "working"
     /\ life[r].stage \in from
     /\ life[r].retry = "idle"
     /\ SetStage(r, to)
     /\ UNCHANGED <<status, dispatch, worker, answers, faults>>

Settle(w) == Stage(w, {"running", "decided"}, "settled")

Seal(w) == Stage(w, {"settled"}, "sealed")

Publish(w) ==
  LET r == worker[w].claim.run
  IN /\ worker[w].at = "working"
     /\ life[r].stage = "sealed"
     /\ life' = [life EXCEPT ![r].stage = "published",
                             ![r].retry = IF @ = "idle" THEN "idle"
                                                        ELSE "succeeded"]
     /\ UNCHANGED <<status, dispatch, worker, answers, faults>>

\* What follows the seal failed: recorded once, and not in a retry.
PostSealFail(w) ==
  LET r == worker[w].claim.run
  IN /\ worker[w].at = "working"
     /\ life[r].stage = "sealed"
     /\ life[r].retry = "idle"
     /\ SetRetry(r, "exhausted")
     /\ UNCHANGED <<status, dispatch, worker, answers, faults>>

Complete(w) ==
  LET r == worker[w].claim.run
  IN /\ worker[w].at = "working"
     /\ life[r].stage = "published" \/ life[r].retry = "exhausted"
     /\ OwnedEnd(w, {"running_workflow"}, "completed")
     /\ Leave(w)
     /\ UNCHANGED life

\* A failure the workflow reports.
Fail(w) ==
  /\ worker[w].at = "working"
  /\ OwnedEnd(w, {"running_workflow"}, "failed")
  /\ Leave(w)
  /\ UNCHANGED life

\* A question to the user: the pause is recorded without the fence, then
\* the run waits in a fenced transaction.
Ask(w) ==
  LET r == worker[w].claim.run
  IN /\ worker[w].at = "working"
     /\ life[r].stage \in {"running", "decided"}
     /\ life' = [life EXCEPT ![r].stage = "asked", ![r].recorded = FALSE]
     /\ Move(w, "asking")
     /\ UNCHANGED <<status, dispatch, answers, faults>>

FinalizeWaiting(w) ==
  /\ worker[w].at = "asking"
  /\ OwnedEnd(w, {"running_workflow"}, "waiting_for_clarification")
  /\ Leave(w)
  /\ UNCHANGED life

\* Anything may raise: a refused claim or write among others.  A process of
\* the gateway ends.
Raise(w) ==
  /\ worker[w].at \in Active
  /\ IF w \in Recoverers
       THEN Move(w, "raised") /\ UNCHANGED dispatch
       ELSE Move(w, "exited") /\ Silence(w)
  /\ UNCHANGED <<status, life, answers, faults>>

ChildEnds(w) ==
  /\ w \in Children
  /\ worker[w].at = "raised"
  /\ Move(w, "exited")
  /\ Silence(w)
  /\ UNCHANGED <<status, life, answers, faults>>

\* A recovery worker fails the dispatch it leased, if it still holds it: a
\* run that waits keeps waiting.  A heartbeat it started for another
\* dispatch goes on.
FailOwned(w) ==
  LET c == worker[w].lease
      r == c.run
      held == /\ Same(c)
              /\ dispatch[r].state \in {"leased", "running"}
              /\ dispatch[r].live
              /\ status[r] \in {"queued"} \cup InWork
                 \/ /\ dispatch[r].kind = "clarification_resolution"
                    /\ status[r] = "waiting_for_clarification"
  IN /\ w \in Recoverers
     /\ worker[w].at = "raised"
     /\ IF held
          THEN /\ End(r, "failed")
               /\ IF status[r] = "waiting_for_clarification"
                    THEN UNCHANGED status ELSE SetStatus(r, "failed")
          ELSE UNCHANGED <<status, dispatch>>
     /\ Leave(w)
     /\ UNCHANGED <<life, answers, faults>>

-----------------------------------------------------------------------------
(* Leases that nobody renews.                                              *)

\* A leased dispatch is not renewed until it is claimed, but a process that
\* starts is faster than the lease; a running one is renewed by the heartbeat
\* of its owner.
LeaseExpires(r) ==
  /\ dispatch[r].live
  /\ dispatch[r].beat = Nobody
  /\ dispatch[r].state = "leased" =>
       \A w \in Workers :
         worker[w].at \in {"starting", "raised"} =>
           worker[w].claim # [run |-> r, id |-> dispatch[r].id,
                              epoch |-> dispatch[r].epoch]
  /\ Lapse(r)
  /\ UNCHANGED <<status, life, worker, answers, faults>>

\* The process does not come to its claim in time.
StartsTooLate(r) ==
  /\ dispatch[r].live
  /\ dispatch[r].state = "leased"
  /\ Fault("slow")
  /\ Lapse(r)
  /\ UNCHANGED <<status, life, worker, answers>>

\* One failed renewal ends the heartbeat thread.
HeartbeatFails(r) ==
  /\ dispatch[r].beat # Nobody
  /\ Fault("heartbeat")
  /\ dispatch' = [dispatch EXCEPT ![r].beat = Nobody]
  /\ UNCHANGED <<status, life, worker, answers>>

Crash(w) ==
  /\ \/ worker[w].at \in Active \cup {"raised"}
     \/ \E r \in Runs : dispatch[r].beat = w
  /\ Fault("crash")
  /\ Leave(w)
  /\ Silence(w)
  /\ UNCHANGED <<status, life, answers>>

-----------------------------------------------------------------------------
(* The sweep of expired leases by a recovery worker.                       *)

\* A run that was sealed and not published goes back to waiting: its
\* dispatch carries the request to resume it.
ResumingPostAuthority(r) ==
  /\ dispatch[r].kind = "clarification_resolution"
  /\ status[r] \in InWork
  /\ dispatch[r].resumes
  /\ life[r].stage = "sealed"
  /\ life[r].retry \in {"idle", "scheduled"}

ReleaseUnclaimed(r) ==
  /\ dispatch[r].state = "leased"
  /\ Dispatchable(r)
  /\ Release(r)
  /\ UNCHANGED <<status, life>>

\* Mutant: only what is not decided yet is offered again.
ReleaseWaiting_AskedOnly(r) ==
  /\ dispatch[r].state = "running"
  /\ dispatch[r].kind = "clarification_resolution"
  /\ status[r] = "waiting_for_clarification"
  /\ life[r].stage = "asked"
  /\ Release(r)
  /\ UNCHANGED <<status, life>>

ReleaseWaiting(r) ==
  /\ dispatch[r].state = "running"
  /\ dispatch[r].kind = "clarification_resolution"
  /\ status[r] = "waiting_for_clarification"
  /\ Release(r)
  /\ UNCHANGED <<status, life>>

\* Mutant: the run is not put back.
ReleasePostAuthority_KeepsStatus(r) ==
  /\ dispatch[r].state = "running"
  /\ ResumingPostAuthority(r)
  /\ SetRetry(r, "scheduled")
  /\ Release(r)
  /\ UNCHANGED status

ReleasePostAuthority(r) ==
  /\ dispatch[r].state = "running"
  /\ ResumingPostAuthority(r)
  /\ SetStatus(r, "waiting_for_clarification")
  /\ SetRetry(r, "scheduled")
  /\ Release(r)

FailExpired(r) ==
  /\ dispatch[r].state = "running"
  /\ status[r] \in InWork
  /\ ~ResumingPostAuthority(r)
  /\ SetStatus(r, "failed")
  /\ End(r, "failed")
  /\ UNCHANGED life

Sweep(w, r) ==
  /\ w \in Recoverers
  /\ worker[w].at = "idle"
  /\ ~dispatch[r].live
  /\ \/ ReleaseUnclaimed(r)
     \/ ReleaseWaiting(r)
     \/ ReleasePostAuthority(r)
     \/ FailExpired(r)
  /\ UNCHANGED <<worker, answers, faults>>

-----------------------------------------------------------------------------
\* A step of the process of a dispatch.
Work(w) ==
  \/ Claim(w)
  \/ InteractionDone(w) \/ StartWorkflow(w) \/ EntryFails(w)
  \/ RecordDecision(w) \/ Activate(w) \/ ReplayDecision(w)
  \/ Cancel(w) \/ Challenge(w) \/ Revise(w) \/ Resume(w)
  \/ Settle(w) \/ Seal(w) \/ Publish(w) \/ PostSealFail(w)
  \/ Complete(w) \/ Fail(w) \/ Ask(w) \/ FinalizeWaiting(w)
  \/ Raise(w) \/ ChildEnds(w) \/ FailOwned(w)

Next ==
  \/ \E r \in Runs : Answer(r) \/ LeaseExpires(r)
  \/ \E r \in Runs : StartsTooLate(r) \/ HeartbeatFails(r)
  \/ \E w \in Workers, r \in Runs : Lease(w, r) \/ Sweep(w, r)
  \/ \E w \in Workers : Work(w) \/ ObserveExit(w)
  \/ \E w \in Workers : StartupTimeout(w) \/ GatewayLost(w) \/ Crash(w)

Spec == Init /\ [][Next]_vars

\* A process that runs does its next step, a recovery worker keeps polling
\* and time passes.  Nothing is asked of the user or of the gateway.
Fairness ==
  /\ \A w \in Workers : WF_vars(Work(w))
  /\ \A w \in Recoverers : WF_vars(\E r \in Runs : Lease(w, r) \/ Sweep(w, r))
  /\ \A r \in Runs : WF_vars(LeaseExpires(r))

FairSpec == Spec /\ Fairness

-----------------------------------------------------------------------------
\* The type of every variable; a heartbeat renews a live claim only.
TypeOK ==
  /\ status \in [Runs -> RunStatuses]
  /\ life \in [Runs -> LifeRows]
  /\ dispatch \in [Runs -> Dispatches]
  /\ worker \in [Workers -> Processes]
  /\ answers \in 0..MaxAnswers
  /\ faults \in 0..MaxFaults
  /\ \A r \in Runs : dispatch[r].beat # Nobody =>
       dispatch[r].state = "running" /\ dispatch[r].live

\* The run and its dispatch are two rows that many transactions write, in
\* the gateway and in the workers: a run is never in work or queued without
\* an open dispatch that somebody will pick up or sweep, an open dispatch
\* never stays behind when the run has ended, and the way it ended is the
\* way the run did.
DispatchMatchesRun ==
  \A r \in Runs :
    /\ status[r] = "none" <=> dispatch[r].state = "none"
    /\ dispatch[r].state \in {"pending", "leased"} => Dispatchable(r)
    /\ dispatch[r].state = "running" =>
         \/ status[r] \in InWork
         \/ /\ dispatch[r].kind = "clarification_resolution"
            /\ status[r] = "waiting_for_clarification"
    /\ dispatch[r].state = "terminal" =>
         \/ status[r] = dispatch[r].end
         \/ /\ dispatch[r].kind = "clarification_resolution"
            /\ dispatch[r].end = "failed"
            /\ status[r] = "waiting_for_clarification"

\* Leases are granted by the gateway and by several recovery workers, and
\* released by sweeps and by the exit of a process that may be alive: two
\* processes never both hold the claim of a run.
OneOwner ==
  \A v, w \in Workers :
    v # w /\ Owns(v) /\ Owns(w) => worker[v].claim.run # worker[w].claim.run

\* A dispatch that is offered to the workers is one that a claim accepts:
\* what a sweep or an exit releases for a retry can be resumed.
RetryCanBeClaimed ==
  \A r \in Runs : dispatch[r].state \in {"pending", "leased"} => ClaimReady(r)

\* Whatever crashes, and whoever loses its lease, the dispatches of the
\* first run are ended, with the run or back to waiting for the user.
DispatchEnds ==
  dispatch[1].state \in {"pending", "leased", "running"}
    ~> dispatch[1].state = "terminal"

\* A run that has ended stays as it is, row and dispatch: processes that
\* outlived their lease, sweeps, the gateway and late answers come too late.
EndedRunsStayEnded ==
  [][\A r \in Runs : status[r] \in Final =>
       UNCHANGED <<status[r], dispatch[r]>>]_vars

\* The steps of the claim: a process that lost the dispatch it claimed, to an
\* expiry, a sweep, a release of the gateway or a successor, or that stopped
\* before it claimed it, never owns it under the same claim again.
LostClaimsStayLost ==
  [][\A w \in Workers :
       /\ worker[w].claim # NoClaim /\ worker'[w].claim = worker[w].claim
       /\ worker[w].at # "starting" /\ ~Owns(w)
       => ~Owns(w)']_vars

\* While the lease of a claimed dispatch is live, the status of its run is
\* moved by the one process that owns it: by no sweep, no other worker that
\* fails what it leased, and no reaction of the gateway.
OwnersMoveTheirRun ==
  [][\A r \in Runs :
       /\ dispatch[r].state = "running" /\ dispatch[r].live
       /\ status'[r] # status[r]
       => \E w \in Workers :
            Owns(w) /\ worker[w].claim.run = r /\ worker'[w] # worker[w]]_vars

\* A run that waits although its authority is sealed, with no retry scheduled
\* and no process that claimed its dispatch.
RetryIsLost(r) ==
  /\ status[r] = "waiting_for_clarification"
  /\ life[r].stage \in {"sealed", "published"}
  /\ life[r].retry # "scheduled"
  /\ dispatch[r].state # "running"

\* A lost retry is lost for good: nothing that the user, the gateway, the
\* workers or their sweeps do ever gets the run on, or ends it.
LostRetriesStayLost ==
  [][\A r \in Runs : RetryIsLost(r) => RetryIsLost(r)']_vars
==============================================================================
