----------------------------- MODULE FrameReview -----------------------------
(***************************************************************************)
(* How a measurement frame becomes the frame of a case: the primary agent  *)
(* proposes a candidate, an independent reviewer accepts it or raises      *)
(* objections, a replacement has to close every objection against the      *)
(* candidate before it by a change of the measurement nodes the objection  *)
(* is about, and only an accepting review admits the frame.  Corrections   *)
(* of the user come in between.                                            *)
(*                                                                         *)
(* A measurement design says something about each of its nodes.  An        *)
(* objection names the nodes it is about; the findings of the deterministic *)
(* validation become objections too, but these name identifiers, and no    *)
(* node of the design.                                                     *)
(*                                                                         *)
(* A candidate also says what it is grounded on: spans of the messages,    *)
(* identities and decisions.  Nothing asks whether these exist before the  *)
(* frame is accepted; a candidate is "grounded" if they do.                *)
(*                                                                         *)
(* Who delivers which job is left to CaseController: a proposal is one     *)
(* step here, a review two, the answer that is stored and its commit; what *)
(* cannot be applied or committed leaves the case as it is.                *)
(***************************************************************************)
EXTENDS Naturals, FiniteSets

CONSTANTS
  Nodes,          \* measurement nodes of a design
  Contents,       \* what a design may say of a node
  Unexecutable,   \* designs that validate_executable_design has findings on
  Raisable,       \* objections a reviewer may raise
  Impacts,        \* what a message may turn out to be
  MaxCandidates,  \* bound: frame candidates
  MaxMessages     \* bound: messages after the first

Designs == [Nodes -> Contents]

Objections == [blocking : BOOLEAN, affected : SUBSET Nodes]

ASSUME UnexecutableAssumption == Unexecutable \subseteq Designs
\* A blocking objection of a reviewer names something, but nothing makes it a
\* node of the design.
ASSUME RaisableAssumption == Raisable \subseteq Objections
ASSUME ImpactsAssumption == Impacts \subseteq {"QUESTION_REVISION", "CONTEXT_ONLY"}
ASSUME BoundsAssumption == MaxCandidates \in Nat /\ MaxMessages \in Nat

VARIABLES
  question,    \* number of the accepted question
  unread,      \* messages of the mailbox that are not bound yet
  messages,    \* messages that came
  phase,       \* the checkpoint of the controller
  made,        \* how many frame candidates there are
  candidates,  \* the candidates, in their order
  active,      \* the active one, 0 if there is none
  answers,     \* the durable answer of the reviewer of each candidate
  reviews,     \* the review of each candidate
  closures,    \* objection closure records
  frame        \* the candidate whose frame is accepted, 0 if there is none

vars == <<question, unread, messages, phase, made, candidates, active,
          answers, reviews, closures, frame>>

mailboxVars == <<question, unread, messages>>
-----------------------------------------------------------------------------
Numbers == 1 .. MaxCandidates

NoCandidate == [design |-> {}]

NoReview == [disposition |-> "none", objections |-> {}]

FrameCandidates ==
  [design : Designs, question : Nat, generation : Nat,
   prior : 0 .. MaxCandidates, extends : 0 .. MaxCandidates,
   addressed : SUBSET Objections, grounded : BOOLEAN]

FrameReviews ==
  [disposition : {"ACCEPT", "REVISE", "BLOCK"}, objections : SUBSET Objections]

ObjectionClosures ==
  [objection : Objections, source : Numbers, replacement : Numbers,
   changed : SUBSET Nodes]

TypeOK ==
  /\ question \in 1 .. MaxMessages + 1
  /\ unread \in 0 .. MaxMessages
  /\ messages \in 0 .. MaxMessages
  /\ phase \in {"READY_FOR_AGENT", "WAITING_FOR_MEASUREMENT_REVIEW",
                "WAITING_FOR_MESSAGE_BINDING", "BLOCKED"}
  /\ made \in 0 .. MaxCandidates
  /\ \A i \in 1 .. made : candidates[i] \in FrameCandidates
  /\ \A i \in 1 .. made : answers[i] \in FrameReviews \cup {NoReview}
  /\ \A i \in 1 .. made : reviews[i] \in FrameReviews \cup {NoReview}
  /\ active \in 0 .. made
  /\ frame \in 0 .. made
  /\ closures \subseteq ObjectionClosures

\* The first message is bound: there is a question, and nothing to measure it.
Init ==
  /\ question = 1
  /\ unread = 0
  /\ messages = 0
  /\ phase = "READY_FOR_AGENT"
  /\ made = 0
  /\ candidates = [i \in Numbers |-> NoCandidate]
  /\ active = 0
  /\ answers = [i \in Numbers |-> NoReview]
  /\ reviews = [i \in Numbers |-> NoReview]
  /\ closures = {}
  /\ frame = 0
-----------------------------------------------------------------------------
(***************************************************************************)
(* Candidates.                                                             *)
(***************************************************************************)

\* derive_changed_measurement_node_ids
Changed(before, after) == {n \in Nodes : before[n] # after[n]}

Refused(i) == reviews[i].disposition \in {"REVISE", "BLOCK"}

\* The objections that a replacement of candidate i has to address.
Required(i) == IF Refused(i) THEN reviews[i].objections ELSE {}

\* Mutant: a change anywhere closes an objection.
Evidenced_Anywhere(o, before, after) == Changed(before, after)

\* The change that closes an objection: of the nodes it is about.
Evidenced(o, before, after) == Changed(before, after) \cap o.affected

\* record_frame_candidate, record_objection_closure: a replacement of the
\* active candidate addresses exactly what its review requires, and each
\* closure record carries a change.
Replaceable(design, addressed) ==
  \/ active = 0 /\ addressed = {}
  \/ /\ active # 0
     /\ reviews[active] # NoReview
     /\ addressed = Required(active)
     /\ \A o \in addressed : Evidenced(o, candidates[active].design, design) # {}

\* Mutant: only a blocking objection needs a closure record.
Closing_Blocking(design, addressed) ==
  {[objection |-> o, source |-> active, replacement |-> made + 1,
    changed |-> Evidenced(o, candidates[active].design, design)] :
     o \in {a \in addressed : a.blocking}}

\* The closure records of a replacement.
Closing(design, addressed) ==
  {[objection |-> o, source |-> active, replacement |-> made + 1,
    changed |-> Evidenced(o, candidates[active].design, design)] :
     o \in addressed}

\* An accepted frame revision proposal of the primary agent: the candidate
\* becomes the active one, and its review is enqueued.
ProposeFrame(design, addressed, grounded) ==
  /\ phase = "READY_FOR_AGENT"
  /\ unread = 0
  /\ made < MaxCandidates
  /\ Replaceable(design, addressed)
  /\ made' = made + 1
  /\ candidates' =
       [candidates EXCEPT ![made + 1] =
          [design |-> design,
           question |-> question,
           generation |-> IF active = 0 THEN 1
                          ELSE candidates[active].generation + 1,
           prior |-> active,
           extends |-> frame,
           addressed |-> addressed,
           grounded |-> grounded]]
  /\ closures' = closures \cup Closing(design, addressed)
  /\ active' = made + 1
  /\ phase' = "WAITING_FOR_MEASUREMENT_REVIEW"
  /\ UNCHANGED <<mailboxVars, answers, reviews, frame>>
-----------------------------------------------------------------------------
(***************************************************************************)
(* Reviews.                                                                *)
(***************************************************************************)

\* FrameReviewProposal: what a reviewer may answer.
Proposal(disposition, objections) ==
  /\ disposition = "ACCEPT" => \A o \in objections : ~ o.blocking
  /\ disposition = "BLOCK" => \E o \in objections : o.blocking
  /\ disposition = "REVISE" => objections # {}

\* A deterministic finding, as an objection: it blocks, and the identifiers
\* it names are not nodes of the design.
Finding == [blocking |-> TRUE, affected |-> {}]

Findings(i) == IF candidates[i].design \in Unexecutable THEN {Finding} ELSE {}

\* The reviewer's answer is stored, to be committed or to be found by the
\* next delivery.  (One that comes after its job was superseded is not read.)
ReviewerAnswers(disposition, objections) ==
  /\ phase = "WAITING_FOR_MEASUREMENT_REVIEW"
  /\ answers[active] = NoReview
  /\ Proposal(disposition, objections)
  /\ answers' = [answers EXCEPT ![active] =
                   [disposition |-> disposition, objections |-> objections]]
  /\ UNCHANGED <<mailboxVars, phase, made, candidates, active, reviews,
                 closures, frame>>

\* The review to be recorded: findings are added, and block.
Effective(i) ==
  [disposition |-> IF Findings(i) # {} THEN "BLOCK" ELSE answers[i].disposition,
   objections |-> answers[i].objections \cup Findings(i)]

\* record_frame_review, record_frame_admission_proof: the candidate is the
\* active one of the accepted question, and has its closure records.
Recordable(i) ==
  /\ active = i
  /\ candidates[i].question = question
  /\ candidates[i].addressed =
       {c.objection : c \in {d \in closures : d.replacement = i}}

\* accept_frame: what the frame is grounded on exists, it can be executed, and
\* it extends the accepted one.
Acceptable(i) ==
  /\ candidates[i].grounded
  /\ candidates[i].design \notin Unexecutable
  /\ candidates[i].extends = frame

\* The one transaction of a review that is stored.
Committable(i) ==
  /\ answers[i] # NoReview
  /\ Recordable(i)
  /\ Effective(i).disposition = "ACCEPT" => Acceptable(i)

\* The stored review is committed; if it accepts, its frame is the frame of
\* the case.  If it cannot be committed the transaction is rolled back, and
\* the next delivery tries the same again.
CommitFrameReview ==
  LET review == Effective(active)
  IN  /\ phase = "WAITING_FOR_MEASUREMENT_REVIEW"
      /\ unread = 0
      /\ Committable(active)
      /\ reviews' = [reviews EXCEPT ![active] = review]
      /\ frame' = IF review.disposition = "ACCEPT" THEN active ELSE frame
      /\ phase' = "READY_FOR_AGENT"
      /\ UNCHANGED <<mailboxVars, made, candidates, active, answers, closures>>

\* The reviewer failed for good.
ReviewFails ==
  /\ phase = "WAITING_FOR_MEASUREMENT_REVIEW"
  /\ unread = 0
  /\ answers[active] = NoReview
  /\ phase' = "BLOCKED"
  /\ UNCHANGED <<mailboxVars, made, candidates, active, answers, reviews,
                 closures, frame>>
-----------------------------------------------------------------------------
(***************************************************************************)
(* The mailbox.                                                            *)
(***************************************************************************)

IngressMessage ==
  /\ messages < MaxMessages
  /\ messages' = messages + 1
  /\ unread' = unread + 1
  /\ UNCHANGED <<question, phase, made, candidates, active, answers, reviews,
                 closures, frame>>

\* The job the checkpoint waits for is superseded, the oldest message next.
ReconcileMailbox ==
  /\ unread > 0
  /\ phase # "WAITING_FOR_MESSAGE_BINDING"
  /\ phase' = "WAITING_FOR_MESSAGE_BINDING"
  /\ UNCHANGED <<mailboxVars, made, candidates, active, answers, reviews,
                 closures, frame>>

\* The next message is bound.
Bound ==
  /\ phase = "WAITING_FOR_MESSAGE_BINDING"
  /\ unread' = unread - 1
  /\ phase' = "READY_FOR_AGENT"
  /\ UNCHANGED <<messages, made, candidates, answers, reviews, closures>>

BindContext ==
  /\ "CONTEXT_ONLY" \in Impacts
  /\ Bound
  /\ UNCHANGED <<question, active, frame>>

\* Mutant: the frame of the old question stays accepted.
BindQuestion_KeepFrame ==
  /\ "QUESTION_REVISION" \in Impacts
  /\ Bound
  /\ active # 0 => unread = 1
  /\ question' = question + 1
  /\ active' = 0
  /\ UNCHANGED frame

\* The question is revised: the accepted frame is gone, and the active
\* candidate is superseded, under the epoch of the newest message only.
BindQuestion ==
  /\ "QUESTION_REVISION" \in Impacts
  /\ Bound
  /\ active # 0 => unread = 1
  /\ question' = question + 1
  /\ frame' = 0
  /\ active' = 0
-----------------------------------------------------------------------------
Next ==
  \/ \E design \in Designs :
       \E addressed \in SUBSET (IF active = 0 THEN {}
                                  ELSE reviews[active].objections) :
         \E grounded \in BOOLEAN : ProposeFrame(design, addressed, grounded)
  \/ \E disposition \in {"ACCEPT", "REVISE", "BLOCK"} :
       \E objections \in SUBSET Raisable :
         ReviewerAnswers(disposition, objections)
  \/ CommitFrameReview
  \/ ReviewFails
  \/ IngressMessage
  \/ ReconcileMailbox
  \/ BindContext
  \/ BindQuestion

Spec == Init /\ [][Next]_vars
-----------------------------------------------------------------------------
\* The accepted frame measures the accepted question on grounds that exist,
\* can be executed, and was accepted by a review that blocks nothing: nothing
\* that happens between proposal, review and correction lets another one in.
AcceptedFrameIsSound ==
  frame # 0 =>
    /\ candidates[frame].question = question
    /\ candidates[frame].grounded
    /\ candidates[frame].design \notin Unexecutable
    /\ reviews[frame].disposition = "ACCEPT"
    /\ \A o \in reviews[frame].objections : ~ o.blocking

\* Along the generations of a question, no objection against a refused
\* candidate is forgotten: its replacement says something else about a node
\* that the objection is about.
ObjectionsAreAnswered ==
  \A i \in 1 .. made :
    LET p == candidates[i].prior
    IN  p # 0 => /\ p < i
                 /\ candidates[i].question = candidates[p].question
                 /\ candidates[i].generation = candidates[p].generation + 1
                 /\ Refused(p) =>
                      \A o \in reviews[p].objections :
                        \E n \in o.affected :
                          candidates[i].design[n] # candidates[p].design[n]

\* A review that accepts a candidate without grounds: accept_frame refuses it.
AcceptsUngrounded(i) ==
  /\ answers[i] # NoReview
  /\ Effective(i).disposition = "ACCEPT"
  /\ ~ candidates[i].grounded

\* Whatever came in between, the candidate under review is the active one,
\* belongs to the accepted question, extends the accepted frame and has its
\* closure records: a stored review can be committed, with the one exception
\* of an acceptance that is not grounded, which is rolled back and replayed.
OnlyUngroundedReviewsReplay ==
  phase = "WAITING_FOR_MEASUREMENT_REVIEW" =>
    /\ active # 0
    /\ reviews[active] = NoReview
    /\ answers[active] # NoReview =>
         (Committable(active) <=> ~ AcceptsUngrounded(active))

\* What was proposed and what was reviewed is history: no candidate changes, a
\* review is given once, and no closure record is lost, whichever review,
\* proposal or correction comes next (record_frame_candidate,
\* record_frame_review and record_objection_closure insert, and only insert).
FrameHistoryIsFinal ==
  [][/\ \A i \in 1 .. made :
          /\ candidates'[i] = candidates[i]
          /\ reviews[i] # NoReview => reviews'[i] = reviews[i]
     /\ made' >= made
     /\ closures \subseteq closures']_vars

\* The accepted frame is exchanged in two ways only: a revised question takes
\* it away, or a younger candidate, made to extend exactly this frame and not
\* reviewed before, is accepted for the same question.
FramesSucceedEachOther ==
  [][frame' # frame =>
       \/ frame' = 0 /\ question' = question + 1
       \/ /\ frame' = active /\ frame' > frame
          /\ candidates[frame'].extends = frame
          /\ candidates[frame'].question = question /\ question' = question
          /\ reviews[frame'] = NoReview]_vars

\* The active candidate can neither be reviewed nor replaced: its review is
\* an acceptance without grounds, its reviewer's job was superseded, or an
\* objection to it names no node of the design.
CandidateIsStranded ==
  /\ active # 0
  /\ IF phase = "WAITING_FOR_MEASUREMENT_REVIEW" THEN AcceptsUngrounded(active)
     ELSE \/ reviews[active] = NoReview
          \/ \E o \in Required(active) : o.affected = {}

\* A stranded candidate stops the measurement of its question for good: no
\* candidate is made, reviewed or accepted until the question is revised.
StrandedUntilRevised ==
  [][CandidateIsStranded =>
       \/ question' = question + 1
       \/ /\ CandidateIsStranded'
          /\ UNCHANGED <<made, candidates, active, reviews, closures, frame>>]_vars
=============================================================================
