-------------------------- MODULE FrameReview_proofs --------------------------
(***************************************************************************)
(* Machine-checked facts about FrameReview, for all designs, findings and  *)
(* objections, and any number of candidates and messages.                  *)
(***************************************************************************)
EXTENDS FrameReview, TLAPS

\* The tables: what is not made yet is neither a candidate nor reviewed, and
\* an answer that accepts raises no blocking objection.
TablesOK ==
  /\ candidates \in [Numbers -> FrameCandidates \cup {NoCandidate}]
  /\ answers \in [Numbers -> FrameReviews \cup {NoReview}]
  /\ \A i \in Numbers :
       answers[i].disposition = "ACCEPT" =>
         \A o \in answers[i].objections : ~ o.blocking
  /\ reviews \in [Numbers -> FrameReviews \cup {NoReview}]
  /\ \A i \in Numbers : i > made => reviews[i] = NoReview
  /\ \A c \in closures : c.replacement <= made

\* Every question after the first came with a message that is bound.
MailboxOK ==
  /\ unread <= messages
  /\ question + unread <= messages + 1
  /\ phase = "WAITING_FOR_MESSAGE_BINDING" => unread > 0

\* The active candidate is the youngest and about the accepted question; a
\* candidate that was replaced had been reviewed before.
LineageOK ==
  /\ active # 0 => active = made /\ candidates[active].question = question
  /\ \A i \in 1 .. made :
       candidates[i].prior # 0 => reviews[candidates[i].prior] # NoReview

\* The candidate under review has none yet, is the one that a review can be
\* recorded for, and extends the accepted frame.
ReviewIsDue ==
  phase = "WAITING_FOR_MEASUREMENT_REVIEW" =>
    /\ active # 0
    /\ reviews[active] = NoReview
    /\ Recordable(active)
    /\ candidates[active].extends = frame

IInv ==
  /\ TypeOK
  /\ TablesOK
  /\ MailboxOK
  /\ LineageOK
  /\ AcceptedFrameIsSound
  /\ ObjectionsAreAnswered
  /\ ReviewIsDue
-----------------------------------------------------------------------------
LEMMA ReviewsAreRecorded == NoReview \notin FrameReviews
BY DEF NoReview, FrameReviews

\* What a number that is in use stands for.
LEMMA Known ==
  ASSUME IInv
  PROVE  /\ MaxCandidates \in Nat /\ MaxMessages \in Nat
         /\ made \in Nat /\ made <= MaxCandidates
         /\ question \in Nat /\ unread \in Nat /\ messages \in Nat
         /\ active \in Nat /\ active <= made
         /\ frame \in Nat /\ frame <= made
         /\ \A i \in 1 .. made :
              /\ i \in Numbers /\ candidates[i] \in FrameCandidates
              /\ reviews[i] \in FrameReviews \cup {NoReview}
         /\ active # 0 => active \in 1 .. made
         /\ frame # 0 => frame \in 1 .. made
BY BoundsAssumption DEF IInv, TypeOK, Numbers

\* A replacement and its predecessor, spelled out.
Answered(cands, revs, i, p) ==
  /\ p < i
  /\ cands[i].question = cands[p].question
  /\ cands[i].generation = cands[p].generation + 1
  /\ revs[p].disposition \in {"REVISE", "BLOCK"} =>
       \A o \in revs[p].objections :
         \E n \in o.affected : cands[i].design[n] # cands[p].design[n]

AllAnswered ==
  \A i \in 1 .. made :
    candidates[i].prior # 0 => Answered(candidates, reviews, i, candidates[i].prior)

LEMMA AnsweredMeaning ==
  /\ ObjectionsAreAnswered <=> AllAnswered
  /\ ObjectionsAreAnswered' <=> AllAnswered'
<1>1. ObjectionsAreAnswered <=> AllAnswered
  BY DEF ObjectionsAreAnswered, AllAnswered, Answered, Refused
<1> QED BY <1>1, PTL

LEMMA InvInit == Init => IInv
<1> SUFFICES ASSUME Init PROVE IInv
  OBVIOUS
<1>1. TypeOK
  BY BoundsAssumption DEF Init, TypeOK
<1>4. TablesOK
  <2>1. \A i \in Numbers : answers[i].disposition # "ACCEPT"
    BY DEF Init, NoReview
  <2> QED BY <2>1 DEF Init, TablesOK
<1>2. MailboxOK /\ LineageOK /\ AcceptedFrameIsSound
  BY DEF Init, MailboxOK, LineageOK, AcceptedFrameIsSound
<1>3. ObjectionsAreAnswered /\ ReviewIsDue
  BY DEF Init, ObjectionsAreAnswered, ReviewIsDue
<1> QED BY <1>1, <1>2, <1>3, <1>4 DEF IInv

\* Steps of the mailbox: candidates, reviews and closures stay, the question
\* moves on at most with everything that rests on it.
LEMMA MailboxStep ==
  ASSUME IInv, UNCHANGED <<made, candidates, answers, reviews, closures>>,
         \/ UNCHANGED <<question, active, frame>>
         \/ active' = 0 /\ frame' = 0,
         question' \in 1 .. MaxMessages + 1,
         unread' \in 0 .. MaxMessages, messages' \in 0 .. MaxMessages,
         phase' \in {"READY_FOR_AGENT", "WAITING_FOR_MEASUREMENT_REVIEW",
                     "WAITING_FOR_MESSAGE_BINDING", "BLOCKED"},
         phase' = "WAITING_FOR_MEASUREMENT_REVIEW" =>
           phase = phase' /\ UNCHANGED <<question, active, frame>>,
         MailboxOK'
  PROVE  IInv'
<1>1. TypeOK'
  BY Known DEF IInv, TypeOK
<1>2. TablesOK'
  BY DEF IInv, TablesOK
<1>3. LineageOK'
  BY DEF IInv, LineageOK
<1>4. AcceptedFrameIsSound'
  BY DEF IInv, AcceptedFrameIsSound
<1>5. ObjectionsAreAnswered'
  BY DEF IInv, ObjectionsAreAnswered, Refused
<1>6. ReviewIsDue'
  BY DEF IInv, ReviewIsDue, Recordable
<1> QED BY <1>1, <1>2, <1>3, <1>4, <1>5, <1>6 DEF IInv

LEMMA IngressMessageInv == ASSUME IInv, IngressMessage PROVE IInv'
<1>1. MailboxOK'
  BY Known DEF IInv, MailboxOK, IngressMessage
<1>2. unread' \in 0 .. MaxMessages /\ messages' \in 0 .. MaxMessages
  BY Known DEF IInv, MailboxOK, IngressMessage
<1> QED BY <1>1, <1>2, MailboxStep DEF IInv, TypeOK, IngressMessage

LEMMA ReconcileMailboxInv ==
  ASSUME IInv, ReconcileMailbox \/ ReviewFails PROVE IInv'
<1>1. MailboxOK'
  BY DEF IInv, MailboxOK, ReconcileMailbox, ReviewFails, mailboxVars
<1> QED
  BY <1>1, MailboxStep DEF IInv, TypeOK, ReconcileMailbox, ReviewFails, mailboxVars

LEMMA BindInv == ASSUME IInv, BindContext \/ BindQuestion PROVE IInv'
<1>1. /\ phase = "WAITING_FOR_MESSAGE_BINDING" /\ unread' = unread - 1
      /\ phase' = "READY_FOR_AGENT"
      /\ UNCHANGED <<messages, made, candidates, answers, reviews, closures>>
      /\ \/ UNCHANGED <<question, active, frame>>
         \/ question' = question + 1 /\ active' = 0 /\ frame' = 0
  BY DEF BindContext, BindQuestion, Bound
<1>2. /\ unread > 0 /\ unread <= messages /\ question + unread <= messages + 1
      /\ messages <= MaxMessages /\ question >= 1
  BY <1>1 DEF IInv, MailboxOK, TypeOK
<1>3. MailboxOK'
  BY <1>1, <1>2, Known DEF MailboxOK
<1>4. /\ unread' \in 0 .. MaxMessages /\ messages' \in 0 .. MaxMessages
      /\ question' \in 1 .. MaxMessages + 1
  BY <1>1, <1>2, Known
<1> QED BY <1>1, <1>3, <1>4, MailboxStep

\* A recorded candidate replaces what its predecessor was refused for.
LEMMA ProposeFrameInv ==
  ASSUME IInv, NEW design \in Designs, NEW addressed,
         NEW grounded \in BOOLEAN, ProposeFrame(design, addressed, grounded)
  PROVE  IInv'
<1> DEFINE new == made + 1
           candidate ==
             [design |-> design,
              question |-> question,
              generation |-> IF active = 0 THEN 1
                             ELSE candidates[active].generation + 1,
              prior |-> active,
              extends |-> frame,
              addressed |-> addressed,
              grounded |-> grounded]
<1>1. /\ phase' = "WAITING_FOR_MEASUREMENT_REVIEW" /\ unread = 0
      /\ made < MaxCandidates /\ Replaceable(design, addressed)
      /\ made' = new /\ active' = new
      /\ candidates' = [candidates EXCEPT ![new] = candidate]
      /\ closures' = closures \cup Closing(design, addressed)
      /\ UNCHANGED <<question, unread, messages, answers, reviews, frame>>
  BY DEF ProposeFrame, mailboxVars
<1>2. /\ new \in Numbers /\ new \in Nat /\ new # 0
      /\ TablesOK /\ MailboxOK /\ LineageOK
      /\ \A i \in 1 .. made : i # new /\ i \in Numbers
      /\ \A i \in 1 .. made' : i \in 1 .. made \/ i = new
      /\ \A i \in 1 .. made : i \in 1 .. made'
  BY <1>1, Known DEF IInv, Numbers
<1>15. \A c \in closures : /\ c.replacement \in Nat /\ c.replacement <= made
                           /\ c.replacement # new
  <2>1. \A c \in closures : c.replacement \in Nat /\ c.replacement <= made
    BY <1>2 DEF IInv, TypeOK, TablesOK, ObjectionClosures, Numbers
  <2> QED BY <2>1, Known
<1>3. /\ candidates'[new] = candidate
      /\ \A i \in 1 .. made : candidates'[i] = candidates[i]
  BY <1>1, <1>2 DEF TablesOK
<1>4. /\ addressed \subseteq Objections
      /\ active # 0 => /\ active \in 1 .. made
                       /\ reviews[active] # NoReview
                       /\ addressed = Required(active)
                       /\ \A o \in addressed :
                            Evidenced(o, candidates[active].design, design) # {}
      /\ active = 0 => addressed = {}
  BY <1>1, Known DEF Replaceable, Required, Refused, FrameReviews, NoReview
<1>5. candidate \in FrameCandidates
  BY <1>4, Known DEF FrameCandidates, Numbers
<1>6. reviews[new] = NoReview
  BY <1>2, Known DEF TablesOK
<1>7. \A c \in Closing(design, addressed) :
        /\ c \in ObjectionClosures /\ c.replacement = new
        /\ c.objection \in addressed
  <2>1. CASE active = 0
    BY <1>4, <2>1 DEF Closing
  <2>2. CASE active # 0
    BY <1>2, <1>4, <2>2, Known
    DEF Closing, ObjectionClosures, Evidenced, Changed, Objections
  <2> QED BY <2>1, <2>2
<1>8. TypeOK'
  <2>1. \A i \in 1 .. made' : /\ candidates'[i] \in FrameCandidates
                              /\ reviews'[i] \in FrameReviews \cup {NoReview}
    BY <1>1, <1>2, <1>3, <1>5, <1>6, Known
  <2>2. \A i \in 1 .. made' : answers'[i] \in FrameReviews \cup {NoReview}
    BY <1>1, <1>2 DEF TablesOK
  <2>3. closures' \subseteq ObjectionClosures
    BY <1>1, <1>7 DEF IInv, TypeOK
  <2> QED BY <1>1, <1>2, <2>1, <2>2, <2>3, Known DEF IInv, TypeOK
<1>9. TablesOK'
  <2>1. candidates' \in [Numbers -> FrameCandidates \cup {NoCandidate}]
    BY <1>1, <1>2, <1>5 DEF TablesOK
  <2>2. \A c \in closures' : c.replacement <= made'
    BY <1>1, <1>2, <1>7, <1>15, Known
  <2>3. \A i \in Numbers : i > made' => reviews'[i] = NoReview
    BY <1>1, <1>2, Known DEF TablesOK, Numbers
  <2> QED BY <1>1, <1>2, <2>1, <2>2, <2>3 DEF TablesOK
<1>10. MailboxOK'
  BY <1>1, <1>2 DEF MailboxOK
<1>11. LineageOK'
  <2>1. candidates'[new].question = question /\ candidates'[new].prior = active
    BY <1>3
  <2>2. ASSUME NEW i \in 1 .. made', candidates'[i].prior # 0
        PROVE  reviews'[candidates'[i].prior] # NoReview
    <3>1. CASE i = new
      BY <1>1, <1>4, <2>1, <2>2, <3>1
    <3>2. CASE i \in 1 .. made
      BY <1>1, <1>2, <1>3, <2>2, <3>2 DEF LineageOK
    <3> QED BY <1>2, <3>1, <3>2
  <2> QED BY <1>1, <2>1, <2>2 DEF LineageOK
<1>12. AcceptedFrameIsSound'
  BY <1>1, <1>3, Known DEF IInv, AcceptedFrameIsSound
<1>13. ObjectionsAreAnswered'
  <2>1. SUFFICES ASSUME NEW i \in 1 .. made', candidates'[i].prior # 0
                 PROVE  Answered(candidates', reviews', i, candidates'[i].prior)
    BY AnsweredMeaning DEF AllAnswered
  <2>2. CASE i \in 1 .. made
    <3>3. candidates[i] \in FrameCandidates /\ candidates'[i] = candidates[i]
      BY <1>3, <2>2, Known
    <3>1. /\ candidates[i].prior # 0 /\ candidates[i].prior < i
          /\ candidates[i].prior \in 0 .. MaxCandidates
      BY <2>1, <2>2, <3>3, AnsweredMeaning DEF AllAnswered, IInv, Answered, FrameCandidates
    <3>2. candidates[i].prior \in 1 .. made
      BY <2>2, <3>1, Known
    <3>4. Answered(candidates, reviews, i, candidates[i].prior)
      BY <2>2, <3>1, AnsweredMeaning DEF AllAnswered, IInv
    <3> QED BY <1>1, <1>3, <3>2, <3>3, <3>4 DEF Answered
  <2>3. CASE i = new
    <3>1. /\ candidates'[i] = candidate /\ candidate.prior = active /\ active # 0
          /\ active \in 1 .. made /\ candidates'[active] = candidates[active]
          /\ active < i
      BY <1>2, <1>3, <1>4, <2>1, <2>3, Known
    <3>2. candidates[active].question = question
      BY <1>2, <3>1 DEF LineageOK
    <3>3. Refused(active) =>
            \A o \in reviews[active].objections :
              \E n \in o.affected : design[n] # candidates[active].design[n]
      BY <1>4, <3>1 DEF Required, Evidenced, Changed
    <3> QED BY <1>1, <3>1, <3>2, <3>3 DEF Refused, Answered
  <2> QED BY <1>2, <2>2, <2>3
<1>14. ReviewIsDue'
  <2>1. {c.objection : c \in {d \in closures' : d.replacement = new}} = addressed
    <3>1. \A c \in closures : c.replacement # new
      BY <1>15
    <3>2. ASSUME NEW o \in addressed
          PROVE  \E c \in Closing(design, addressed) : c.objection = o
      <4> DEFINE c == [objection |-> o, source |-> active, replacement |-> made + 1,
                       changed |-> Evidenced(o, candidates[active].design, design)]
      <4>1. c \in Closing(design, addressed) /\ c.objection = o
        BY DEF Closing
      <4> QED BY <4>1
    <3> QED BY <1>1, <1>7, <3>1, <3>2
  <2>2. /\ candidates'[new].question = question /\ candidates'[new].extends = frame
        /\ candidates'[new].addressed = addressed
    BY <1>3
  <2> QED
    BY <1>1, <1>2, <1>6, <2>1, <2>2 DEF ReviewIsDue, Recordable
<1> QED
  BY <1>8, <1>9, <1>10, <1>11, <1>12, <1>13, <1>14 DEF IInv

LEMMA ReviewerAnswersInv ==
  ASSUME IInv, NEW disposition \in {"ACCEPT", "REVISE", "BLOCK"},
         NEW objections \in SUBSET Raisable,
         ReviewerAnswers(disposition, objections)
  PROVE  IInv'
<1> DEFINE answer == [disposition |-> disposition, objections |-> objections]
<1>1. /\ phase = "WAITING_FOR_MEASUREMENT_REVIEW"
      /\ Proposal(disposition, objections)
      /\ answers' = [answers EXCEPT ![active] = answer]
      /\ UNCHANGED <<question, unread, messages, phase, made, candidates, active,
                     reviews, closures, frame>>
  BY DEF ReviewerAnswers, mailboxVars
<1>2. active \in Numbers
  BY <1>1, Known DEF IInv, ReviewIsDue
<1>3. /\ answer \in FrameReviews
      /\ answer.disposition = "ACCEPT" => \A o \in answer.objections : ~ o.blocking
  BY <1>1, RaisableAssumption DEF Proposal, FrameReviews
<1> HIDE DEF answer
<1>4. /\ answers' \in [Numbers -> FrameReviews \cup {NoReview}]
      /\ \A i \in Numbers : answers'[i] = answer \/ answers'[i] = answers[i]
  BY <1>1, <1>2, <1>3 DEF IInv, TablesOK
<1>5. TypeOK'
  <2>1. \A i \in 1 .. made : answers'[i] \in FrameReviews \cup {NoReview}
    BY <1>4, Known
  <2> QED BY <1>1, <2>1 DEF IInv, TypeOK
<1>6. TablesOK'
  BY <1>1, <1>3, <1>4 DEF IInv, TablesOK
<1>7. MailboxOK' /\ LineageOK'
  BY <1>1 DEF IInv, MailboxOK, LineageOK
<1>8. AcceptedFrameIsSound' /\ ObjectionsAreAnswered' /\ ReviewIsDue'
  BY <1>1
  DEF IInv, AcceptedFrameIsSound, ObjectionsAreAnswered, Refused, ReviewIsDue,
      Recordable
<1> QED BY <1>5, <1>6, <1>7, <1>8 DEF IInv

LEMMA CommitFrameReviewInv == ASSUME IInv, CommitFrameReview PROVE IInv'
<1> DEFINE review == Effective(active)
<1>1. /\ phase = "WAITING_FOR_MEASUREMENT_REVIEW" /\ phase' = "READY_FOR_AGENT"
      /\ answers[active] # NoReview /\ Recordable(active)
      /\ review.disposition = "ACCEPT" => Acceptable(active)
      /\ reviews' = [reviews EXCEPT ![active] = review]
      /\ frame' = IF review.disposition = "ACCEPT" THEN active ELSE frame
      /\ UNCHANGED <<question, unread, messages, made, candidates, active,
                     answers, closures>>
  BY DEF CommitFrameReview, Committable, mailboxVars
<1>2. /\ active # 0 /\ active \in 1 .. made /\ reviews[active] = NoReview
      /\ active \in Numbers
  BY <1>1, Known DEF IInv, ReviewIsDue
<1>3. /\ review \in FrameReviews /\ review # NoReview
      /\ review.disposition = "ACCEPT" => \A o \in review.objections : ~ o.blocking
  <2>1. /\ answers[active] \in FrameReviews
        /\ answers[active].disposition = "ACCEPT" =>
             \A o \in answers[active].objections : ~ o.blocking
    BY <1>1, <1>2 DEF IInv, TablesOK
  <2>2. Findings(active) \subseteq Objections
    <3>1. Finding \in Objections
      BY DEF Finding, Objections
    <3> QED BY <3>1 DEF Findings
  <2>3. review \in FrameReviews
    BY <2>1, <2>2 DEF Effective, FrameReviews
  <2>4. review.disposition = "ACCEPT" => \A o \in review.objections : ~ o.blocking
    BY <2>1 DEF Effective
  <2> QED BY <2>3, <2>4, ReviewsAreRecorded
<1>4. /\ reviews' \in [Numbers -> FrameReviews \cup {NoReview}]
      /\ reviews'[active] = review
      /\ \A i \in Numbers : i # active => reviews'[i] = reviews[i]
  BY <1>1, <1>2, <1>3 DEF IInv, TablesOK
<1> HIDE DEF review
<1>5. TypeOK'
  BY <1>1, <1>2, <1>4, Known DEF IInv, TypeOK
<1>6. TablesOK'
  BY <1>1, <1>2, <1>4, Known DEF IInv, TablesOK
<1>7. MailboxOK'
  BY <1>1 DEF IInv, MailboxOK
<1>8. \A i \in 1 .. made :
        candidates[i].prior # 0 =>
          /\ candidates[i].prior # active /\ candidates[i].prior \in Numbers
          /\ reviews'[candidates[i].prior] = reviews[candidates[i].prior]
  <2>1. SUFFICES ASSUME NEW i \in 1 .. made, candidates[i].prior # 0
                 PROVE  /\ candidates[i].prior # active
                        /\ candidates[i].prior \in Numbers
    BY <1>4
  <2>2. candidates[i].prior \in Numbers
    BY <2>1, Known DEF FrameCandidates, Numbers
  <2> QED BY <1>2, <2>1, <2>2 DEF IInv, LineageOK
<1>9. LineageOK'
  BY <1>1, <1>8 DEF IInv, LineageOK
<1>10. AcceptedFrameIsSound'
  <2>1. CASE review.disposition = "ACCEPT"
    BY <1>1, <1>2, <1>3, <1>4, <2>1 DEF AcceptedFrameIsSound, Recordable, Acceptable
  <2>2. CASE review.disposition # "ACCEPT"
    <3>1. frame' = frame /\ (frame # 0 => frame # active /\ frame \in Numbers)
      BY <1>1, <1>2, <2>2, Known
      DEF IInv, AcceptedFrameIsSound, NoReview
    <3> QED BY <1>1, <1>4, <3>1 DEF IInv, AcceptedFrameIsSound
  <2> QED BY <2>1, <2>2
<1>11. ObjectionsAreAnswered'
  BY <1>1, <1>8, AnsweredMeaning DEF AllAnswered, IInv, Answered
<1>12. ReviewIsDue'
  BY <1>1 DEF ReviewIsDue
<1> QED BY <1>5, <1>6, <1>7, <1>9, <1>10, <1>11, <1>12 DEF IInv

LEMMA InvStep == IInv /\ [Next]_vars => IInv'
<1> SUFFICES ASSUME IInv, [Next]_vars PROVE IInv'
  OBVIOUS
<1>1. ASSUME NEW design \in Designs, NEW addressed,
         NEW grounded \in BOOLEAN, ProposeFrame(design, addressed, grounded)
      PROVE  IInv'
  BY <1>1, ProposeFrameInv
<1>2. ASSUME NEW disposition \in {"ACCEPT", "REVISE", "BLOCK"},
             NEW objections \in SUBSET Raisable,
             ReviewerAnswers(disposition, objections)
      PROVE  IInv'
  BY <1>2, ReviewerAnswersInv
<1>3. CASE UNCHANGED vars
  <2>1. MailboxOK'
    BY <1>3 DEF IInv, MailboxOK, vars
  <2> QED BY <1>3, <2>1, MailboxStep DEF IInv, TypeOK, vars
<1> QED
  BY <1>1, <1>2, <1>3, CommitFrameReviewInv, IngressMessageInv,
     ReconcileMailboxInv, BindInv
  DEF Next

THEOREM Invariance == Spec => []IInv
BY InvInit, InvStep, PTL DEF Spec
-----------------------------------------------------------------------------
\* The frame records of a case refer to candidates, reviews and objections
\* that there are.
THEOREM TypeCorrect == Spec => []TypeOK
<1>1. IInv => TypeOK
  BY DEF IInv
<1> QED BY <1>1, Invariance, PTL

\* accept_frame and record_frame_admission_proof: whatever the reviewer says
\* and however corrections interleave, the accepted frame is executable, was
\* accepted without a blocking objection, and is about the accepted question.
THEOREM AcceptedFramesAreSound == Spec => []AcceptedFrameIsSound
<1>1. IInv => AcceptedFrameIsSound
  BY DEF IInv
<1> QED BY <1>1, Invariance, PTL

\* record_objection_closure: a replacement answers every objection of the
\* review that refused its predecessor, by a change of a node it is about.
THEOREM ReplacementsAnswer == Spec => []ObjectionsAreAnswered
<1>1. IInv => ObjectionsAreAnswered
  BY DEF IInv
<1> QED BY <1>1, Invariance, PTL

\* record_frame_review and accept_frame: the review the checkpoint waits for is
\* one the transaction will take, unless it accepts what is not grounded.
THEOREM ReviewsCommitOrAreUngrounded == Spec => []OnlyUngroundedReviewsReplay
<1>1. IInv => OnlyUngroundedReviewsReplay
  <2> SUFFICES ASSUME IInv, phase = "WAITING_FOR_MEASUREMENT_REVIEW",
                      answers[active] # NoReview
               PROVE  Committable(active) <=> ~ AcceptsUngrounded(active)
    BY DEF OnlyUngroundedReviewsReplay, IInv, ReviewIsDue
  <2>1. Recordable(active) /\ candidates[active].extends = frame
    BY DEF IInv, ReviewIsDue
  <2>2. Effective(active).disposition = "ACCEPT" =>
          candidates[active].design \notin Unexecutable
    BY DEF Effective, Findings
  <2> QED BY <2>1, <2>2 DEF Committable, Acceptable, AcceptsUngrounded
<1> QED BY <1>1, Invariance, PTL
-----------------------------------------------------------------------------
\* The steps that neither make, review nor accept a candidate.
LEMMA QuietSteps ==
  ASSUME \/ ReviewFails \/ IngressMessage \/ ReconcileMailbox
         \/ BindContext \/ BindQuestion \/ UNCHANGED vars
  PROVE  /\ UNCHANGED <<made, candidates, answers, reviews, closures>>
         /\ \/ UNCHANGED <<question, active, frame>>
            \/ question' = question + 1 /\ active' = 0 /\ frame' = 0
         /\ \/ phase' # "WAITING_FOR_MEASUREMENT_REVIEW"
            \/ phase' = phase
<1>1. CASE ReviewFails \/ ReconcileMailbox
  BY <1>1 DEF ReviewFails, ReconcileMailbox, mailboxVars
<1>2. CASE IngressMessage
  BY <1>2 DEF IngressMessage
<1>3. CASE BindContext
  BY <1>3 DEF BindContext, Bound
<1>4. CASE BindQuestion
  BY <1>4 DEF BindQuestion, Bound
<1>5. CASE UNCHANGED vars
  BY <1>5 DEF vars
<1> QED BY <1>1, <1>2, <1>3, <1>4, <1>5

\* A proposal adds a candidate behind those that there are.
LEMMA ProposalAppends ==
  ASSUME IInv, NEW design \in Designs, NEW addressed,
         NEW grounded \in BOOLEAN, ProposeFrame(design, addressed, grounded)
  PROVE  /\ made' = made + 1
         /\ \A i \in 1 .. made : candidates'[i] = candidates[i]
         /\ closures \subseteq closures'
         /\ UNCHANGED <<question, reviews, frame>>
BY Known DEF ProposeFrame, mailboxVars, IInv, TablesOK, Numbers

\* A review is given to the active candidate, which had none, and an accepted
\* candidate is younger than the frame it extends.
LEMMA ReviewIsGivenOnce ==
  ASSUME IInv, CommitFrameReview
  PROVE  /\ active \in 1 .. made /\ active # 0 /\ reviews[active] = NoReview
         /\ candidates[active].question = question
         /\ candidates[active].extends = frame
         /\ \A i \in 1 .. made : i # active => reviews'[i] = reviews[i]
         /\ frame' = frame \/ frame' = active
         /\ UNCHANGED <<question, made, candidates, active, closures>>
<1>1. /\ phase = "WAITING_FOR_MEASUREMENT_REVIEW"
      /\ reviews' = [reviews EXCEPT ![active] = Effective(active)]
      /\ frame' = frame \/ frame' = active
      /\ UNCHANGED <<question, made, candidates, active, closures>>
  BY DEF CommitFrameReview, mailboxVars
<1>2. /\ active # 0 /\ reviews[active] = NoReview
      /\ Recordable(active) /\ candidates[active].extends = frame
  BY <1>1 DEF IInv, ReviewIsDue
<1>3. active \in 1 .. made /\ \A i \in 1 .. made : i \in Numbers
  BY <1>2, Known
<1>4. \A i \in 1 .. made : i # active => reviews'[i] = reviews[i]
  BY <1>1, <1>3 DEF IInv, TablesOK
<1> QED BY <1>1, <1>2, <1>3, <1>4 DEF Recordable

\* The insert-only records of candidates, reviews and closures: whatever the
\* order of proposals, reviews and corrections, none is rewritten or lost.
THEOREM HistoryIsFinal == Spec => FrameHistoryIsFinal
<1> DEFINE Kept ==
      /\ \A i \in 1 .. made :
           /\ candidates'[i] = candidates[i]
           /\ reviews[i] # NoReview => reviews'[i] = reviews[i]
      /\ made' >= made
      /\ closures \subseteq closures'
<1>1. IInv /\ [Next]_vars => [Kept]_vars
  <2> SUFFICES ASSUME IInv, [Next]_vars PROVE Kept
    OBVIOUS
  <2>1. ASSUME NEW design \in Designs, NEW addressed,
         NEW grounded \in BOOLEAN, ProposeFrame(design, addressed, grounded)
        PROVE  Kept
    BY <2>1, ProposalAppends, Known
  <2>2. ASSUME CommitFrameReview PROVE Kept
    BY <2>2, ReviewIsGivenOnce, Known
  <2>3. ASSUME UNCHANGED <<made, candidates, reviews, closures>>
        PROVE  Kept
    BY <2>3, Known
  <2> QED BY <2>1, <2>2, <2>3, QuietSteps DEF Next, ReviewerAnswers
<1> QED BY <1>1, Invariance, PTL DEF Spec, FrameHistoryIsFinal

\* An active candidate without a review is younger than the accepted one.
LEMMA AcceptedIsOlder ==
  ASSUME IInv, active # 0, reviews[active] = NoReview
  PROVE  frame < active
<1>1. active = made
  BY DEF IInv, LineageOK
<1>2. frame # active
  BY DEF IInv, AcceptedFrameIsSound, NoReview
<1> QED BY <1>1, <1>2, Known

\* accept_frame: frames are exchanged by an accepting review of a candidate
\* made to extend the frame in force, or taken away with their question.
THEOREM FramesSucceed == Spec => FramesSucceedEachOther
<1> DEFINE Succeeds ==
      frame' # frame =>
        \/ frame' = 0 /\ question' = question + 1
        \/ /\ frame' = active /\ frame' > frame
           /\ candidates[frame'].extends = frame
           /\ candidates[frame'].question = question /\ question' = question
           /\ reviews[frame'] = NoReview
<1>1. IInv /\ [Next]_vars => [Succeeds]_vars
  <2> SUFFICES ASSUME IInv, [Next]_vars PROVE Succeeds
    OBVIOUS
  <2>1. ASSUME NEW design \in Designs, NEW addressed,
         NEW grounded \in BOOLEAN, ProposeFrame(design, addressed, grounded)
        PROVE  Succeeds
    BY <2>1, ProposalAppends
  <2>2. ASSUME CommitFrameReview PROVE Succeeds
    BY <2>2, ReviewIsGivenOnce, AcceptedIsOlder, Known
  <2>3. ASSUME \/ UNCHANGED <<question, active, frame>>
               \/ question' = question + 1 /\ active' = 0 /\ frame' = 0
        PROVE  Succeeds
    BY <2>3
  <2> QED BY <2>1, <2>2, <2>3, QuietSteps DEF Next, ReviewerAnswers, mailboxVars
<1> QED BY <1>1, Invariance, PTL DEF Spec, FramesSucceedEachOther

\* A stranded candidate cannot be replaced.
LEMMA NoReplacement ==
  ASSUME IInv, CandidateIsStranded, phase = "READY_FOR_AGENT",
         NEW design, NEW addressed
  PROVE  ~ Replaceable(design, addressed)
BY DEF CandidateIsStranded, Replaceable, Evidenced

\* record_frame_candidate, derive_changed_measurement_node_ids, accept_frame:
\* after a finding of the validation, a review lost to a message, or one that
\* accepts what is not grounded, only a revised question lets the case measure
\* anything new.
THEOREM StrandedCandidatesStay == Spec => StrandedUntilRevised
<1> DEFINE Stays ==
      CandidateIsStranded =>
        \/ question' = question + 1
        \/ /\ CandidateIsStranded'
           /\ UNCHANGED <<made, candidates, active, reviews, closures, frame>>
<1>1. IInv /\ [Next]_vars => [Stays]_vars
  <2> SUFFICES ASSUME IInv, [Next]_vars, CandidateIsStranded PROVE Stays
    OBVIOUS
  <2>1. ASSUME NEW design \in Designs, NEW addressed,
         NEW grounded \in BOOLEAN, ProposeFrame(design, addressed, grounded)
        PROVE  FALSE
    BY <2>1, NoReplacement DEF ProposeFrame
  <2>2. ASSUME \/ CommitFrameReview
               \/ \E disposition, objections :
                    ReviewerAnswers(disposition, objections)
        PROVE  FALSE
    BY <2>2
    DEF CommitFrameReview, ReviewerAnswers, CandidateIsStranded,
        AcceptsUngrounded, Committable, Acceptable
  <2>3. ASSUME \/ ReviewFails \/ IngressMessage \/ ReconcileMailbox
               \/ BindContext \/ BindQuestion \/ UNCHANGED vars
        PROVE  Stays
    <3>1. /\ UNCHANGED <<made, candidates, answers, reviews, closures>>
          /\ \/ UNCHANGED <<question, active, frame>>
             \/ question' = question + 1
          /\ \/ phase' # "WAITING_FOR_MEASUREMENT_REVIEW"
             \/ phase' = phase
      BY <2>3, QuietSteps
    <3>2. AcceptsUngrounded(active) /\ UNCHANGED <<candidates, answers, active>> =>
            AcceptsUngrounded(active)'
      BY DEF AcceptsUngrounded, Effective, Findings
    <3>3. phase = "WAITING_FOR_MEASUREMENT_REVIEW" => reviews[active] = NoReview
      BY DEF IInv, ReviewIsDue
    <3> QED BY <3>1, <3>2, <3>3 DEF CandidateIsStranded, Required, Refused
  <2> QED BY <2>1, <2>2, <2>3 DEF Next
<1> QED BY <1>1, Invariance, PTL DEF Spec, StrandedUntilRevised
==============================================================================
