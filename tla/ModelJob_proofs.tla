--------------------------- MODULE ModelJob_proofs ---------------------------
(***************************************************************************)
(* Machine-checked facts about ModelJob, for any workers, provider setting *)
(* and number of faults.                                                   *)
(***************************************************************************)
EXTENDS ModelJob, TLAPS

Wrote(w, a, how) == receipt[a] = [by |-> w, disposition |-> how]

\* The durable result belongs to the successful receipt.
ResultIsBacked ==
  result # "nobody" => \E a \in Attempts : Wrote(result, a, "succeeded")

\* A delivery knows the history: the attempts before its own failed under its
\* own hand, and what it was answered is on record.  When another delivery
\* settled the failure of the job, it is at most at its first attempt.
DeliveryMatches(w) ==
  LET k == worker[w].attempt
  IN  /\ worker[w].at \in {"attempting", "posted"} =>
           /\ \A b \in Attempts : b < k => Wrote(w, b, "retryable_failure")
           /\ disposition = "TERMINAL_FAILURE" => k = 1
      /\ worker[w].at = "receipted" => Wrote(w, k, "succeeded")

\* The traces of this job in the buffer of a thread are the whole history: the
\* last of them is the last receipt, and that thread wrote it.
TracesMatch(w) ==
  LET k == traces[w].upTo
  IN  traces[w].of = "this" =>
        /\ receipt[k] # NoReceipt /\ receipt[k].by \in {w, "past"}
        /\ receipt[k].disposition = traces[w].last
        /\ traces[w].last = "retryable_failure" => k = MaxAttempts

HistoryInv == ReceiptChain /\ OneDeliveryPerChain /\ ResultIsBacked

IInv ==
  /\ TypeOK
  /\ HistoryInv
  /\ \A w \in Workers : DeliveryMatches(w) /\ TracesMatch(w)
  /\ AnswerIsDurable
  /\ VerdictMatchesHistory
-----------------------------------------------------------------------------
LEMMA AttemptsAreNatural ==
  /\ Attempts \subseteq Nat /\ 1 \in Attempts
  /\ \A a \in Attempts : a >= 1 /\ a <= MaxAttempts
  /\ \A a \in Attempts : a < MaxAttempts => a + 1 \in Attempts
BY MaxAttemptsAssumption DEF Attempts

\* No author writes an empty receipt.
LEMMA WrittenIsNotEmpty ==
  ASSUME NEW w, NEW how \in ProviderAttemptDisposition
  PROVE  [by |-> w, disposition |-> how] # NoReceipt
BY DEF ProviderAttemptDisposition, NoReceipt

LEMMA InvInit == Init => IInv
<1> SUFFICES ASSUME Init PROVE IInv
  OBVIOUS
<1>1. TypeOK
  BY AttemptsAreNatural, MaxAttemptsAssumption, MaxFaultsAssumption
  DEF Init, TypeOK, Receipts, Deliveries, Idle, Steps, NoTraces, Traces, Failures
<1>2. HistoryInv
  BY DEF Init, HistoryInv, ReceiptChain, OneDeliveryPerChain, ResultIsBacked
<1>3. \A w \in Workers : worker[w].at = "idle"
  BY DEF Init, Idle
<1>4. /\ \A w \in Workers : DeliveryMatches(w) /\ TracesMatch(w)
      /\ AnswerIsDurable
      /\ VerdictMatchesHistory
  BY <1>3 DEF DeliveryMatches, TracesMatch, NoTraces, AnswerIsDurable,
              VerdictMatchesHistory, Init
<1> QED BY <1>1, <1>2, <1>4 DEF IInv

\* No buffer gets traces of this job.
ForgetsOnly ==
  \A v \in Workers : traces'[v] = traces[v] \/ traces'[v].of # "this"

\* The buffers after a step.
LEMMA Buffers ==
  ASSUME TypeOK, NEW w \in Workers
  PROVE  /\ TakeTraces(w) => traces' \in [Workers -> Traces] /\ ForgetsOnly
         /\ UNCHANGED traces => traces' \in [Workers -> Traces] /\ ForgetsOnly
         /\ \A of \in {"nothing", "this", "another"}, a \in Attempts, how \in Failures :
              Keep(w, of, a, how) =>
                /\ traces' \in [Workers -> Traces]
                /\ traces'[w] = [of |-> of, upTo |-> a, last |-> how]
                /\ \A v \in Workers \ {w} : traces'[v] = traces[v]
<1>1. traces \in [Workers -> Traces]
  BY DEF TypeOK
<1>2. NoTraces \in Traces /\ NoTraces.of = "nothing"
  BY AttemptsAreNatural DEF NoTraces, Traces, Failures
<1>3. TakeTraces(w) => traces' \in [Workers -> Traces] /\ ForgetsOnly
  BY <1>1, <1>2 DEF TakeTraces, ForgetsOnly
<1>4. ASSUME NEW of \in {"nothing", "this", "another"}, NEW a \in Attempts,
             NEW how \in Failures, Keep(w, of, a, how)
      PROVE  /\ traces' \in [Workers -> Traces]
             /\ traces'[w] = [of |-> of, upTo |-> a, last |-> how]
             /\ \A v \in Workers \ {w} : traces'[v] = traces[v]
  <2>1. [of |-> of, upTo |-> a, last |-> how] \in Traces
    BY DEF Traces
  <2> QED BY <1>1, <1>4, <2>1 DEF Keep
<1> QED BY <1>1, <1>3, <1>4 DEF ForgetsOnly

\* A step of one delivery that records neither receipt nor result.
LEMMA QuietStep ==
  ASSUME IInv, NEW w \in Workers, TypeOK', UNCHANGED <<receipt, result>>,
         \A v \in Workers \ {w} : worker'[v] = worker[v],
         DeliveryMatches(w)', VerdictMatchesHistory', ForgetsOnly,
         worker'[w].at = "answered" =>
           result # "nobody" /\ worker'[w].answer = "stored",
         disposition' = "TERMINAL_FAILURE" => disposition = "TERMINAL_FAILURE"
  PROVE  IInv'
<1>1. HistoryInv'
  BY DEF IInv, HistoryInv, ReceiptChain, OneDeliveryPerChain, ResultIsBacked, Wrote
<1>2. ASSUME NEW v \in Workers PROVE DeliveryMatches(v)'
  <2>1. CASE worker'[v] = worker[v]
    BY <2>1 DEF IInv, DeliveryMatches, Wrote
  <2>2. CASE v = w
    BY <2>2
  <2> QED BY <2>1, <2>2
<1>3. AnswerIsDurable'
  <2>1. SUFFICES ASSUME NEW v \in Workers, worker'[v].at = "answered"
                 PROVE  /\ result # "nobody"
                        /\ worker'[v].answer = "own" => result = v
                        /\ \E a \in Attempts :
                             receipt[a] = [by |-> result, disposition |-> "succeeded"]
    BY DEF AnswerIsDurable
  <2>2. CASE v # w
    BY <2>1, <2>2 DEF IInv, AnswerIsDurable
  <2>3. CASE v = w
    BY <2>1, <2>3 DEF IInv, HistoryInv, ResultIsBacked, Wrote
  <2> QED BY <2>2, <2>3
<1>4. ASSUME NEW v \in Workers PROVE TracesMatch(v)'
  BY DEF IInv, TracesMatch, ForgetsOnly
<1> QED BY <1>1, <1>2, <1>3, <1>4 DEF IInv

\* A receipt of w after failed attempts of its own: before it, only those;
\* after it, nothing.
LEMMA ReceiptEffect ==
  ASSUME IInv, NEW w \in Workers, NEW k \in Attempts,
         NEW how \in ProviderAttemptDisposition,
         receipt[k] = NoReceipt,
         \A b \in Attempts : b < k => Wrote(w, b, "retryable_failure"),
         receipt' = [receipt EXCEPT ![k] = [by |-> w, disposition |-> how]],
         disposition' = disposition
  PROVE  /\ receipt' \in [Attempts -> Receipts]
         /\ receipt'[k] = [by |-> w, disposition |-> how]
         /\ \A a \in Attempts : a # k => receipt'[a] = receipt[a]
         /\ \A a \in Attempts : receipt[a] # NoReceipt => receipt'[a] = receipt[a]
         /\ \A a \in Attempts : a > k => receipt[a] = NoReceipt
         /\ ReceiptChain' /\ OneDeliveryPerChain'
         /\ \A v \in Workers : worker'[v] = worker[v] => DeliveryMatches(v)'
         /\ \A v \in Workers : traces'[v] = traces[v] => TracesMatch(v)'
<1>1. receipt \in [Attempts -> Receipts] /\ ReceiptChain /\ OneDeliveryPerChain
  BY DEF IInv, TypeOK, HistoryInv
<1>2. /\ receipt'[k] = [by |-> w, disposition |-> how]
      /\ \A a \in Attempts : a # k => receipt'[a] = receipt[a]
      /\ receipt' \in [Attempts -> Receipts]
  BY <1>1 DEF Receipts, Authors
<1>3. \A a \in Attempts : a > k => receipt[a] = NoReceipt
  BY <1>1, AttemptsAreNatural DEF ReceiptChain, NoReceipt
<1>4. ReceiptChain'
  <2>1. SUFFICES ASSUME NEW a \in Attempts, NEW b \in Attempts, b < a,
                        receipt'[a] # NoReceipt
                 PROVE  receipt'[b].disposition = "retryable_failure"
    BY DEF ReceiptChain
  <2>2. a <= k
    BY <1>2, <1>3, <2>1, AttemptsAreNatural
  <2>3. b < k /\ b # k
    BY <2>1, <2>2, AttemptsAreNatural
  <2> QED BY <1>2, <2>3 DEF Wrote
<1>5. OneDeliveryPerChain'
  <2>1. \A a \in Attempts : receipt'[a] # NoReceipt => receipt'[a].by = w
    BY <1>2, <1>3, AttemptsAreNatural DEF Wrote
  <2> QED BY <2>1 DEF OneDeliveryPerChain
<1>6. ASSUME NEW v \in Workers, worker'[v] = worker[v] PROVE DeliveryMatches(v)'
  <2>1. ASSUME NEW a \in Attempts, NEW status \in ProviderAttemptDisposition,
               Wrote(v, a, status)
        PROVE  Wrote(v, a, status)'
    BY <1>2, <2>1, WrittenIsNotEmpty DEF Wrote
  <2>2. DeliveryMatches(v) /\ worker[v] \in Deliveries
    BY DEF IInv, TypeOK
  <2> QED
    BY <1>6, <2>1, <2>2 DEF DeliveryMatches, Deliveries, ProviderAttemptDisposition
<1>7. \A a \in Attempts : receipt[a] # NoReceipt => receipt'[a] = receipt[a]
  BY <1>2
<1>8. ASSUME NEW v \in Workers, traces'[v] = traces[v] PROVE TracesMatch(v)'
  BY <1>7, <1>8 DEF IInv, TypeOK, Traces, TracesMatch
<1> QED BY <1>2, <1>3, <1>4, <1>5, <1>6, <1>7, <1>8

\* The deliveries a worker may be in after a step.
LEMMA Delivery ==
  ASSUME TypeOK, NEW w \in Workers
  PROVE  /\ Idle \in Deliveries
         /\ \A step \in Steps, v \in Workers :
              MoveTo(w, step) =>
                /\ worker' \in [Workers -> Deliveries]
                /\ worker'[w] = [worker[w] EXCEPT !.at = step]
                /\ worker'[w].at = step /\ worker'[w].answer = worker[w].answer
                /\ worker'[w].attempt = worker[w].attempt
                /\ v # w => worker'[v] = worker[v]
<1>1. Idle \in Deliveries
  BY AttemptsAreNatural DEF Idle, Deliveries, Steps
<1>2. worker \in [Workers -> Deliveries]
  BY DEF TypeOK
<1>3. \A step \in Steps : [worker[w] EXCEPT !.at = step] \in Deliveries
  BY <1>2 DEF Deliveries
<1> QED BY <1>1, <1>2, <1>3 DEF MoveTo, Deliveries

\* A delivery that wrote a receipt goes on; nothing else happens.
LEMMA ReceiptStep ==
  ASSUME IInv, NEW w \in Workers, NEW how \in ProviderAttemptDisposition,
         worker[w].at = "posted", Receipt(w, how),
         worker' \in [Workers -> Deliveries], traces' \in [Workers -> Traces],
         \A v \in Workers \ {w} : worker'[v] = worker[v] /\ traces'[v] = traces[v],
         DeliveryMatches(w)', traces'[w] = traces[w] \/ TracesMatch(w)',
         worker'[w].at # "answered",
         UNCHANGED <<holder, requested, result, disposition, faults>>
  PROVE  IInv'
<1> DEFINE k == worker[w].attempt
<1>1. /\ k \in Attempts /\ receipt[k] = NoReceipt
      /\ \A b \in Attempts : b < k => Wrote(w, b, "retryable_failure")
      /\ receipt' = [receipt EXCEPT ![k] = [by |-> w, disposition |-> how]]
  BY DEF IInv, TypeOK, Deliveries, DeliveryMatches, Receipt
<1>2. /\ receipt' \in [Attempts -> Receipts]
      /\ receipt'[k] = [by |-> w, disposition |-> how]
      /\ \A a \in Attempts : a # k => receipt'[a] = receipt[a]
      /\ \A a \in Attempts : receipt[a] # NoReceipt => receipt'[a] = receipt[a]
      /\ ReceiptChain' /\ OneDeliveryPerChain'
      /\ \A v \in Workers : worker'[v] = worker[v] => DeliveryMatches(v)'
      /\ \A v \in Workers : traces'[v] = traces[v] => TracesMatch(v)'
  BY <1>1, ReceiptEffect
<1>3. TypeOK'
  BY <1>2 DEF IInv, TypeOK
<1>4. \A a \in Attempts :
        Wrote(result, a, "succeeded") =>
          receipt'[a] = [by |-> result, disposition |-> "succeeded"]
  BY <1>2, WrittenIsNotEmpty DEF Wrote, ProviderAttemptDisposition
<1>5. HistoryInv'
  BY <1>2, <1>4 DEF IInv, HistoryInv, ResultIsBacked, Wrote
<1>6. AnswerIsDurable'
  BY <1>4 DEF IInv, AnswerIsDurable, Wrote
<1>7. VerdictMatchesHistory'
  <2>1. CASE disposition = "TERMINAL_FAILURE"
    <3>1. PICK a \in Attempts : receipt[a] # NoReceipt
      BY <2>1 DEF IInv, VerdictMatchesHistory
    <3>2. k = 1
      BY <2>1 DEF IInv, DeliveryMatches
    <3>3. a > k
      BY <1>1, <3>1, <3>2, AttemptsAreNatural
    <3>4. receipt[k].disposition = "retryable_failure"
      BY <1>1, <3>1, <3>3 DEF IInv, HistoryInv, ReceiptChain
    <3> QED BY <1>1, <3>4 DEF NoReceipt
  <2>2. CASE disposition # "TERMINAL_FAILURE"
    BY <2>2 DEF IInv, VerdictMatchesHistory
  <2> QED BY <2>1, <2>2
<1> QED BY <1>2, <1>3, <1>5, <1>6, <1>7 DEF IInv

LEMMA AnswerSteps ==
  ASSUME IInv, NEW w \in Workers,
         AnswerSucceeds(w) \/ AnswerIsTransient(w) \/ AnswerDoesNotDecode(w)
  PROVE  IInv'
<1> DEFINE k == worker[w].attempt
<1>1. /\ worker \in [Workers -> Deliveries] /\ k \in Attempts /\ TypeOK
      /\ worker[w].at = "posted" /\ DeliveryMatches(w)
      /\ \A b \in Attempts : b < k => Wrote(w, b, "retryable_failure")
      /\ disposition = "TERMINAL_FAILURE" => k = 1
      /\ receipt \in [Attempts -> Receipts] /\ traces \in [Workers -> Traces]
  BY DEF IInv, TypeOK, Deliveries, DeliveryMatches, AnswerSucceeds,
         AnswerIsTransient, AnswerDoesNotDecode
<1>2. CASE AnswerSucceeds(w)
  <2>1. /\ Receipt(w, "succeeded") /\ MoveTo(w, "receipted")
        /\ UNCHANGED <<holder, requested, result, disposition, traces, faults>>
    BY <1>2 DEF AnswerSucceeds
  <2>2. /\ worker' \in [Workers -> Deliveries]
        /\ worker'[w].at = "receipted" /\ worker'[w].attempt = k
        /\ \A v \in Workers \ {w} : worker'[v] = worker[v]
    BY <1>1, <2>1, Delivery DEF Steps
  <2>3. receipt'[k] = [by |-> w, disposition |-> "succeeded"]
    BY <1>1, <2>1 DEF Receipt, Wrote
  <2>4. DeliveryMatches(w)'
    BY <2>2, <2>3 DEF DeliveryMatches, Wrote
  <2> QED
    BY <1>1, <2>1, <2>2, <2>4, ReceiptStep DEF ProviderAttemptDisposition
<1>3. CASE AnswerIsTransient(w)
  <2>1. /\ Receipt(w, "retryable_failure")
        /\ UNCHANGED <<holder, requested, result, disposition, faults>>
        /\ worker' = [worker EXCEPT ![w] =
                       IF RetryAfter(w)
                       THEN [worker[w] EXCEPT !.at = "attempting", !.attempt = k + 1]
                       ELSE [worker[w] EXCEPT !.at = "failed"]]
        /\ IF RetryAfter(w) THEN UNCHANGED traces
           ELSE Keep(w, "this", k, "retryable_failure")
    BY <1>1, <1>3 DEF AnswerIsTransient, Deliveries
  <2>2. receipt'[k] = [by |-> w, disposition |-> "retryable_failure"]
    BY <1>1, <2>1 DEF Receipt, Wrote
  <2>3. \A b \in Attempts : b < k =>
          receipt'[b] = [by |-> w, disposition |-> "retryable_failure"]
    BY <1>1, <2>1, AttemptsAreNatural DEF Receipt, Wrote
  <2>4. CASE RetryAfter(w)
    <3>1. /\ worker' = [worker EXCEPT ![w] =
                         [worker[w] EXCEPT !.at = "attempting", !.attempt = k + 1]]
          /\ k + 1 \in Attempts
      BY <1>1, <2>1, <2>4, AttemptsAreNatural DEF RetryAfter
    <3>2. [worker[w] EXCEPT !.at = "attempting", !.attempt = k + 1] \in Deliveries
      BY <1>1, <3>1 DEF Deliveries, Steps
    <3>3. /\ worker' \in [Workers -> Deliveries]
          /\ worker'[w].at = "attempting" /\ worker'[w].attempt = k + 1
          /\ \A v \in Workers \ {w} : worker'[v] = worker[v]
      BY <1>1, <3>1, <3>2 DEF Deliveries
    <3>4. \A b \in Attempts : b < k + 1 =>
          receipt'[b] = [by |-> w, disposition |-> "retryable_failure"]
      <4>1. \A b \in Attempts : b \in Nat /\ k \in Nat
        BY <1>1, AttemptsAreNatural
      <4>2. \A b \in Attempts : b < k + 1 => b < k \/ b = k
        BY <4>1
      <4> QED BY <2>2, <2>3, <4>2
    <3>5. disposition # "TERMINAL_FAILURE"
      <4>1. SUFFICES ASSUME disposition = "TERMINAL_FAILURE" PROVE FALSE
        OBVIOUS
      <4>2. k = 1 /\ receipt[k] = NoReceipt
        BY <1>1, <2>1, <4>1 DEF Receipt
      <4>3. PICK a \in Attempts : receipt[a] # NoReceipt
        BY <4>1 DEF IInv, VerdictMatchesHistory
      <4>4. a > k
        BY <4>2, <4>3, AttemptsAreNatural
      <4> QED
        BY <1>1, <4>2, <4>3, <4>4 DEF IInv, HistoryInv, ReceiptChain, NoReceipt
    <3>6. DeliveryMatches(w)'
      BY <2>1, <3>3, <3>4, <3>5 DEF DeliveryMatches, Wrote
    <3>7. UNCHANGED traces
      BY <2>1, <2>4
    <3> QED
      BY <1>1, <2>1, <3>3, <3>6, <3>7, ReceiptStep DEF ProviderAttemptDisposition
  <2>5. CASE ~ RetryAfter(w)
    <3>1. k = MaxAttempts
      <4>1. k \in Nat /\ k <= MaxAttempts /\ MaxAttempts \in Nat
        BY <1>1, AttemptsAreNatural, MaxAttemptsAssumption
      <4>2. ~ (k < MaxAttempts)
        BY <2>5 DEF RetryAfter
      <4> QED BY <4>1, <4>2
    <3>2. [worker[w] EXCEPT !.at = "failed"] \in Deliveries
      BY <1>1 DEF Deliveries, Steps
    <3>3. /\ worker' \in [Workers -> Deliveries]
          /\ worker'[w].at = "failed" /\ worker'[w].attempt = k
          /\ \A v \in Workers \ {w} : worker'[v] = worker[v]
      <4>1. worker' = [worker EXCEPT ![w] = [worker[w] EXCEPT !.at = "failed"]]
        BY <2>1, <2>5
      <4> QED BY <1>1, <3>2, <4>1 DEF Deliveries
    <3>4. DeliveryMatches(w)'
      BY <3>3 DEF DeliveryMatches
    <3>5. /\ traces' \in [Workers -> Traces]
          /\ traces'[w] = [of |-> "this", upTo |-> k, last |-> "retryable_failure"]
          /\ \A v \in Workers \ {w} : traces'[v] = traces[v]
      BY <1>1, <2>1, <2>5, Buffers DEF Failures
    <3>6. TracesMatch(w)'
      BY <2>2, <3>1, <3>5, WrittenIsNotEmpty
      DEF TracesMatch, ProviderAttemptDisposition
    <3> QED
      BY <1>1, <2>1, <3>3, <3>4, <3>5, <3>6, ReceiptStep
      DEF ProviderAttemptDisposition
  <2> QED BY <2>4, <2>5
<1>4. CASE AnswerDoesNotDecode(w)
  <2>1. /\ Receipt(w, "terminal_failure") /\ MoveTo(w, "failed")
        /\ Keep(w, "this", k, "terminal_failure")
        /\ UNCHANGED <<holder, requested, result, disposition, faults>>
    BY <1>4 DEF AnswerDoesNotDecode
  <2>2. /\ worker' \in [Workers -> Deliveries] /\ worker'[w].at = "failed"
        /\ \A v \in Workers \ {w} : worker'[v] = worker[v]
    BY <1>1, <2>1, Delivery DEF Steps
  <2>3. receipt'[k] = [by |-> w, disposition |-> "terminal_failure"]
    BY <1>1, <2>1 DEF Receipt, Wrote
  <2>4. DeliveryMatches(w)'
    BY <2>2 DEF DeliveryMatches
  <2>5. /\ traces' \in [Workers -> Traces]
        /\ traces'[w] = [of |-> "this", upTo |-> k, last |-> "terminal_failure"]
        /\ \A v \in Workers \ {w} : traces'[v] = traces[v]
    BY <1>1, <2>1, Buffers DEF Failures
  <2>6. TracesMatch(w)'
    BY <2>3, <2>5, WrittenIsNotEmpty DEF TracesMatch, ProviderAttemptDisposition
  <2> QED
    BY <1>1, <2>1, <2>2, <2>4, <2>5, <2>6, ReceiptStep
    DEF ProviderAttemptDisposition
<1> QED BY <1>2, <1>3, <1>4

LEMMA ClaimInv == ASSUME IInv, NEW w \in Workers, Claim(w) PROVE IInv'
<1> DEFINE started == IF result = "nobody"
                      THEN [Idle EXCEPT !.at = "attempting"]
                      ELSE [Idle EXCEPT !.at = "answered", !.answer = "stored"]
<1>1. /\ holder' = w /\ worker' = [worker EXCEPT ![w] = started]
      /\ disposition = "none" /\ TypeOK /\ worker \in [Workers -> Deliveries]
      /\ UNCHANGED <<requested, receipt, result, disposition, traces, faults>>
  BY DEF Claim, Pending, IInv, TypeOK
<1>2. /\ started \in Deliveries
      /\ started.attempt = 1 /\ started.at \in {"attempting", "answered"}
      /\ started.at = "answered" => result # "nobody" /\ started.answer = "stored"
  BY AttemptsAreNatural DEF Idle, Deliveries, Steps
<1> HIDE DEF started
<1>3. /\ worker' \in [Workers -> Deliveries] /\ worker'[w] = started
      /\ \A v \in Workers \ {w} : worker'[v] = worker[v]
  BY <1>1, <1>2
<1>4. TypeOK'
  BY <1>1, <1>3 DEF TypeOK
<1>5. \A b \in Attempts : ~ (b < 1)
  BY AttemptsAreNatural
<1>6. DeliveryMatches(w)'
  BY <1>2, <1>3, <1>5 DEF DeliveryMatches
<1>7. worker'[w].at = "answered" =>
        result # "nobody" /\ worker'[w].answer = "stored"
  BY <1>2, <1>3
<1>8. VerdictMatchesHistory' /\ disposition' # "TERMINAL_FAILURE"
  BY <1>1 DEF VerdictMatchesHistory
<1>9. UNCHANGED <<receipt, result>> /\ ForgetsOnly
  BY <1>1 DEF ForgetsOnly
<1> QED BY <1>3, <1>4, <1>6, <1>7, <1>8, <1>9, QuietStep

LEMMA BeforeAttemptInv ==
  ASSUME IInv, NEW w \in Workers, BeforeAttempt(w) PROVE IInv'
<1>1. /\ worker[w].at = "attempting" /\ MoveTo(w, "posted") /\ TypeOK
      /\ requested' = IF worker[w].attempt > requested THEN worker[w].attempt
                      ELSE requested
      /\ worker[w].attempt \in Attempts /\ DeliveryMatches(w)
      /\ UNCHANGED <<holder, receipt, result, disposition, traces, faults>>
  BY DEF BeforeAttempt, IInv, TypeOK, Deliveries
<1>2. /\ worker' \in [Workers -> Deliveries]
      /\ worker'[w].at = "posted" /\ worker'[w].attempt = worker[w].attempt
      /\ \A v \in Workers \ {w} : worker'[v] = worker[v]
  BY <1>1, Delivery DEF Steps
<1>3. requested' \in 0 .. MaxAttempts
  BY <1>1, MaxAttemptsAssumption DEF TypeOK, Attempts
<1>4. TypeOK'
  BY <1>1, <1>2, <1>3 DEF TypeOK
<1>5. DeliveryMatches(w)'
  BY <1>1, <1>2 DEF DeliveryMatches, Wrote
<1>6. VerdictMatchesHistory' /\ disposition' = disposition
  BY <1>1 DEF IInv, VerdictMatchesHistory
<1>7. UNCHANGED <<receipt, result>> /\ worker'[w].at # "answered" /\ ForgetsOnly
  BY <1>1, <1>2 DEF ForgetsOnly
<1> QED BY <1>2, <1>4, <1>5, <1>6, <1>7, QuietStep

\* A delivery goes on its way out, and settles the job at most with a verdict
\* that the history supports.
LEMMA LeavingInv ==
  ASSUME IInv, NEW w \in Workers,
         \/ RequestIsRejected(w) \/ AnswerConflicts(w) \/ Commit(w)
         \/ FailureConflicts(w) \/ GiveUp(w) \/ CommitRefused(w)
         \/ LeaveTraces(w)
  PROVE  IInv'
<1>1. /\ UNCHANGED <<holder, requested, receipt, result>>
      /\ \/ UNCHANGED disposition
         \/ worker[w].at = "answered" /\ disposition' = "COMPLETED"
      /\ faults' = faults \/ (faults < MaxFaults /\ faults' = faults + 1)
      /\ MoveTo(w, "releasing") \/ MoveTo(w, "failed")
      /\ TakeTraces(w) \/ UNCHANGED traces
      /\ TypeOK /\ AnswerIsDurable /\ VerdictMatchesHistory
      /\ worker \in [Workers -> Deliveries]
  BY DEF RequestIsRejected, AnswerConflicts, Commit, FailureConflicts, GiveUp,
         CommitRefused, LeaveCommit, LeaveTraces, Fault, IInv, TypeOK
<1>2. /\ worker' \in [Workers -> Deliveries]
      /\ worker'[w].at \in {"releasing", "failed"}
      /\ \A v \in Workers \ {w} : worker'[v] = worker[v]
  BY <1>1, Delivery DEF Steps
<1>3. faults' \in 0 .. MaxFaults
  BY <1>1, MaxFaultsAssumption DEF TypeOK
<1>4. traces' \in [Workers -> Traces] /\ ForgetsOnly
  BY <1>1, Buffers
<1>5. TypeOK'
  BY <1>1, <1>2, <1>3, <1>4 DEF TypeOK
<1>6. DeliveryMatches(w)'
  BY <1>2 DEF DeliveryMatches
<1>7. /\ VerdictMatchesHistory'
      /\ disposition' = "TERMINAL_FAILURE" => disposition = "TERMINAL_FAILURE"
  BY <1>1 DEF AnswerIsDurable, VerdictMatchesHistory
<1>8. UNCHANGED <<receipt, result>> /\ worker'[w].at # "answered"
  BY <1>1, <1>2
<1> QED BY <1>2, <1>4, <1>5, <1>6, <1>7, <1>8, QuietStep

\* The result of the job is stored once, beside its receipt.
LEMMA StoreResultInv ==
  ASSUME IInv, NEW w \in Workers, StoreResult(w) PROVE IInv'
<1>1. /\ worker[w].at = "receipted" /\ result = "nobody" /\ result' = w
      /\ MoveTo(w, "answered") /\ TakeTraces(w) /\ TypeOK
      /\ Wrote(w, worker[w].attempt, "succeeded") /\ worker[w].attempt \in Attempts
      /\ UNCHANGED <<holder, requested, receipt, disposition, faults>>
  BY DEF StoreResult, IInv, TypeOK, Deliveries, DeliveryMatches
<1>2. /\ worker' \in [Workers -> Deliveries] /\ worker'[w].at = "answered"
      /\ \A v \in Workers \ {w} : worker'[v] = worker[v]
      /\ traces' \in [Workers -> Traces] /\ ForgetsOnly
  BY <1>1, Delivery, Buffers DEF Steps
<1>3. TypeOK'
  BY <1>1, <1>2 DEF TypeOK, Authors
<1>4. \A v \in Workers : v # w => worker[v].at # "answered"
  BY <1>1 DEF IInv, AnswerIsDurable
<1>5. \E a \in Attempts : receipt[a] = [by |-> w, disposition |-> "succeeded"]
  BY <1>1 DEF Wrote
<1>6. HistoryInv'
  BY <1>1, <1>5
  DEF IInv, HistoryInv, ReceiptChain, OneDeliveryPerChain, ResultIsBacked, Wrote
<1>7. ASSUME NEW v \in Workers PROVE DeliveryMatches(v)'
  <2>1. CASE v = w
    BY <1>2, <2>1 DEF DeliveryMatches
  <2>2. CASE v # w
    BY <1>1, <1>2, <2>2 DEF IInv, DeliveryMatches, Wrote
  <2> QED BY <2>1, <2>2
<1>8. AnswerIsDurable'
  <2>1. w # "nobody"
    BY WorkerNames
  <2>2. \A v \in Workers : v # w => worker'[v].at # "answered"
    BY <1>2, <1>4
  <2>3. \A v \in Workers : worker'[v].at = "answered" => v = w
    BY <2>2
  <2>4. result' = w /\ receipt' = receipt
    BY <1>1
  <2> QED BY <1>5, <2>1, <2>3, <2>4 DEF AnswerIsDurable
<1>9. VerdictMatchesHistory'
  <2>1. w # "nobody"
    BY WorkerNames
  <2> QED BY <1>1, <2>1 DEF IInv, VerdictMatchesHistory
<1>10. ASSUME NEW v \in Workers PROVE TracesMatch(v)'
  BY <1>1, <1>2 DEF IInv, TracesMatch, ForgetsOnly
<1> QED BY <1>3, <1>6, <1>7, <1>8, <1>9, <1>10 DEF IInv

\* The failure of a job is settled with a history of failures: the one it has,
\* or one that is written down now that there was none.
LEMMA CommitFailureInv ==
  ASSUME IInv, NEW w \in Workers, CommitFailure(w) PROVE IInv'
<1> DEFINE k == traces[w].upTo
<1>1. /\ worker[w].at = "failed" /\ disposition = "none"
      /\ RecordTraces(w) /\ TakeTraces(w)
      /\ requested' = IF k > requested THEN k ELSE requested
      /\ disposition' = "TERMINAL_FAILURE" /\ MoveTo(w, "releasing")
      /\ UNCHANGED <<holder, result, faults>>
      /\ TypeOK /\ TracesMatch(w) /\ k \in Attempts /\ traces[w].last \in Failures
      /\ ReceiptChain /\ OneDeliveryPerChain /\ AnswerIsDurable /\ ResultIsBacked
      /\ receipt \in [Attempts -> Receipts]
  BY DEF CommitFailure, Entitled, Pending, IInv, HistoryInv, TypeOK, Traces
<1>2. /\ worker' \in [Workers -> Deliveries] /\ worker'[w].at = "releasing"
      /\ \A v \in Workers \ {w} : worker'[v] = worker[v]
      /\ traces' \in [Workers -> Traces] /\ ForgetsOnly
  BY <1>1, Delivery, Buffers DEF Steps
<1>0. requested' \in 0 .. MaxAttempts
  BY <1>1, MaxAttemptsAssumption DEF TypeOK, Attempts
<1>3. CASE traces[w].of = "this"
  <2>1. receipt' = receipt
    BY <1>1, <1>3 DEF RecordTraces
  <2>2. /\ receipt[k] # NoReceipt /\ receipt[k].by \in {w, "past"}
        /\ receipt[k].disposition # "succeeded"
        /\ receipt[k].disposition = "retryable_failure" => k = MaxAttempts
    BY <1>1, <1>3 DEF TracesMatch, Failures
  <2>3. ASSUME NEW a \in Attempts, receipt[a] # NoReceipt
        PROVE  receipt[a].by \in {w, "past"} /\ receipt[a].disposition # "succeeded"
    <3>1. receipt[a].by \in {w, "past"}
      BY <1>1, <2>2, <2>3 DEF OneDeliveryPerChain
    <3> k \in Attempts
      BY <1>1
    <3>2. CASE a < k
      <4>1. receipt[a].disposition = "retryable_failure"
        BY <1>1, <2>2, <3>2 DEF ReceiptChain
      <4> QED BY <3>1, <4>1
    <3>3. CASE a > k
      <4>1. receipt[k].disposition = "retryable_failure"
        BY <1>1, <2>3, <3>3 DEF ReceiptChain
      <4>2. k = MaxAttempts
        BY <2>2, <4>1
      <4>3. a \in Nat /\ k \in Nat /\ a <= MaxAttempts
        BY AttemptsAreNatural
      <4> QED BY <3>3, <4>2, <4>3, MaxAttemptsAssumption
    <3>4. a < k \/ a > k \/ a = k
      <4>1. a \in Nat /\ k \in Nat
        BY AttemptsAreNatural
      <4> QED BY <4>1
    <3> QED BY <2>2, <3>1, <3>2, <3>3, <3>4
  <2>4. VerdictMatchesHistory'
    BY <1>1, <2>1, <2>2, <2>3 DEF VerdictMatchesHistory, NoReceipt
  <2>5. HistoryInv' /\ AnswerIsDurable'
    BY <1>1, <1>2, <2>1
    DEF HistoryInv, ReceiptChain, OneDeliveryPerChain, ResultIsBacked, Wrote,
        AnswerIsDurable
  <2>6. TypeOK'
    BY <1>0, <1>1, <1>2, <2>1 DEF TypeOK
  <2>7. ASSUME NEW v \in Workers PROVE DeliveryMatches(v)'
    <3>1. CASE v = w
      BY <1>2, <3>1 DEF DeliveryMatches
    <3>2. CASE v # w
      <4>1. DeliveryMatches(v) /\ worker'[v] = worker[v] /\ worker[v].attempt \in Attempts
        BY <1>2, <3>2 DEF IInv, TypeOK, Deliveries
      <4>2. ASSUME worker[v].at \in {"attempting", "posted"}
            PROVE  worker[v].attempt = 1
        <5>1. SUFFICES ASSUME worker[v].attempt # 1 PROVE FALSE
          OBVIOUS
        <5>2. 1 < worker[v].attempt
          <6>1. worker[v].attempt \in Nat /\ worker[v].attempt >= 1
            BY <4>1, AttemptsAreNatural
          <6> QED BY <5>1, <6>1
        <5>3. Wrote(v, 1, "retryable_failure")
          BY <4>1, <4>2, <5>2, AttemptsAreNatural DEF DeliveryMatches
        <5>4. receipt[1] # NoReceipt /\ receipt[1].by = v
          BY <5>3, WrittenIsNotEmpty DEF Wrote, ProviderAttemptDisposition
        <5> QED BY <2>3, <3>2, <5>4, AttemptsAreNatural, WorkerNames
      <4> QED BY <2>1, <4>1, <4>2 DEF DeliveryMatches, Wrote
    <3> QED BY <3>1, <3>2
  <2>8. ASSUME NEW v \in Workers PROVE TracesMatch(v)'
    BY <1>2, <2>1 DEF IInv, TracesMatch, ForgetsOnly
  <2> QED BY <2>4, <2>5, <2>6, <2>7, <2>8 DEF IInv
<1>4. CASE traces[w].of # "this"
  <2>1. /\ \A a \in Attempts : a <= k => receipt[a] = NoReceipt
        /\ receipt' = [a \in Attempts |-> IF a <= k THEN Reported(w, a) ELSE receipt[a]]
    BY <1>1, <1>4 DEF RecordTraces
  <2>2. \A a \in Attempts : receipt[a] = NoReceipt
    <3>1. k \in Nat /\ 1 <= k
      BY <1>1, AttemptsAreNatural
    <3>2. receipt[1] = NoReceipt
      BY <2>1, <3>1, AttemptsAreNatural
    <3>3. \A a \in Attempts : a = 1 \/ 1 < a
      BY AttemptsAreNatural
    <3> QED BY <1>1, <3>2, <3>3, AttemptsAreNatural DEF ReceiptChain, NoReceipt
  <2>3. ASSUME NEW a \in Attempts
        PROVE  /\ receipt'[a] \in Receipts /\ receipt'[a].disposition # "succeeded"
               /\ a <= k => receipt'[a] # NoReceipt /\ receipt'[a].by = w
               /\ ~ (a <= k) => receipt'[a] = NoReceipt
               /\ a < k => receipt'[a].disposition = "retryable_failure"
    <3>1. CASE a <= k
      <4>1. receipt'[a] = [by |-> w, disposition |-> IF a = k THEN traces[w].last
                                                    ELSE "retryable_failure"]
        BY <2>1, <3>1 DEF Reported
      <4>2. a < k => a # k
        BY <1>1, AttemptsAreNatural
      <4> QED
        BY <1>1, <3>1, <4>1, <4>2
        DEF Failures, Receipts, Authors, ProviderAttemptDisposition, NoReceipt
    <3>2. CASE ~ (a <= k)
      <4>1. receipt'[a] = NoReceipt
        BY <2>1, <2>2, <3>2
      <4>2. a \in Nat /\ k \in Nat
        BY <1>1, AttemptsAreNatural
      <4>3. ~ (a < k)
        BY <3>2, <4>2
      <4> QED BY <3>2, <4>1, <4>3 DEF Receipts, NoReceipt
    <3> QED BY <3>1, <3>2
  <2>4. VerdictMatchesHistory'
    <3>1. 1 \in Attempts /\ 1 <= k
      BY <1>1, AttemptsAreNatural
    <3> QED BY <1>1, <2>3, <3>1 DEF VerdictMatchesHistory
  <2>5. result = "nobody"
    BY <1>1, <2>2, WrittenIsNotEmpty
    DEF ResultIsBacked, Wrote, ProviderAttemptDisposition
  <2>6. HistoryInv'
    <3>1. ReceiptChain'
      <4>1. SUFFICES ASSUME NEW a \in Attempts, NEW b \in Attempts, b < a,
                            receipt'[a] # NoReceipt
                     PROVE  receipt'[b].disposition = "retryable_failure"
        BY DEF ReceiptChain
      <4>2. a \in Nat /\ b \in Nat /\ k \in Nat
        BY <1>1, AttemptsAreNatural
      <4>3. a <= k
        BY <2>3, <4>1
      <4>4. b < k
        BY <4>1, <4>2, <4>3
      <4> QED BY <2>3, <4>4
    <3>2. OneDeliveryPerChain'
      BY <2>3 DEF OneDeliveryPerChain
    <3> QED BY <1>1, <2>5, <3>1, <3>2 DEF HistoryInv, ResultIsBacked
  <2>7. AnswerIsDurable'
    BY <1>1, <1>2, <2>5 DEF AnswerIsDurable
  <2>8. TypeOK'
    <3>1. receipt' \in [Attempts -> Receipts]
      BY <2>1, <2>3
    <3> QED BY <1>0, <1>1, <1>2, <3>1 DEF TypeOK
  <2>9. ASSUME NEW v \in Workers PROVE DeliveryMatches(v)'
    <3>1. CASE v = w
      BY <1>2, <3>1 DEF DeliveryMatches
    <3>2. CASE v # w
      <4>1. DeliveryMatches(v) /\ worker'[v] = worker[v] /\ worker[v].attempt \in Attempts
        BY <1>2, <3>2 DEF IInv, TypeOK, Deliveries
      <4>2. \A a \in Attempts, how \in ProviderAttemptDisposition : ~ Wrote(v, a, how)
        BY <2>2, WrittenIsNotEmpty DEF Wrote
      <4>3. ASSUME worker[v].at \in {"attempting", "posted"}
            PROVE  worker[v].attempt = 1
        <5>1. \A b \in Attempts : ~ (b < worker[v].attempt)
          BY <4>1, <4>2, <4>3 DEF DeliveryMatches, ProviderAttemptDisposition
        <5>2. 1 \in Attempts /\ ~ (1 < worker[v].attempt)
          BY <5>1, AttemptsAreNatural
        <5>3. worker[v].attempt \in Nat /\ worker[v].attempt >= 1
          BY <4>1, AttemptsAreNatural
        <5> QED BY <5>2, <5>3
      <4>4. \A b \in Attempts : ~ (b < 1)
        BY AttemptsAreNatural
      <4> QED
        BY <4>1, <4>2, <4>3, <4>4 DEF DeliveryMatches, ProviderAttemptDisposition
    <3> QED BY <3>1, <3>2
  <2>10. ASSUME NEW v \in Workers PROVE TracesMatch(v)'
    <3>1. traces[v].of = "this" => FALSE
      BY <2>2 DEF IInv, TypeOK, Traces, TracesMatch
    <3> QED BY <1>2, <3>1 DEF ForgetsOnly, TracesMatch
  <2> QED BY <2>4, <2>6, <2>7, <2>8, <2>9, <2>10 DEF IInv
<1> QED BY <1>3, <1>4

\* A delivery that is over hands what it wrote to the past: the history is the
\* same, only its author is nobody who runs any more.
LEMMA OverInv ==
  ASSUME IInv, NEW w \in Workers, Forget(w),
         worker' = [worker EXCEPT ![w] = Idle],
         UNCHANGED traces \/ TakeTraces(w),
         UNCHANGED <<requested, disposition>>,
         holder' \in Workers \cup {"nobody", "dead"},
         faults' \in 0 .. MaxFaults
  PROVE  IInv'
<1>1. /\ TypeOK /\ receipt \in [Attempts -> Receipts]
      /\ worker \in [Workers -> Deliveries]
      /\ result \in Authors \cup {"nobody"}
  BY DEF IInv, TypeOK
<1>2. w # "past" /\ w # "nobody" /\ w # "dead"
  BY WorkerNames
<1>3. \A a \in Attempts :
        receipt'[a] = IF receipt[a].by = w THEN [receipt[a] EXCEPT !.by = "past"]
                      ELSE receipt[a]
  BY DEF Forget
<1>4. ASSUME NEW a \in Attempts
      PROVE  /\ receipt'[a].disposition = receipt[a].disposition
             /\ receipt'[a].by = IF receipt[a].by = w THEN "past" ELSE receipt[a].by
             /\ receipt'[a] \in Receipts
             /\ receipt'[a] # NoReceipt <=> receipt[a] # NoReceipt
             /\ receipt[a].by = w =>
                  receipt'[a] = [by |-> "past", disposition |-> receipt[a].disposition]
  <2>1. receipt[a] \in Receipts
    BY <1>1
  <2>2. CASE receipt[a].by = w
    <3>1. receipt[a] \in [by : Authors, disposition : ProviderAttemptDisposition]
      BY <1>2, <2>1, <2>2 DEF Receipts, NoReceipt
    <3>2. /\ receipt'[a] = [by |-> "past", disposition |-> receipt[a].disposition]
          /\ receipt[a].disposition \in ProviderAttemptDisposition
      BY <1>3, <2>2, <3>1
    <3>3. "none" \notin ProviderAttemptDisposition
      BY DEF ProviderAttemptDisposition
    <3>4. receipt[a] # NoReceipt /\ receipt'[a] # NoReceipt
      BY <3>2, <3>3 DEF NoReceipt
    <3> QED BY <2>2, <3>2, <3>4 DEF Receipts, Authors
  <2>3. CASE receipt[a].by # w
    BY <1>3, <2>1, <2>3
  <2> QED BY <2>2, <2>3
<1>5. /\ worker' \in [Workers -> Deliveries] /\ worker'[w] = Idle
      /\ \A v \in Workers \ {w} : worker'[v] = worker[v]
      /\ traces' \in [Workers -> Traces] /\ ForgetsOnly
  BY <1>1, Delivery, Buffers
<1>6. TypeOK'
  <2>1. receipt' \in [Attempts -> Receipts]
    BY <1>4 DEF Forget
  <2>2. result' \in Authors \cup {"nobody"}
    BY <1>1 DEF Forget, Authors
  <2> QED BY <1>1, <1>5, <2>1, <2>2 DEF TypeOK
<1>7. /\ result' = IF result = w THEN "past" ELSE result
      /\ result' # "nobody" <=> result # "nobody"
  BY <1>2 DEF Forget
<1>8. ASSUME NEW a \in Attempts, NEW how \in ProviderAttemptDisposition, NEW author
      PROVE  /\ author # w /\ Wrote(author, a, how) =>
                  receipt'[a] = [by |-> author, disposition |-> how]
             /\ Wrote(w, a, how) =>
                  receipt'[a] = [by |-> "past", disposition |-> how]
  <2>1. CASE author # w /\ Wrote(author, a, how)
    <3>1. receipt[a].by # w
      BY <2>1 DEF Wrote
    <3>2. receipt'[a] = receipt[a]
      BY <1>3, <3>1
    <3>3. ~ Wrote(w, a, how)
      BY <3>1 DEF Wrote
    <3> QED BY <2>1, <3>2, <3>3 DEF Wrote
  <2>2. CASE Wrote(w, a, how)
    <3>1. receipt[a].by = w /\ receipt[a].disposition = how
      BY <2>2 DEF Wrote
    <3>2. receipt'[a] = [by |-> "past", disposition |-> how]
      BY <1>4, <3>1
    <3>3. author # w => ~ Wrote(author, a, how)
      BY <3>1 DEF Wrote
    <3> QED BY <3>2, <3>3
  <2> QED BY <2>1, <2>2
<1>9. \A a \in Attempts :
        Wrote(result, a, "succeeded") =>
          receipt'[a] = [by |-> result', disposition |-> "succeeded"]
  <2>1. "succeeded" \in ProviderAttemptDisposition
    BY DEF ProviderAttemptDisposition
  <2>2. CASE result = w
    <3>1. result' = "past"
      BY <1>7, <2>2
    <3>2. \A a \in Attempts :
            Wrote(w, a, "succeeded") =>
              receipt'[a] = [by |-> "past", disposition |-> "succeeded"]
      BY <1>8, <2>1
    <3> QED BY <2>2, <3>1, <3>2
  <2>3. CASE result # w
    BY <1>7, <1>8, <2>1, <2>3 DEF Wrote
  <2> QED BY <2>2, <2>3
<1>10. HistoryInv'
  <2>1. ReceiptChain'
    BY <1>4 DEF IInv, HistoryInv, ReceiptChain
  <2>2. OneDeliveryPerChain'
    <3>1. SUFFICES ASSUME NEW a \in Attempts, NEW b \in Attempts,
                          receipt'[a] # NoReceipt, receipt'[b] # NoReceipt
                   PROVE  receipt'[a].by = receipt'[b].by
      BY DEF OneDeliveryPerChain
    <3>2. receipt[a].by = receipt[b].by
      BY <1>4, <3>1 DEF IInv, HistoryInv, OneDeliveryPerChain
    <3> QED BY <1>4, <3>2
  <2>3. ResultIsBacked'
    BY <1>7, <1>9 DEF IInv, HistoryInv, ResultIsBacked, Wrote
  <2> QED BY <2>1, <2>2, <2>3 DEF HistoryInv
<1>11. ASSUME NEW v \in Workers PROVE DeliveryMatches(v)'
  <2>1. CASE v = w
    BY <1>5, <2>1 DEF DeliveryMatches, Idle
  <2>2. CASE v # w
    <3>1. /\ worker'[v] = worker[v] /\ DeliveryMatches(v)
          /\ worker[v].attempt \in Attempts
      BY <1>1, <1>5, <2>2 DEF IInv, Deliveries
    <3>2. ASSUME NEW a \in Attempts, NEW how \in ProviderAttemptDisposition,
                 Wrote(v, a, how)
          PROVE  receipt'[a] = [by |-> v, disposition |-> how]
      BY <1>8, <2>2, <3>2
    <3> QED BY <3>1, <3>2 DEF DeliveryMatches, Wrote, ProviderAttemptDisposition
  <2> QED BY <2>1, <2>2
<1>12. AnswerIsDurable'
  <2>1. SUFFICES ASSUME NEW v \in Workers, worker'[v].at = "answered"
                 PROVE  /\ result' # "nobody"
                        /\ worker'[v].answer = "own" => result' = v
                        /\ \E a \in Attempts :
                             receipt'[a] = [by |-> result', disposition |-> "succeeded"]
    BY DEF AnswerIsDurable
  <2>2. v # w
    BY <1>5, <2>1 DEF Idle
  <2>3. worker'[v] = worker[v]
    BY <1>5, <2>2
  <2>4. /\ result # "nobody" /\ (worker[v].answer = "own" => result = v)
        /\ \E a \in Attempts : Wrote(result, a, "succeeded")
    BY <2>1, <2>3 DEF IInv, AnswerIsDurable, Wrote
  <2>5. \E a \in Attempts :
          receipt'[a] = [by |-> result', disposition |-> "succeeded"]
    BY <1>9, <2>4
  <2> QED BY <1>7, <2>2, <2>3, <2>4, <2>5
<1>13. VerdictMatchesHistory'
  BY <1>4, <1>7 DEF IInv, VerdictMatchesHistory
<1>14. ASSUME NEW v \in Workers PROVE TracesMatch(v)'
  <2>1. SUFFICES ASSUME traces'[v].of = "this"
                 PROVE  LET k == traces[v].upTo
                        IN  /\ receipt'[k] # NoReceipt /\ receipt'[k].by \in {v, "past"}
                            /\ receipt'[k].disposition = traces[v].last
                            /\ traces[v].last = "retryable_failure" => k = MaxAttempts
    BY <1>5 DEF ForgetsOnly, TracesMatch
  <2>2. TracesMatch(v) /\ traces[v].of = "this" /\ traces[v].upTo \in Attempts
    BY <1>1, <1>5, <2>1 DEF IInv, TypeOK, Traces, ForgetsOnly
  <2> QED BY <1>4, <2>2 DEF TracesMatch
<1> QED BY <1>6, <1>10, <1>11, <1>12, <1>13, <1>14 DEF IInv

\* The lease, the verdict and the jobs of others do not touch any delivery.
LEMMA AroundInv ==
  ASSUME IInv,
         \/ \E w \in Workers : LoseLease(w) \/ DeliverAnother(w)
         \/ DeadLeaseExpires \/ Supersede \/ UNCHANGED vars
  PROVE  IInv'
<1>1. /\ UNCHANGED <<requested, receipt, result, worker>>
      /\ disposition' \in {disposition, "SUPERSEDED"}
      /\ holder' \in {holder, "nobody"}
      /\ faults' = faults \/ (faults < MaxFaults /\ faults' = faults + 1)
      /\ TypeOK
  BY DEF LoseLease, DeliverAnother, DeadLeaseExpires, Supersede, vars, Fault, IInv
<1>2. traces' \in [Workers -> Traces] /\ ForgetsOnly
  <2>1. ASSUME NEW w \in Workers, DeliverAnother(w)
        PROVE  traces' \in [Workers -> Traces] /\ ForgetsOnly
    <3>1. CASE TakeTraces(w)
      BY <1>1, <3>1, Buffers
    <3>2. CASE \E a \in Attempts, how \in Failures : Keep(w, "another", a, how)
      <4>1. PICK a \in Attempts, how \in Failures : Keep(w, "another", a, how)
        BY <3>2
      <4>2. /\ traces' \in [Workers -> Traces]
            /\ traces'[w] = [of |-> "another", upTo |-> a, last |-> how]
            /\ \A v \in Workers \ {w} : traces'[v] = traces[v]
        BY <1>1, <4>1, Buffers
      <4> QED BY <4>2 DEF ForgetsOnly
    <3>3. MaxAttempts \in Attempts
      BY MaxAttemptsAssumption DEF Attempts
    <3> QED BY <2>1, <3>1, <3>2, <3>3 DEF DeliverAnother, Failures
  <2>2. CASE UNCHANGED traces
    BY <2>2 DEF IInv, TypeOK, ForgetsOnly
  <2> QED
    BY <2>1, <2>2 DEF LoseLease, DeadLeaseExpires, Supersede, vars
<1>3. TypeOK'
  <2>1. faults' \in 0 .. MaxFaults
    BY <1>1, MaxFaultsAssumption DEF TypeOK
  <2> QED BY <1>1, <1>2, <2>1 DEF TypeOK
<1>4. HistoryInv'
  BY <1>1 DEF IInv, HistoryInv, ReceiptChain, OneDeliveryPerChain, ResultIsBacked, Wrote
<1>5. ASSUME NEW v \in Workers PROVE DeliveryMatches(v)' /\ TracesMatch(v)'
  BY <1>1, <1>2 DEF IInv, DeliveryMatches, Wrote, TracesMatch, ForgetsOnly
<1>6. AnswerIsDurable'
  BY <1>1 DEF IInv, AnswerIsDurable
<1>7. VerdictMatchesHistory'
  BY <1>1 DEF IInv, VerdictMatchesHistory
<1> QED BY <1>3, <1>4, <1>5, <1>6, <1>7 DEF IInv

LEMMA InvStep == IInv /\ [Next]_vars => IInv'
<1> SUFFICES ASSUME IInv, [Next]_vars PROVE IInv'
  OBVIOUS
<1>1. ASSUME NEW w \in Workers, DeliveryStep(w) PROVE IInv'
  <2>1. CASE Claim(w)
    BY <2>1, ClaimInv
  <2>2. CASE BeforeAttempt(w)
    BY <2>2, BeforeAttemptInv
  <2>3. CASE AnswerSucceeds(w) \/ AnswerIsTransient(w) \/ AnswerDoesNotDecode(w)
    BY <2>3, AnswerSteps
  <2>4. CASE \/ RequestIsRejected(w) \/ AnswerConflicts(w) \/ Commit(w)
             \/ FailureConflicts(w) \/ GiveUp(w)
    BY <2>4, LeavingInv
  <2>5. CASE StoreResult(w)
    BY <2>5, StoreResultInv
  <2>6. CASE CommitFailure(w)
    BY <2>6, CommitFailureInv
  <2>7. CASE Release(w)
    BY <2>7, OverInv DEF Release, IInv, TypeOK
  <2> QED
    BY <1>1, <2>1, <2>2, <2>3, <2>4, <2>5, <2>6, <2>7 DEF DeliveryStep
<1>2. ASSUME NEW w \in Workers, CommitRefused(w) \/ LeaveTraces(w) PROVE IInv'
  BY <1>2, LeavingInv
<1>3. ASSUME NEW w \in Workers, Crash(w) PROVE IInv'
  <2>1. faults' \in 0 .. MaxFaults
    BY <1>3, MaxFaultsAssumption DEF Crash, Fault, IInv, TypeOK
  <2> QED BY <1>3, <2>1, OverInv DEF Crash, IInv, TypeOK
<1>4. CASE \/ \E w \in Workers : LoseLease(w) \/ DeliverAnother(w)
           \/ DeadLeaseExpires \/ Supersede \/ UNCHANGED vars
  BY <1>4, AroundInv
<1> QED BY <1>1, <1>2, <1>3, <1>4 DEF Next
-----------------------------------------------------------------------------
\* The inductive invariant: what every delivery in progress knows about the
\* attempt history agrees with the durable records.
THEOREM Invariance == Spec => []IInv
<1> QED BY InvInit, InvStep, PTL DEF Spec

\* Type correctness, for any number of workers and attempts.
THEOREM TypeCorrect == Spec => []TypeOK
<1>1. IInv => TypeOK
  BY DEF IInv
<1> QED BY <1>1, Invariance, PTL

\* An answer enters authority only as the durable result of the job, backed by
\* the receipt of a successful call (deliver_pending_* and after_result).
THEOREM AnswersAreDurable == Spec => []AnswerIsDurable
<1>1. IInv => AnswerIsDurable
  BY DEF IInv
<1> QED BY <1>1, Invariance, PTL

\* Zombies, takeovers and crashes never break the attempt history: the success
\* or the terminal failure of a job is its last attempt
\* (record_provider_attempt_receipt).
THEOREM HistoriesAreChains == Spec => []ReceiptChain
<1>1. IInv => ReceiptChain
  BY DEF IInv, HistoryInv
<1> QED BY <1>1, Invariance, PTL

\* All the receipts of a job come from one delivery: no delivery continues the
\* attempts of another (ChatCompletionsProvider's loop and before_attempt).
THEOREM OneDeliveryOneChain == Spec => []OneDeliveryPerChain
<1>1. IInv => OneDeliveryPerChain
  BY DEF IInv, HistoryInv
<1> QED BY <1>1, Invariance, PTL

\* A terminal disposition agrees with the receipts: no job fails for good that
\* has a successful attempt (_commit_provider_failure).
THEOREM VerdictsMatch == Spec => []VerdictMatchesHistory
<1>1. IInv => VerdictMatchesHistory
  BY DEF IInv
<1> QED BY <1>1, Invariance, PTL

\* Once a result is durable no new delivery calls the provider: the only way
\* out of idle is the claim, and the claim finds the result.
THEOREM ResultsAreReused == Spec => StoredResultIsReused
<1> DEFINE Reuses == \A w \in Workers :
                       result # "nobody" /\ worker[w].at = "idle"
                         => worker'[w].at \in {"idle", "answered"}
<1>1. IInv /\ [Next]_vars => [Reuses]_vars
  <2> SUFFICES ASSUME IInv, Next, NEW w \in Workers,
                      result # "nobody", worker[w].at = "idle"
               PROVE  worker'[w].at \in {"idle", "answered"}
    OBVIOUS
  <2>1. worker \in [Workers -> Deliveries]
    BY DEF IInv, TypeOK
  <2>2. ASSUME NEW v \in Workers, v # w,
               \/ DeliveryStep(v) \/ CommitRefused(v) \/ LeaveTraces(v)
               \/ DeliverAnother(v) \/ Crash(v) \/ LoseLease(v)
        PROVE  worker'[w] = worker[w]
    BY <2>1, <2>2
    DEF DeliveryStep, Claim, BeforeAttempt, AnswerSucceeds, AnswerIsTransient,
        AnswerDoesNotDecode, RequestIsRejected, AnswerConflicts, StoreResult,
        Commit, CommitFailure, FailureConflicts, GiveUp, Release, CommitRefused,
        LeaveCommit, LeaveTraces, DeliverAnother, Crash, LoseLease, MoveTo
  <2>3. CASE DeliveryStep(w) \/ CommitRefused(w) \/ LeaveTraces(w) \/ Crash(w)
    <3>1. Claim(w)
      BY <2>3
      DEF DeliveryStep, BeforeAttempt, AnswerSucceeds, AnswerIsTransient,
          AnswerDoesNotDecode, RequestIsRejected, AnswerConflicts, StoreResult,
          Commit, CommitFailure, FailureConflicts, GiveUp, Release,
          CommitRefused, LeaveTraces, Crash
    <3> QED BY <2>1, <3>1 DEF Claim, Idle
  <2>4. CASE LoseLease(w) \/ DeliverAnother(w) \/ DeadLeaseExpires \/ Supersede
    BY <2>4 DEF LoseLease, DeliverAnother, DeadLeaseExpires, Supersede
  <2> QED BY <2>2, <2>3, <2>4 DEF Next
<1> QED BY <1>1, Invariance, PTL DEF Spec, StoredResultIsReused
-----------------------------------------------------------------------------
\* All receipts of an abandoned job are by a delivery that is over, so that a
\* delivery in progress has none, and is at its first attempt.
LEMMA AbandonedDelivery ==
  ASSUME IInv, Abandoned, NEW w \in Workers
  PROVE  /\ receipt[1] # NoReceipt
         /\ \A a \in Attempts, how \in ProviderAttemptDisposition : ~Wrote(w, a, how)
         /\ worker[w].at \in {"attempting", "posted"} => worker[w].attempt = 1
         /\ worker[w].at \notin {"receipted", "answered"}
<1> USE AttemptsAreNatural
<1>1. receipt[1] # NoReceipt /\ receipt[1].by # w
  BY WorkerNames DEF Abandoned, NoReceipt
<1>2. ASSUME NEW a \in Attempts, NEW how \in ProviderAttemptDisposition,
             Wrote(w, a, how)
      PROVE  FALSE
  <2>1. receipt[a] # NoReceipt /\ receipt[a].by = w
    BY <1>2, WrittenIsNotEmpty DEF Wrote
  <2> QED BY <1>1, <2>1 DEF IInv, HistoryInv, OneDeliveryPerChain
<1>3. /\ worker[w].attempt \in Attempts /\ DeliveryMatches(w)
  BY DEF IInv, TypeOK, Deliveries
<1>4. worker[w].at \in {"attempting", "posted"} => worker[w].attempt = 1
  <2>1. SUFFICES ASSUME worker[w].at \in {"attempting", "posted"},
                        worker[w].attempt # 1
                 PROVE  FALSE
    OBVIOUS
  <2>2. 1 < worker[w].attempt
    <3>1. worker[w].attempt \in Nat /\ worker[w].attempt >= 1
      BY <1>3
    <3> QED BY <2>1, <3>1
  <2>3. Wrote(w, 1, "retryable_failure")
    BY <1>3, <2>1, <2>2 DEF DeliveryMatches
  <2> QED BY <1>2, <2>3 DEF ProviderAttemptDisposition
<1>5. worker[w].at \notin {"receipted", "answered"}
  BY <1>2, <1>3
  DEF DeliveryMatches, ProviderAttemptDisposition, IInv, AnswerIsDurable, Abandoned
<1> QED BY <1>1, <1>2, <1>4, <1>5

\* The way out that is left.
Remembered ==
  /\ disposition' = "TERMINAL_FAILURE"
  /\ \E w \in Rememberers : worker[w].at = "failed"

StaysAbandoned == Abandoned' /\ Rememberers' \subseteq Rememberers

\* An abandoned job is settled by a worker only on a thread that still has the
\* traces of the failed call, and no other call leaves such traces: the
\* finding of run model_job_crash, for every number of workers, attempts and
\* faults, with the one way out that a run may happen to take
\* (_provider_failure_attempt_records, _commit_provider_failure).
THEOREM AbandonedCallsNeedTraces == Spec => AbandonedNeedsItsTraces
<1>1. ForgetsOnly => Rememberers' \subseteq Rememberers
  BY DEF ForgetsOnly, Rememberers
<1>2. ASSUME IInv, Abandoned, NEW w \in Workers,
             DeliveryStep(w) \/ CommitRefused(w) \/ LeaveTraces(w)
      PROVE  StaysAbandoned \/ Remembered
  <2>1. ~AnswerSucceeds(w) /\ ~AnswerIsTransient(w) /\ ~AnswerDoesNotDecode(w)
    BY <1>2, AbandonedDelivery
    DEF AnswerSucceeds, AnswerIsTransient, AnswerDoesNotDecode, Receipt
  <2>2. ~StoreResult(w) /\ ~Commit(w)
    BY <1>2, AbandonedDelivery DEF StoreResult, Commit
  <2>3. CASE CommitFailure(w)
    <3>1. traces[w].of = "this"
      <4>1. SUFFICES ASSUME traces[w].of # "this" PROVE FALSE
        OBVIOUS
      <4>2. /\ \A a \in Attempts : a <= traces[w].upTo => receipt[a] = NoReceipt
            /\ traces[w].upTo \in Attempts
        BY <1>2, <2>3, <4>1 DEF CommitFailure, RecordTraces, IInv, TypeOK, Traces
      <4> QED BY <1>2, <4>2, AbandonedDelivery, AttemptsAreNatural
    <3> QED BY <2>3, <3>1 DEF CommitFailure, Remembered, Rememberers
  <2>4. ASSUME UNCHANGED <<receipt, result, disposition>>,
               TakeTraces(w) \/ UNCHANGED traces
        PROVE  StaysAbandoned
    BY <1>1, <1>2, <2>4, Buffers DEF Abandoned, Pending, StaysAbandoned, IInv
  <2>5. CASE Release(w)
    <3>1. receipt'[1] = receipt[1]
      BY <1>2, <2>5, AttemptsAreNatural, WorkerNames DEF Release, Forget, Abandoned
    <3>2. result' = "nobody" /\ disposition' = disposition /\ traces' = traces
      BY <1>2, <2>5, WorkerNames DEF Release, Forget, Abandoned
    <3> QED BY <1>2, <3>1, <3>2 DEF Abandoned, Pending, StaysAbandoned, Rememberers
  <2> QED
    BY <1>2, <2>1, <2>2, <2>3, <2>4, <2>5
    DEF DeliveryStep, Claim, BeforeAttempt, RequestIsRejected, AnswerConflicts,
        FailureConflicts, GiveUp, CommitRefused, LeaveCommit, LeaveTraces
<1>3. ASSUME IInv, Abandoned, NEW w \in Workers, Crash(w)
      PROVE  StaysAbandoned
  <2>1. receipt'[1] = receipt[1]
    BY <1>3, AttemptsAreNatural, WorkerNames DEF Crash, Forget, Abandoned
  <2>2. result' = "nobody" /\ disposition' = disposition
    BY <1>3, WorkerNames DEF Crash, Forget, Abandoned
  <2>3. ForgetsOnly
    BY <1>3, Buffers DEF Crash, IInv
  <2> QED BY <1>1, <1>3, <2>1, <2>2, <2>3 DEF Abandoned, Pending, StaysAbandoned
<1>4. ASSUME IInv, Abandoned,
             \/ \E w \in Workers : LoseLease(w) \/ DeliverAnother(w)
             \/ DeadLeaseExpires
      PROVE  StaysAbandoned
  <2>1. UNCHANGED <<receipt, result, disposition>>
    BY <1>4 DEF LoseLease, DeliverAnother, DeadLeaseExpires
  <2>2. Rememberers' \subseteq Rememberers
    <3>1. ASSUME NEW w \in Workers, DeliverAnother(w)
          PROVE  Rememberers' \subseteq Rememberers
      <4>1. /\ traces \in [Workers -> Traces]
            /\ \E kept : kept.of # "this" /\ traces' = [traces EXCEPT ![w] = kept]
        BY <1>4, <3>1 DEF DeliverAnother, Keep, TakeTraces, NoTraces, IInv, TypeOK
      <4> QED BY <4>1 DEF Rememberers
    <3>2. CASE UNCHANGED traces
      BY <3>2 DEF Rememberers
    <3> QED BY <1>4, <3>1, <3>2 DEF LoseLease, DeadLeaseExpires
  <2> QED BY <1>4, <2>1, <2>2 DEF Abandoned, Pending, StaysAbandoned
<1>5. Supersede => disposition' = "SUPERSEDED"
  BY DEF Supersede
<1>6. ASSUME IInv, [Next]_vars
      PROVE  [Abandoned => \/ StaysAbandoned
                           \/ disposition' = "SUPERSEDED"
                           \/ Remembered]_vars
  BY <1>2, <1>3, <1>4, <1>5, <1>6 DEF Next
<1> QED
  BY <1>6, Invariance, PTL
  DEF Spec, AbandonedNeedsItsTraces, StaysAbandoned, Remembered
-----------------------------------------------------------------------------
\* The job is free, held by a worker, or blocked by a dead one.
LEMMA HolderIs ==
  ASSUME TypeOK
  PROVE  /\ holder \in Workers => holder # "nobody" /\ {holder} \cap Workers = {holder}
         /\ holder \notin Workers => {holder} \cap Workers = {}
BY WorkerNames DEF TypeOK

\* What the deliveries of this module ask of a lease: it goes to one delivery
\* when the job is free, it is lost at any time and not regained, and only
\* its holder gives the verdict.  That is what the rows and tokens of
\* JobLease provide (LeasesAreHeld), so nothing proved here rests on a lease
\* that the storage does not grant.
THEOREM DeliveriesRestOnLeases == Spec => HoldingPromise
<1>1. Init => Holding!Init
  BY WorkerNames DEF Init, Holding!Init
<1>2. ASSUME IInv, [Next]_vars PROVE [Holding!Next]_(Holding!vars)
  <2>0. TypeOK /\ TypeOK'
    BY <1>2, InvStep DEF IInv
  <2>1. ASSUME NEW w \in Workers, Claim(w)
        PROVE  Holding!Take(w, "job")
    BY <2>0, <2>1, HolderIs, WorkerNames DEF Claim, Pending, Holding!Take, Holding!Pending
  <2>2. ASSUME NEW w \in Workers, Commit(w) \/ CommitFailure(w)
        PROVE  Holding!SettleByHolder(w, "job")
    <3>1. /\ holder = w /\ disposition = "none" /\ holder' = holder
          /\ disposition' \in {"COMPLETED", "SUPERSEDED", "TERMINAL_FAILURE"}
      BY <2>2 DEF Commit, CommitFailure, Entitled, Pending
    <3> QED BY <3>1 DEF Holding!SettleByHolder, Holding!Pending
  <2>3. CASE Supersede
    BY <2>3 DEF Supersede, Pending, Holding!SettleByController, Holding!Pending, Holding!Next
  <2>4. ASSUME UNCHANGED disposition,
               \/ holder' = holder \/ holder' = "nobody"
               \/ holder' = "dead" /\ holder \in Workers
        PROVE  Holding!Lose
    BY <2>0, <2>4, HolderIs, WorkerNames DEF Holding!Lose
  <2>5. ASSUME NEW w \in Workers,
               \/ BeforeAttempt(w) \/ AnswerSucceeds(w) \/ AnswerIsTransient(w)
               \/ AnswerDoesNotDecode(w) \/ RequestIsRejected(w) \/ AnswerConflicts(w)
               \/ StoreResult(w) \/ FailureConflicts(w) \/ GiveUp(w)
               \/ CommitRefused(w) \/ LeaveTraces(w) \/ DeliverAnother(w)
        PROVE  UNCHANGED <<holder, disposition>>
    BY <2>5 DEF BeforeAttempt, AnswerSucceeds, AnswerIsTransient,
       AnswerDoesNotDecode, RequestIsRejected, AnswerConflicts, StoreResult,
       FailureConflicts, GiveUp, CommitRefused, LeaveTraces, DeliverAnother
  <2>6. ASSUME NEW w \in Workers, Release(w) \/ LoseLease(w)
        PROVE  UNCHANGED disposition /\ (holder' = holder \/ holder' = "nobody")
    BY <2>6 DEF Release, LoseLease
  <2>7. ASSUME NEW w \in Workers, Crash(w)
        PROVE  /\ UNCHANGED disposition
               /\ \/ holder' = holder
                  \/ holder' = "dead" /\ holder \in Workers
    BY <2>7 DEF Crash
  <2>8. DeadLeaseExpires => UNCHANGED disposition /\ holder' = "nobody"
    BY DEF DeadLeaseExpires
  <2>9. CASE UNCHANGED vars
    BY <2>4, <2>9 DEF vars, Holding!Next
  <2> QED
    BY <1>2, <2>1, <2>2, <2>3, <2>4, <2>5, <2>6, <2>7, <2>8, <2>9
    DEF Next, DeliveryStep, Holding!Next
<1> QED
  BY <1>1, <1>2, Invariance, PTL DEF Spec, HoldingPromise, Holding!Spec
==============================================================================
