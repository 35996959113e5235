------------------------ MODULE DecisionTable_proofs ------------------------
(***************************************************************************)
(* What TLC checks on a table of executions holds for every execution.     *)
(***************************************************************************)
EXTENDS DecisionTable, TLAPS

(* The table's invariant: what was returned and decided is what the        *)
(* operators say, and nothing else changes.                                *)
Decided ==
    /\ stage \in Stages
    /\ \/ execution = {} /\ result = {} /\ verdict = {}
       \/ \E e : /\ execution = {e}
                /\ result \subseteq {RunAgent(stage, e)}
                /\ verdict \subseteq {Verdict(stage, RunAgent(stage, e))}

(* The invariant holds of every behaviour.                                 *)
LEMMA Invariance == Spec => []Decided
<1>1. Init => Decided
  BY DEF Init, Decided
<1>2. Decided /\ [Next]_vars => Decided'
  <2> SUFFICES ASSUME Decided, [Next]_vars PROVE Decided'
    OBVIOUS
  <2>1. CASE AgentEnds
    BY <2>1 DEF Decided, AgentEnds, Endings
  <2>2. CASE AgentReturns
    BY <2>2 DEF Decided, AgentReturns
  <2>3. CASE OrchestratorDecides
    BY <2>3 DEF Decided, OrchestratorDecides
  <2>4. CASE UNCHANGED vars
    BY <2>4 DEF Decided, vars
  <2> QED  BY <2>1, <2>2, <2>3, <2>4 DEF Next
<1> QED  BY <1>1, <1>2, PTL DEF Spec

(* What the runner reports of a failed process, and of a payload it cannot *)
(* accept, is a result to be retried.                                      *)
LEMMA FailuresAreRetryable ==
    /\ \A e : IsRetryable(FailedRun(e))
    /\ IsRetryable(Malformed)
BY DEF IsRetryable, FailedRun, Malformed, Failure

(* A retryable result records nothing.                                     *)
LEMMA RetryableVerdict ==
    ASSUME NEW s, NEW res, IsRetryable(res)
    PROVE  Verdict(s, res).event = "retry"
BY DEF Verdict, Retry, Ruling

(* A result that is not retried comes from an accepted payload: its fields *)
(* are the payload's, a reviewer's status in its canonical form.           *)
LEMMA AcceptedPayload ==
    ASSUME NEW s \in Stages, NEW e, ~IsRetryable(RunAgent(s, e))
    PROVE  /\ e.exit = "ok"
           /\ ValidPayload(e.payload)
           /\ s = "developer" => ~e.payload.upstream
           /\ LET res == RunAgent(s, e)
                  p   == e.payload
              IN  /\ res.next = p.next /\ res.fp = p.fp /\ res.findings = p.findings
                  /\ s # "review" => res.status = p.status
                  /\ s = "review" =>
                       /\ res.status = ReviewerStatus(p.status)
                       /\ res.status \in {"pass", "request_changes", "awaiting_human"}
                       /\ res.status = "request_changes" => res.findings # {}
                       /\ res.status = "pass" => res.findings = {}
<1> DEFINE p == e.payload
<1>1. e.exit = "ok" /\ RunAgent(s, e) = CompletedRun(s, p)
  BY FailuresAreRetryable DEF RunAgent
<1>2. ValidPayload(p) /\ (s = "developer" => ~p.upstream)
  <2>1. CASE ~ValidPayload(p)
    BY <1>1, <2>1, FailuresAreRetryable DEF CompletedRun
  <2>2. CASE ValidPayload(p) /\ s = "developer" /\ p.upstream
    BY <1>1, <2>2, FailuresAreRetryable DEF CompletedRun
  <2> QED  BY <2>1, <2>2
<1>3. CASE s # "review"
  <2>1. RunAgent(s, e) = FromPayload(p)
    BY <1>1, <1>2, <1>3 DEF CompletedRun
  <2> QED  BY <1>1, <1>2, <1>3, <2>1 DEF FromPayload
<1>4. CASE s = "review"
  <2> DEFINE status == ReviewerStatus(p.status)
  <2>1. RunAgent(s, e) = NormalizeReviewerResult(FromPayload(p))
    BY <1>1, <1>2, <1>4 DEF CompletedRun
  <2>2. /\ status # "unsupported"
        /\ status = "request_changes" => p.findings # {}
        /\ status = "pass" => p.findings = {}
        /\ RunAgent(s, e) = [FromPayload(p) EXCEPT !.status = status]
    BY <2>1, FailuresAreRetryable DEF NormalizeReviewerResult, FromPayload
  <2>3. status \in {"pass", "request_changes", "awaiting_human", "unsupported"}
    BY DEF ReviewerStatus
  <2> HIDE DEF status
  <2> QED  BY <1>1, <1>2, <1>4, <2>2, <2>3 DEF FromPayload, status
<1> QED  BY <1>3, <1>4

----------------------------------------------------------------------------
(* Whatever makes the runner fail, at whichever stage, nothing is recorded *)
(* and the stage is run again.                                             *)
THEOREM FailuresRetry == Spec => []RunnerFailuresAreRetried
<1>1. Decided => RunnerFailuresAreRetried
  BY FailuresAreRetryable, RetryableVerdict DEF Decided, RunnerFailuresAreRetried, RunAgent
<1> QED  BY <1>1, Invariance, PTL

(* A stage advances only on a sound payload of a process that succeeded.   *)
THEOREM SoundWorkAdvances == Spec => []OnlySoundWorkAdvances
<1>1. ASSUME NEW s \in Stages, NEW e, Verdict(s, RunAgent(s, e)).event \in Advancing
      PROVE  /\ e.exit = "ok" /\ e.payload.complete
             /\ e.payload.status \in PassingStatuses
             /\ s = "review" => e.payload.findings = {}
             /\ s = "developer" => ~e.payload.upstream
  <2> DEFINE res == RunAgent(s, e)
  <2>1. ~IsRetryable(res)
    BY <1>1, RetryableVerdict DEF Advancing
  <2>2. CASE s = "developer"
    BY <1>1, <2>1, <2>2, AcceptedPayload
       DEF Verdict, DeveloperVerdict, Ruling, Advancing, IsPassing, ValidPayload
  <2>3. CASE s = "qa"
    BY <1>1, <2>1, <2>3, AcceptedPayload
       DEF Verdict, QAVerdict, Ruling, Advancing, IsPassing, ValidPayload
  <2>4. CASE s = "review"
    <3>1. ReviewVerdict(res).event \in Advancing
      BY <1>1, <2>1, <2>4 DEF Verdict
    <3>2. ReviewDecision(res).decision = "pass"
      BY <3>1 DEF ReviewVerdict, Ruling, ReviewEvent, Advancing
    <3>3. ReviewRequestValid(res) /\ AggregateDecision(res) = "pass"
      BY <3>2 DEF ReviewDecision
    <3>4. res.findings = {} /\ res.status = "pass"
      BY <3>3 DEF AggregateDecision, ReviewRequestValid
    <3>5. ReviewerStatus(e.payload.status) = "pass" /\ ValidPayload(e.payload)
          /\ e.exit = "ok" /\ e.payload.findings = {}
      BY <2>1, <2>4, <3>4, AcceptedPayload
    <3>6. e.payload.status \in ReviewerPassAliases \cap AllowedStatuses
      BY <3>5 DEF ReviewerStatus, ValidPayload
    <3>7. e.payload.status \in PassingStatuses
      BY <3>6 DEF ReviewerPassAliases, AllowedStatuses, PassingStatuses
    <3> QED  BY <2>4, <3>5, <3>7 DEF ValidPayload
  <2> QED  BY <2>2, <2>3, <2>4 DEF Stages
<1>2. Decided => OnlySoundWorkAdvances
  BY <1>1 DEF Decided, OnlySoundWorkAdvances
<1> QED  BY <1>2, Invariance, PTL

(* Every verdict that fails or stops a task has a fingerprint.             *)
THEOREM FailuresAreFingerprinted == Spec => []FailuresHaveFingerprints
<1>1. NoFp = {}
  BY DEF NoFp
<1>2. \A s, res : StageFingerprint(s, res) # NoFp
  BY <1>1 DEF StageFingerprint
<1>3. \A review : ReviewFingerprint(review) # NoFp
  BY <1>1 DEF ReviewFingerprint
<1>4. ASSUME NEW s \in Stages, NEW res, Verdict(s, res).event \notin Advancing
      PROVE  Verdict(s, res).fp # NoFp
  <2>1. CASE IsRetryable(res)
    BY <1>2, <2>1 DEF Verdict, Retry, Ruling
  <2>2. CASE ~IsRetryable(res) /\ s = "developer"
    BY <1>2, <1>4, <2>2 DEF Verdict, DeveloperVerdict, Ruling, Advancing
  <2>3. CASE ~IsRetryable(res) /\ s = "qa"
    BY <1>2, <1>4, <2>3 DEF Verdict, QAVerdict, Ruling, Advancing
  <2>4. CASE ~IsRetryable(res) /\ s = "review"
    BY <1>3, <1>4, <2>4 DEF Verdict, ReviewVerdict, Ruling, ReviewEvent, Advancing
  <2> QED  BY <2>1, <2>2, <2>3, <2>4 DEF Stages
<1>5. Decided => FailuresHaveFingerprints
  BY <1>4 DEF Decided, FailuresHaveFingerprints
<1> QED  BY <1>5, Invariance, PTL

(* The review-result-tool follows the reviewer's status.                   *)
THEOREM ToolFollowsReviewer == Spec => []ReviewAgreesWithReviewer
<1>1. ASSUME NEW e, Verdict("review", RunAgent("review", e)).event # "retry",
             FindingsAccepted(RunAgent("review", e).findings)
      PROVE  Verdict("review", RunAgent("review", e)).event
               = ReviewEvent(ReviewerStatus(e.payload.status))
  <2> DEFINE res == RunAgent("review", e)
  <2>1. ~IsRetryable(res)
    BY <1>1, RetryableVerdict
  <2>2. /\ res.status = ReviewerStatus(e.payload.status)
        /\ res.status \in {"pass", "request_changes", "awaiting_human"}
        /\ res.status = "request_changes" => res.findings # {}
        /\ res.status = "pass" => res.findings = {}
    BY <2>1, AcceptedPayload DEF Stages
  <2> HIDE DEF res
  <2>3. Verdict("review", res) = ReviewVerdict(res)
    BY <2>1 DEF Verdict
  <2>4. ReviewRequestValid(res)
    BY <1>1, <2>2 DEF ReviewRequestValid, res
  <2>5. ReviewDecision(res).decision = res.status
    <3>1. AggregateDecision(res) = res.status
      BY <2>2 DEF AggregateDecision
    <3> QED  BY <2>4, <3>1 DEF ReviewDecision
  <2> QED  BY <2>2, <2>3, <2>5 DEF ReviewVerdict, Ruling, res
<1>2. Decided => ReviewAgreesWithReviewer
  BY <1>1 DEF Decided, ReviewAgreesWithReviewer
<1> QED  BY <1>2, Invariance, PTL

(* An agent that asks for a human blocks the task.                         *)
THEOREM HumansAreHeard == Spec => []HumanRequestsBlock
<1>1. ASSUME NEW s \in {"developer", "qa"}, NEW e, e.payload.next = "await_human",
             Verdict(s, RunAgent(s, e)).event # "retry"
      PROVE  Verdict(s, RunAgent(s, e)).event \in {"developer_blocked", "task_blocked"}
  <2> DEFINE res == RunAgent(s, e)
  <2>1. ~IsRetryable(res) /\ res.next = "await_human"
    BY <1>1, RetryableVerdict, AcceptedPayload DEF Stages
  <2> HIDE DEF res
  <2>2. CASE s = "developer"
    BY <2>1, <2>2 DEF Verdict, DeveloperVerdict, Ruling, NextActionAdvances, res
  <2>3. CASE s = "qa"
    BY <2>1, <2>3 DEF Verdict, QAVerdict, Ruling, RequestsHuman, res
  <2> QED  BY <2>2, <2>3
<1>2. Decided => HumanRequestsBlock
  BY <1>1 DEF Decided, HumanRequestsBlock
<1> QED  BY <1>2, Invariance, PTL
=============================================================================
