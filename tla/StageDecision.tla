--------------------------- MODULE StageDecision ---------------------------
(***************************************************************************)
(* The decisions of internal/orchestrator on the Result of a stage, and    *)
(* the review-result-tool (internal/reviewagg) it consults for reviews.    *)
(* A result is [status, next, fp, findings] as AgentRunner builds it.      *)
(***************************************************************************)
EXTENDS AgentRunner, FiniteSets, Naturals

PassingStatuses ==
    {"success", "completed", "completed_with_findings", "pass",
     "pass_with_findings", "passed", "passed_with_warning"}

IsPassing(result) == result.status \in PassingStatuses

(* A retryable result moves nothing: the same stage runs again.            *)
IsRetryable(result) ==
    \/ result.next = "retry"
    \/ result.status = "timeout"
    \/ result.fp \in {{"malformed_output"}, {"runner_execution_failed"},
                      {"runner_timeout"}}

NextActionAdvances(stage, next) ==
    \/ next \in {"proceed", "continue", "next", "advance"}
    \/ /\ stage = "developer"
       /\ next \in {"qa", "run_qa", "start_qa", "enter_qa", "to_qa"}
    \/ /\ stage = "qa"
       /\ next \in {"review", "run_review", "start_review", "enter_review",
                    "to_review"}
    \/ stage = "review" /\ next = "open_task_pr"

(* Mutant: the word has to match as a whole.                               *)
RequestsHumanExactly(next) == next = "human"

(* strings.Contains(next, "human"), over the values agents use.            *)
RequestsHuman(next) == next \in {"human", "await_human", "awaiting_human",
                                 "needs_human"}

Blocks(next) == next \in {"block", "blocked", "stop", "escalate", "escalated"}

----------------------------------------------------------------------------
(* review-result-tool *)

(* Findings that name no reviewer take the parent's; the parent's id is    *)
(* the first one named, so two different names can never both match.       *)
FindingsAccepted(findings) ==
    /\ \A f \in findings : f.sound /\ f.id # ""
    /\ \A f, g \in findings :
          f.reviewer # "" /\ g.reviewer # "" => f.reviewer = g.reviewer

ReviewRequestValid(result) ==
    /\ result.status \in {"pass", "request_changes", "awaiting_human"}
    /\ FindingsAccepted(result.findings)
    /\ result.status = "request_changes" => result.findings # {}
    /\ result.status = "pass" => result.findings = {}

(* Mutant: findings are looked at before the reviewer's escalation.        *)
AggregateFindingsFirst(result) ==
    IF result.findings # {} THEN "request_changes"
    ELSE IF result.status = "awaiting_human" THEN "awaiting_human"
    ELSE "pass"

AggregateDecision(result) ==
    IF result.status = "awaiting_human" THEN "awaiting_human"
    ELSE IF result.findings # {} THEN "request_changes"
    ELSE "pass"

(* A request the tool refuses is a failed review: no finding survives and  *)
(* the task goes back to the developer.                                    *)
ReviewDecision(result) ==
    IF ReviewRequestValid(result)
    THEN [decision |-> AggregateDecision(result), fp |-> result.fp,
          findings |-> result.findings]
    ELSE [decision |-> "request_changes",
          fp |-> {"review-result-tool", "invalid_request"}, findings |-> {}]

----------------------------------------------------------------------------
(* Failure fingerprints *)

FindingsFingerprint(stage, findings) ==
    LET ids == {f.id : f \in findings} \ {""}
    IN  IF Cardinality(ids) <= 1 THEN ids ELSE ids \cup {stage, "findings"}

(* Mutant: no fallback to the stage, status and next action.               *)
FingerprintIfGiven(stage, result) ==
    IF result.fp # NoFp THEN result.fp ELSE FindingsFingerprint(stage, result.findings)

StageFingerprint(stage, result) ==
    IF result.fp # NoFp THEN result.fp
    ELSE IF FindingsFingerprint(stage, result.findings) # NoFp
    THEN FindingsFingerprint(stage, result.findings)
    ELSE {stage, result.status, result.next}

ReviewFingerprint(review) ==
    IF review.fp # NoFp THEN review.fp
    ELSE IF FindingsFingerprint("review", review.findings) # NoFp
    THEN FindingsFingerprint("review", review.findings)
    ELSE {"review", review.decision}

----------------------------------------------------------------------------
(* Verdicts.  event is the event the stage records, or "retry" when the    *)
(* result is retryable and nothing is recorded; fp is the fingerprint the  *)
(* stage result carries afterwards; own says the agent supplied it; and    *)
(* findings are the review_findings rows filed under the event.            *)

Ruling(event, fp, own, findings) ==
    [event |-> event, fp |-> fp, own |-> own, findings |-> findings]

Retry(stage, result) ==
    Ruling("retry", StageFingerprint(stage, result), result.fp # NoFp, {})

DeveloperVerdict(result) ==
    IF IsPassing(result) /\ NextActionAdvances("developer", result.next)
    THEN Ruling("developer_completed", result.fp, result.fp # NoFp, {})
    ELSE Ruling("developer_blocked", StageFingerprint("developer", result),
                result.fp # NoFp, {})

QAVerdict(result) ==
    IF RequestsHuman(result.next) \/ Blocks(result.next)
    THEN Ruling("task_blocked", StageFingerprint("qa", result), result.fp # NoFp, {})
    ELSE IF IsPassing(result) /\ NextActionAdvances("qa", result.next)
    THEN Ruling("qa_passed", result.fp, result.fp # NoFp, {})
    ELSE Ruling("qa_failed", StageFingerprint("qa", result), result.fp # NoFp, {})

ReviewEvent(decision) ==
    CASE decision = "pass"           -> "review_passed"
      [] decision = "awaiting_human" -> "review_awaits_human"
      [] OTHER                       -> "review_changes_requested"

ReviewVerdict(result) ==
    LET review == ReviewDecision(result)
    IN  Ruling(ReviewEvent(review.decision),
               IF review.decision = "pass" THEN review.fp
               ELSE ReviewFingerprint(review),
               review.fp # NoFp,
               review.findings)

Verdict(stage, result) ==
    CASE IsRetryable(result)   -> Retry(stage, result)
      [] ~IsRetryable(result) /\ stage = "developer" -> DeveloperVerdict(result)
      [] ~IsRetryable(result) /\ stage = "qa"        -> QAVerdict(result)
      [] OTHER                                       -> ReviewVerdict(result)
=============================================================================
