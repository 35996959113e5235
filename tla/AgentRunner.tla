---------------------------- MODULE AgentRunner ----------------------------
(***************************************************************************)
(* How internal/agentrun turns one execution of a runner CLI (codex or     *)
(* claude) into the structured Result the orchestrator consumes.           *)
(*                                                                         *)
(* An execution is a record [exit, payload]:                               *)
(*   exit     how the process ended, "ok", "timeout" (the run's deadline), *)
(*            "rate_limited" or "error";                                   *)
(*   payload  what it wrote:                                               *)
(*     complete  it parses and has every required field,                   *)
(*     status, next, fp, findings  the fields of the JSON object,          *)
(*     upstream  a developer payload that reuses artifact refs or findings *)
(*               of a QA or reviewer run.                                  *)
(*                                                                         *)
(* A fingerprint is the set of the tokens it is built from, {} when empty; *)
(* a finding is [id, reviewer, sound]: its finding_fingerprint, its        *)
(* reviewer_id and whether its remaining fields (lens, severity, file refs *)
(* ...) are the ones the review asks for.                                  *)
(***************************************************************************)

Stages == {"developer", "qa", "review"}

NoFp == {}

(* The statuses a payload may carry; every other value is malformed.       *)
AllowedStatuses ==
    {"blocked", "completed", "completed_with_findings", "fail", "failed",
     "findings_detected", "needs_changes", "needs_fix", "pass",
     "pass_with_findings", "passed", "passed_with_warning", "success",
     "timeout"}

ReviewerPassAliases ==
    {"approve", "completed", "pass", "passed", "passed_with_warning", "success"}

ReviewerRequestChangesAliases ==
    {"completed_with_findings", "findings_detected", "needs_changes",
     "needs_fix", "pass_with_findings", "request_changes"}

ReviewerAwaitingHumanAliases ==
    {"awaiting_human", "blocked", "fail", "failed", "timeout"}

ValidPayload(p) == p.complete /\ p.status \in AllowedStatuses

(* Every failure the runner reports itself asks for a retry.               *)
Failure(status, code) ==
    [status |-> status, next |-> "retry", fp |-> {code}, findings |-> {}]

Malformed == Failure("failed", "malformed_output")

FromPayload(p) ==
    [status |-> p.status, next |-> p.next, fp |-> p.fp, findings |-> p.findings]

(* The three canonical statuses, or "unsupported".                         *)
ReviewerStatus(raw) ==
    IF raw \in ReviewerPassAliases THEN "pass"
    ELSE IF raw \in ReviewerRequestChangesAliases THEN "request_changes"
    ELSE IF raw \in ReviewerAwaitingHumanAliases THEN "awaiting_human"
    ELSE "unsupported"

NormalizeReviewerResult(result) ==
    LET status == ReviewerStatus(result.status)
    IN  IF \/ status = "unsupported"
           \/ status = "request_changes" /\ result.findings = {}
           \/ status = "pass" /\ result.findings # {}
        THEN Malformed
        ELSE [result EXCEPT !.status = status]

(* Mutants: a rate limit is final; a failed process's payload is believed. *)
RateLimitIsFinal(e) ==
    IF e.exit = "rate_limited"
    THEN [Failure("failed", "runner_rate_limited") EXCEPT !.next = "stop"]
    ELSE Failure("failed", "runner_execution_failed")

PayloadIsBelieved(e) ==
    IF ValidPayload(e.payload) THEN FromPayload(e.payload) ELSE Malformed

(* A process that failed is never believed, even if it left a payload.     *)
FailedRun(e) ==
    CASE e.exit = "timeout"      -> Failure("timeout", "runner_timeout")
      [] e.exit = "rate_limited" -> Failure("failed", "runner_rate_limited")
      [] OTHER -> IF ValidPayload(e.payload)
                  THEN Failure("failed", "runner_execution_failed")
                  ELSE Malformed

CompletedRun(stage, p) ==
    IF ~ValidPayload(p) \/ (stage = "developer" /\ p.upstream) THEN Malformed
    ELSE IF stage = "review" THEN NormalizeReviewerResult(FromPayload(p))
    ELSE FromPayload(p)

RunAgent(stage, e) ==
    IF e.exit = "ok" THEN CompletedRun(stage, e.payload) ELSE FailedRun(e)
=============================================================================
