--------------------------- MODULE DecisionTable ---------------------------
(***************************************************************************)
(* One stage of the stage machine without its database: an agent runs, the *)
(* runner's output becomes a Result (AgentRunner), and the orchestrator    *)
(* decides what to record for it (StageDecision).  An execution ends in    *)
(* any of Executions; how it comes to end so is AgentProcess.              *)
(***************************************************************************)
EXTENDS StageDecision

CONSTANTS
    Executions     \* the [exit, payload] records an agent run may end with

VARIABLES
    stage,
    execution,     \* {} until the agent has ended, then {its execution}
    result,        \* {} until the agent has run, then {its Result}
    verdict        \* {} until the orchestrator decided, then {its verdict}

vars == <<stage, execution, result, verdict>>

Init ==
    /\ stage \in Stages
    /\ execution = {}
    /\ result = {}
    /\ verdict = {}

Endings == {{e} : e \in Executions}

AgentEnds ==
    /\ execution = {}
    /\ execution' \in Endings
    /\ UNCHANGED <<stage, result, verdict>>

AgentReturns ==
    /\ result = {}
    /\ \E e \in execution : result' = {RunAgent(stage, e)}
    /\ UNCHANGED <<stage, execution, verdict>>

OrchestratorDecides ==
    /\ verdict = {}
    /\ \E res \in result : verdict' = {Verdict(stage, res)}
    /\ UNCHANGED <<stage, execution, result>>

Next == AgentEnds \/ AgentReturns \/ OrchestratorDecides

Spec == Init /\ [][Next]_vars

----------------------------------------------------------------------------
(* Properties *)

Advancing == {"developer_completed", "qa_passed", "review_passed"}

(* Whatever makes the runner fail at whichever stage, the stage is run     *)
(* again and nothing is recorded.  The orchestrator knows only three of    *)
(* the runner's failure codes; the others have to reach it as next_action  *)
(* retry.                                                                  *)
RunnerFailuresAreRetried ==
    \A e \in execution, v \in verdict : e.exit # "ok" => v.event = "retry"

(* A stage advances only on a complete payload of a process that succeeded *)
(* and that says it passed; a review only without findings.                *)
OnlySoundWorkAdvances ==
    \A e \in execution, v \in verdict : v.event \in Advancing =>
        /\ e.exit = "ok"
        /\ e.payload.complete
        /\ e.payload.status \in PassingStatuses
        /\ stage = "review" => e.payload.findings = {}
        /\ stage = "developer" => ~e.payload.upstream

(* Every verdict that fails or stops a task has a fingerprint to record.   *)
FailuresHaveFingerprints ==
    \A v \in verdict : v.event \notin Advancing => v.fp # NoFp

(* The review-result-tool decides what the reviewer's status says: the     *)
(* checks of run-agent-tool and of the tool agree, so findings in order    *)
(* never make it refuse the reviewer's answer.                             *)
ReviewAgreesWithReviewer ==
    \A e \in execution, v \in verdict, res \in result :
        stage = "review" /\ v.event # "retry" /\ FindingsAccepted(res.findings)
        => v.event = ReviewEvent(ReviewerStatus(e.payload.status))

(* A developer or QA agent that asks for a human, and is not to be retried,*)
(* blocks the task; no other word of its answer overrides that.            *)
HumanRequestsBlock ==
    \A e \in execution, v \in verdict :
        /\ stage \in {"developer", "qa"}
        /\ v.event # "retry"
        /\ e.payload.next = "await_human"
        => v.event \in {"developer_blocked", "task_blocked"}

(* A reviewer may answer with the canonical statuses pass, request_changes *)
(* and awaiting_human (README.md:94, TECH-V1.md:431); such an answer, in   *)
(* order otherwise, is a verdict.                                          *)
CanonicalStatusesAreVerdicts ==
    \A e \in execution, v \in verdict :
        LET p == e.payload
        IN  /\ stage = "review"
            /\ e.exit = "ok"
            /\ p.complete
            /\ p.next # "retry"
            /\ ReviewRequestValid(FromPayload(p))
            => v.event # "retry"
=============================================================================
