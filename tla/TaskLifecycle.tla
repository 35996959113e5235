--------------------------- MODULE TaskLifecycle ---------------------------
(***************************************************************************)
(* What the orchestrator promises about one task, whatever the calls that  *)
(* drive it do: an attempt goes through Developer, QA and Review in this   *)
(* order, each stage of an attempt is decided at most once, only a failed  *)
(* verdict opens another attempt, and a parked task stays parked.          *)
(***************************************************************************)
EXTENDS Naturals

VARIABLES
    status,
    attempt,
    decided     \* the <<stage, attempt>> pairs that have a verdict

lifecycle == <<status, attempt, decided>>

Outcomes(stage) ==
    CASE stage = "developer" -> {"qa_in_progress", "blocked"}
      [] stage = "qa"        -> {"review_in_progress", "qa_failed", "blocked"}
      [] OTHER               -> {"pr_open", "awaiting_human", "review_failed"}

Working(stage) ==
    CASE stage = "developer" -> "dev_in_progress"
      [] stage = "qa"        -> "qa_in_progress"
      [] OTHER               -> "review_in_progress"

Init == status = "in_progress" /\ attempt = 1 /\ decided = {}

Begin ==
    /\ status = "in_progress"
    /\ status' = "dev_in_progress"
    /\ UNCHANGED <<attempt, decided>>

Decide(stage) ==
    /\ status = Working(stage)
    /\ <<stage, attempt>> \notin decided
    /\ status' \in Outcomes(stage)
    /\ decided' = decided \cup {<<stage, attempt>>}
    /\ UNCHANGED attempt

Retry ==
    /\ status \in {"qa_failed", "review_failed"}
    /\ status' = "dev_in_progress"
    /\ attempt' = attempt + 1
    /\ UNCHANGED decided

(* The transition budget or a human ends the automatic work.               *)
Park ==
    /\ status \in {"in_progress", "dev_in_progress", "qa_in_progress",
                   "qa_failed", "review_in_progress", "review_failed"}
    /\ status' \in {"escalated", "awaiting_human"}
    /\ UNCHANGED <<attempt, decided>>

Next ==
    \/ Begin \/ Retry \/ Park
    \/ \E stage \in {"developer", "qa", "review"} : Decide(stage)

Spec == Init /\ [][Next]_lifecycle
=============================================================================
