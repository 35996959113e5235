------------------------ MODULE MCTaskStageMachine ------------------------
(***************************************************************************)
(* Instances of TaskStageMachine for TLC.  The results are the ones that   *)
(* lead the decision operators to each of their verdicts.                  *)
(***************************************************************************)
EXTENDS TaskStageMachine, TLC

CONSTANTS r1, r2

OneRun  == {r1}
TwoRuns == {r1, r2}
RunSymmetry == Permutations(TwoRuns)

Answer(status, next, fp, findings) ==
    [status |-> status, next |-> next, fp |-> fp, findings |-> findings]

By(reviewer, id) == [id |-> id, reviewer |-> reviewer, sound |-> TRUE]

Completed  == Answer("completed", "proceed", NoFp, {})
Stuck      == Answer("blocked", "await_human", {"missing_secret"}, {})
GaveUp     == Answer("failed", "rework", NoFp, {})
MalformedAnswer == Malformed

Passed     == Answer("pass", "review", NoFp, {})
Broken     == Answer("failed", "return_to_developer", {"build"}, {})
Undecided  == Answer("pass", "await_human", NoFp, {})
TimedOut   == Failure("timeout", "runner_timeout")

Approved   == Answer("pass", "open_task_pr", NoFp, {})
Rejection  == Answer("request_changes", "fix", NoFp, {By("rv", "race")})
Disowned   == Answer("request_changes", "fix", NoFp,
                     {By("rv", "race"), By("other", "leak")})
Deferred   == Answer("awaiting_human", "fix", NoFp, {})

MCWords ==
    {"completed", "proceed", "blocked", "await_human", "missing_secret", "failed",
     "rework", "retry", "malformed_output", "pass", "review", "build", "timeout",
     "return_to_developer", "runner_timeout", "open_task_pr", "request_changes",
     "fix", "awaiting_human", "rv", "other", "race", "leak"}

MCDeveloperResults == {Completed, Stuck, GaveUp, MalformedAnswer}
MCQAResults        == {Passed, Broken, Undecided, TimedOut}
MCReviewResults    == {Approved, Rejection, Disowned, Deferred, TimedOut}

(* One result per verdict, for the larger interleavings.                   *)
FewDeveloperResults == {Completed, Stuck, MalformedAnswer}
FewQAResults        == {Passed, Broken}
FewReviewResults    == {Approved, Rejection, Deferred}

=============================================================================
