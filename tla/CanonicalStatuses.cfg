SPECIFICATION Spec
CONSTANT Executions <- ReviewerExecutions
CHECK_DEADLOCK FALSE
INVARIANT CanonicalStatusesAreVerdicts
