------------------------- MODULE TaskStageMachine -------------------------
(***************************************************************************)
(* internal/orchestrator: the calls of RunTask that drive one task from    *)
(* the leader's hand-over (status in_progress, attempt 1) through          *)
(* Developer, QA and Review.                                               *)
(*                                                                         *)
(* Shared state is the task's row in the tasks table and its rows in the   *)
(* append-only events table; a database transaction is one step.  Between  *)
(* its transactions a call holds a snapshot of the row that other calls    *)
(* and a human may have made stale.  Agents answer with any result of      *)
(* DeveloperResults, QAResults or ReviewResults.                           *)
(***************************************************************************)
EXTENDS StageDecision, Integers, Sequences

CONSTANTS
    Runs,                   \* concurrent callers of RunTask
    Words,                  \* what agents fill statuses, actions and names with
    DeveloperResults,       \* the results an agent of each stage may return
    QAResults,
    ReviewResults,
    MaxStageTransitions,    \* RunTaskOptions.MaxStageTransitions
    MaxCalls,               \* bound: calls of RunTask in a behaviour
    MaxAborts,              \* bound: calls ended by an error or a crash
    TakeoverAllowed         \* whether a human may park the task meanwhile

Finding == [id : Words, reviewer : Words, sound : BOOLEAN]

Result == [status : Words, next : Words, fp : SUBSET Words,
           findings : SUBSET Finding]

ASSUME ConstantsAssumption ==
    /\ DeveloperResults \subseteq Result
    /\ QAResults \subseteq Result
    /\ ReviewResults \subseteq Result
    /\ MaxStageTransitions \in Nat \ {0}
    /\ MaxCalls \in Nat
    /\ MaxAborts \in Nat
    /\ TakeoverAllowed \in BOOLEAN

Active == {"in_progress", "dev_in_progress", "qa_in_progress", "qa_failed",
           "review_in_progress", "review_failed"}
Parked == {"pr_open", "blocked", "escalated", "awaiting_human"}
Statuses == Active \cup Parked

(* The events that carry the result of a stage.                            *)
StageEvents(stage) ==
    CASE stage = "developer" -> {"developer_completed", "developer_blocked"}
      [] stage = "qa"        -> {"qa_passed", "qa_failed", "task_blocked"}
      [] OTHER               -> {"review_passed", "review_changes_requested",
                                 "review_awaits_human"}

VARIABLES
    row,    \* the task's row: [status, attempt, qaFails, reviewFails, fp, needsHuman]
    log,    \* the task's events, oldest first
    run,    \* what each caller keeps in memory during a call
    calls,  \* calls made so far
    aborts  \* calls aborted so far

vars == <<row, log, run, calls, aborts>>

(* The stage an event carries the result of; "none" for the others.        *)
StageOfEvent(type) ==
    CASE type \in StageEvents("developer") -> "developer"
      [] type \in StageEvents("qa")        -> "qa"
      [] type \in StageEvents("review")    -> "review"
      [] OTHER                             -> "none"

(* workedOn is the attempt the agent was run for, 0 where no agent ran;    *)
(* findings are the rows of review_findings filed under the event.         *)
Event(type, attempt, from, to, workedOn, fp, findings) ==
    [type |-> type, attempt |-> attempt, from |-> from, to |-> to,
     stage |-> StageOfEvent(type), workedOn |-> workedOn, fp |-> fp,
     findings |-> findings]

(* Mutant: an idempotency key without the attempt.                         *)
AppendOncePerType(events, e) ==
    IF \E i \in DOMAIN events : events[i].type = e.type
    THEN events
    ELSE Append(events, e)

(* INSERT ... ON CONFLICT (idempotency_key) DO NOTHING; the key of a       *)
(* task's event is its type and attempt.                                   *)
AppendEvent(events, e) ==
    IF \E i \in DOMAIN events :
          events[i].type = e.type /\ events[i].attempt = e.attempt
    THEN events
    ELSE Append(events, e)

(* Mutant: the events are read in the order they were written.             *)
EarliestRefs(events, stage) ==
    LET I == {i \in DOMAIN events :
                /\ events[i].stage = stage
                /\ \A j \in 1 .. i - 1 : events[j].stage # stage}
    IN  IF I = {} THEN 0 ELSE events[CHOOSE i \in I : TRUE].workedOn

(* loadLatestStageArtifactRefs: artifacts are named by the attempt they    *)
(* belong to, 0 when there are none.  task_escalated repeats the refs of   *)
(* the last stage, which nothing reads: the task is parked.                *)
LatestRefs(events, stage) ==
    LET I == {i \in DOMAIN events :
                /\ events[i].stage = stage
                /\ \A j \in i + 1 .. Len(events) : events[j].stage # stage}
    IN  IF I = {} THEN 0 ELSE events[CHOOSE i \in I : TRUE].workedOn

NoSnapshot == [status |-> "none", attempt |-> 0, qaFails |-> 0,
               reviewFails |-> 0, fp |-> NoFp, needsHuman |-> FALSE]

NoRefs == [stage \in Stages |-> 0]

NoResult == [stage |-> "none", fp |-> NoFp]

(* pc is where the call stands and answer the status the last call         *)
(* returned, "error" when it failed.                                       *)
Idle(answer) ==
    [pc |-> "idle", snap |-> NoSnapshot, transitions |-> 0, refs |-> NoRefs,
     last |-> NoResult, answer |-> answer]

Init ==
    /\ row = [status |-> "in_progress", attempt |-> 1, qaFails |-> 0,
              reviewFails |-> 0, fp |-> NoFp, needsHuman |-> FALSE]
    /\ log = <<Event("task_started", 1, "todo", "in_progress", 0, NoFp, {})>>
    /\ run = [r \in Runs |-> Idle("none")]
    /\ calls = 0
    /\ aborts = 0

----------------------------------------------------------------------------
(* Steps every handler shares *)

Return(r, answer) == run' = [run EXCEPT ![r] = Idle(answer)]

(* Mutants: a write guarded by the status alone, or by the attempt alone.  *)
WriteAllowedByStatus(status, attempt) == row.status = status
WriteAllowedByAttempt(status, attempt) == row.attempt = attempt

(* ensureStageWriteAllowed                                                 *)
WriteAllowed(status, attempt) ==
    /\ row.status = status
    /\ attempt > 0 => row.attempt = attempt

(* handleStageWriteRejected: the call answers with the row as it is.       *)
Rejected(r) == Return(r, row.status) /\ UNCHANGED <<row, log>>

(* The status of the row a stage left behind decides whether the call      *)
(* returns or spends one more transition.                                  *)
StopsAfter(stage, status) ==
    \/ stage = "developer" /\ status = "blocked"
    \/ stage = "review" /\ status \in {"pr_open", "awaiting_human"}

(* Mutants: an exhausted budget just returns; a retry spends no budget.    *)
NextIterationOrReturn(r, me) ==
    IF me.transitions + 1 < MaxStageTransitions
    THEN run' = [run EXCEPT ![r] =
            [me EXCEPT !.transitions = @ + 1, !.pc = "load"]]
    ELSE Return(r, me.snap.status)

NextIterationFreeRetry(r, me) ==
    LET spent == IF me.pc = "settle" THEN me.transitions + 1 ELSE me.transitions
    IN  run' = [run EXCEPT ![r] =
            [me EXCEPT !.transitions = spent,
                       !.pc = IF spent < MaxStageTransitions
                              THEN "load" ELSE "budget"]]

NextIteration(r, me) ==
    LET spent == me.transitions + 1
    IN  IF StopsAfter(me.last.stage, me.snap.status)
        THEN Return(r, me.snap.status)
        ELSE run' = [run EXCEPT ![r] =
                [me EXCEPT !.transitions = spent,
                           !.pc = IF spent < MaxStageTransitions
                                  THEN "load" ELSE "budget"]]

(* What a call remembers of a stage's result, retryable or not.            *)
Remember(r, stage, v) ==
    [run[r] EXCEPT !.refs[stage] = run[r].snap.attempt,
                   !.last = [stage |-> stage, fp |-> v.fp]]

----------------------------------------------------------------------------
(* The loop of RunTask *)

Start(r) ==
    /\ run[r].pc = "idle"
    /\ calls < MaxCalls
    /\ calls' = calls + 1
    /\ run' = [run EXCEPT ![r] =
            [Idle("none") EXCEPT !.pc = "load",
                !.refs = [stage \in Stages |-> LatestRefs(log, stage)]]]
    /\ UNCHANGED <<row, log, aborts>>

StageEntry(status) ==
    CASE status = "qa_in_progress"     -> "qa"
      [] status = "review_in_progress" -> "mark"
      [] OTHER                         -> "enter"

Load(r) ==
    /\ run[r].pc = "load"
    /\ IF row.status \in Parked
       THEN Return(r, row.status)
       ELSE run' = [run EXCEPT ![r].snap = row,
                               ![r].pc = StageEntry(row.status)]
    /\ UNCHANGED <<row, log, calls, aborts>>

(* Mutant: resuming a developer stage opens another attempt.               *)
AttemptPerEntry(snap) ==
    IF snap.status = "in_progress" THEN snap.attempt ELSE snap.attempt + 1

(* Only a failed verdict opens a new attempt.                              *)
DeveloperAttempt(snap) ==
    IF snap.status \in {"qa_failed", "review_failed"}
    THEN snap.attempt + 1
    ELSE snap.attempt

EnterDeveloperStage(r) ==
    LET snap    == run[r].snap
        attempt == DeveloperAttempt(snap)
        retried == IF snap.status \in {"qa_failed", "review_failed"}
                   THEN AppendEvent(log, Event("retry_approved", attempt,
                            row.status, "dev_in_progress", 0, row.fp, {}))
                   ELSE log
    IN  /\ run[r].pc = "enter"
        /\ \/ /\ WriteAllowed(snap.status, snap.attempt)
              /\ row' = [row EXCEPT !.status = "dev_in_progress",
                                    !.attempt = attempt]
              /\ log' = AppendEvent(retried, Event("developer_started", attempt,
                            row.status, "dev_in_progress", 0, NoFp, {}))
              /\ run' = [run EXCEPT ![r].pc = "entered"]
           \/ /\ ~WriteAllowed(snap.status, snap.attempt)
              /\ Rejected(r)
        /\ UNCHANGED <<calls, aborts>>

MarkReviewStarted(r) ==
    LET snap == run[r].snap
    IN  /\ run[r].pc = "mark"
        /\ \/ /\ WriteAllowed(snap.status, snap.attempt)
              /\ log' = AppendEvent(log, Event("review_started", row.attempt,
                            "review_in_progress", "review_in_progress", 0, NoFp, {}))
              /\ run' = [run EXCEPT ![r].pc = "marked"]
              /\ row' = row
           \/ /\ ~WriteAllowed(snap.status, snap.attempt)
              /\ Rejected(r)
        /\ UNCHANGED <<calls, aborts>>

(* The agent works on the row as it is after the transaction, not in it.   *)
Reload(r) ==
    /\ run[r].pc \in {"entered", "marked"}
    /\ run' = [run EXCEPT ![r].snap = row,
                          ![r].pc = IF @ = "entered" THEN "developer" ELSE "review"]
    /\ UNCHANGED <<row, log, calls, aborts>>

----------------------------------------------------------------------------
(* Stage results *)

(* Mutant: the event's name is written where its target status belongs.    *)
TargetStatusIsEvent(event) == event

TargetStatus(event) ==
    CASE event = "developer_completed"      -> "qa_in_progress"
      [] event = "developer_blocked"        -> "blocked"
      [] event = "qa_passed"                -> "review_in_progress"
      [] event = "qa_failed"                -> "qa_failed"
      [] event = "task_blocked"             -> "blocked"
      [] event = "review_passed"            -> "pr_open"
      [] event = "review_awaits_human"      -> "awaiting_human"
      [] OTHER                              -> "review_failed"

(* The columns each handler sets; counters continue the snapshot's count.  *)
QAFails(snap, event) ==
    CASE event = "qa_passed" -> 0
      [] event = "qa_failed" -> snap.qaFails + 1
      [] OTHER               -> row.qaFails

ReviewFails(snap, event) ==
    CASE event \in {"review_passed", "review_awaits_human"} -> 0
      [] event = "review_changes_requested"                 -> snap.reviewFails + 1
      [] OTHER                                              -> row.reviewFails

(* A blocked developer's own fingerprint is not written to the row.        *)
RowFp(v) ==
    CASE v.event \in {"developer_completed", "qa_passed", "review_passed"} -> NoFp
      [] v.event = "developer_blocked" /\ v.own                            -> row.fp
      [] OTHER                                                             -> v.fp

NeedsHuman(event) ==
    CASE event = "developer_completed" -> row.needsHuman
      [] OTHER -> event \in {"developer_blocked", "task_blocked",
                             "review_awaits_human"}

RowAfter(snap, v) ==
    [status      |-> TargetStatus(v.event),
     attempt     |-> row.attempt,
     qaFails     |-> QAFails(snap, v.event),
     reviewFails |-> ReviewFails(snap, v.event),
     fp          |-> RowFp(v),
     needsHuman  |-> NeedsHuman(v.event)]

(* A review that escalates records the hand-over in the same transaction.  *)
LogAfter(snap, v) ==
    LET outcome == AppendEvent(log, Event(v.event, row.attempt, row.status,
                       TargetStatus(v.event), snap.attempt, v.fp, v.findings))
    IN  IF v.event = "review_awaits_human"
        THEN AppendEvent(outcome, Event("task_awaiting_human", row.attempt,
                 row.status, "awaiting_human", 0, v.fp, {}))
        ELSE outcome

StageOutcome(r, stage, source, v) ==
    \/ /\ v.event = "retry"
       /\ NextIteration(r, Remember(r, stage, v))
       /\ UNCHANGED <<row, log>>
    \/ /\ v.event # "retry"
       /\ WriteAllowed(source, run[r].snap.attempt)
       /\ row' = RowAfter(run[r].snap, v)
       /\ log' = LogAfter(run[r].snap, v)
       /\ run' = [run EXCEPT ![r] = [Remember(r, stage, v) EXCEPT !.pc = "settle"]]
    \/ /\ v.event # "retry"
       /\ ~WriteAllowed(source, run[r].snap.attempt)
       /\ Rejected(r)

DeveloperStage(r) ==
    /\ run[r].pc = "developer"
    /\ \E result \in DeveloperResults :
          StageOutcome(r, "developer", "dev_in_progress", Verdict("developer", result))
    /\ UNCHANGED <<calls, aborts>>

QAStage(r) ==
    /\ run[r].pc = "qa"
    /\ \E result \in QAResults :
          StageOutcome(r, "qa", "qa_in_progress", Verdict("qa", result))
    /\ UNCHANGED <<calls, aborts>>

ReviewStage(r) ==
    /\ run[r].pc = "review"
    /\ \E result \in ReviewResults :
          StageOutcome(r, "review", "review_in_progress", Verdict("review", result))
    /\ UNCHANGED <<calls, aborts>>

(* The row is read again after the outcome is committed.                   *)
Settle(r) ==
    /\ run[r].pc = "settle"
    /\ NextIteration(r, [run[r] EXCEPT !.snap = row])
    /\ UNCHANGED <<row, log, calls, aborts>>

----------------------------------------------------------------------------
(* The transition budget *)

BudgetExceeded(r) ==
    /\ run[r].pc = "budget"
    /\ IF row.status \in Parked
       THEN Return(r, row.status)
       ELSE run' = [run EXCEPT ![r].snap = row, ![r].pc = "escalate"]
    /\ UNCHANGED <<row, log, calls, aborts>>

EscalationFp(me) ==
    IF me.last.fp # NoFp THEN me.last.fp
    ELSE IF me.snap.fp # NoFp THEN me.snap.fp
    ELSE {"orchestrator", "max_stage_transitions", me.snap.status}

Escalate(r) ==
    LET snap == run[r].snap
        fp   == EscalationFp(run[r])
    IN  /\ run[r].pc = "escalate"
        /\ \/ /\ WriteAllowed(snap.status, snap.attempt)
              /\ log' = AppendEvent(log, Event("task_escalated", row.attempt,
                            row.status, "escalated", 0, fp, {}))
              /\ row' = [row EXCEPT !.status = "escalated", !.fp = fp,
                                    !.needsHuman = TRUE]
              /\ Return(r, "escalated")
           \/ /\ ~WriteAllowed(snap.status, snap.attempt)
              /\ Rejected(r)
        /\ UNCHANGED <<calls, aborts>>

----------------------------------------------------------------------------
(* The environment *)

(* A failing agent tool or store, a cancelled context or a crash of the    *)
(* process: the call is gone, what it committed stays.                     *)
Abort(r) ==
    /\ run[r].pc # "idle"
    /\ aborts < MaxAborts
    /\ aborts' = aborts + 1
    /\ Return(r, "error")
    /\ UNCHANGED <<row, log, calls>>

(* Someone parks the task through the task state store, with no event.     *)
HumanTakeover ==
    /\ TakeoverAllowed
    /\ row.status \notin Parked
    /\ row' = [row EXCEPT !.status = "awaiting_human", !.fp = {"manual"},
                          !.needsHuman = TRUE]
    /\ UNCHANGED <<log, run, calls, aborts>>

Step(r) ==
    \/ Load(r)
    \/ EnterDeveloperStage(r)
    \/ MarkReviewStarted(r)
    \/ Reload(r)
    \/ DeveloperStage(r)
    \/ QAStage(r)
    \/ ReviewStage(r)
    \/ Settle(r)
    \/ BudgetExceeded(r)
    \/ Escalate(r)

Next ==
    \/ \E r \in Runs : Start(r) \/ Step(r) \/ Abort(r)
    \/ HumanTakeover

Spec == Init /\ [][Next]_vars

(* A call keeps taking steps: its agent runs end.  AgentProcess tells when:*)
(* by their deadline, if no child of the agent keeps its pipes open.       *)
FairSpec == Spec /\ \A r \in Runs : WF_vars(Step(r))

----------------------------------------------------------------------------
(* Properties *)

(* What fingerprints are built from: words of the agents and of the code.  *)
Tokens ==
    Words \cup Stages \cup Statuses \cup
    {"findings", "review-result-tool", "invalid_request", "request_changes",
     "orchestrator", "max_stage_transitions", "manual"}

EventTypes ==
    (UNION {StageEvents(stage) : stage \in Stages}) \cup
    {"task_started", "retry_approved", "developer_started", "review_started",
     "task_awaiting_human", "task_escalated"}

RowRecord ==
    [status : Statuses, attempt : Nat \ {0}, qaFails : Nat, reviewFails : Nat,
     fp : SUBSET Tokens, needsHuman : BOOLEAN]

EventRecord ==
    [type : EventTypes, attempt : Nat, from : Statuses \cup {"todo"},
     to : Statuses, stage : Stages \cup {"none"}, workedOn : Nat,
     fp : SUBSET Tokens, findings : SUBSET Finding]

RunState ==
    [pc : {"idle", "load", "enter", "entered", "developer", "qa", "mark",
           "marked", "review", "settle", "budget", "escalate"},
     snap : RowRecord \cup {NoSnapshot},
     transitions : 0 .. MaxStageTransitions,
     refs : [Stages -> Nat],
     last : [stage : Stages \cup {"none"}, fp : SUBSET Tokens],
     answer : Statuses \cup {"none", "error"}]

(* The shape of the row, of the event log and of what each call keeps in   *)
(* memory: in particular no handler writes a status the stage machine of   *)
(* RunTask cannot resume from or stop at.                                  *)
TypeOK ==
    /\ row \in RowRecord
    /\ log \in Seq(EventRecord)
    /\ run \in [Runs -> RunState]
    /\ calls \in 0 .. MaxCalls
    /\ aborts \in 0 .. MaxAborts

(* A takeover is the one change of the row that no event tells of.         *)
TakenOver == row.status = "awaiting_human" /\ row.fp = {"manual"}

CountSince(type, resets) ==
    Cardinality({i \in DOMAIN log :
        /\ log[i].type = type
        /\ \A j \in i .. Len(log) : log[j].type \notin resets})

(* Replaying the events gives back the row's status, its attempt and both  *)
(* of its failure counters (README.md:171), although every counter is      *)
(* computed from a snapshot taken before an agent ran and events that      *)
(* repeat an idempotency key are dropped silently.                         *)
RowRebuildsFromLog ==
    LET newest == log[Len(log)]
    IN  /\ row.attempt = newest.attempt
        /\ row.status = newest.to \/ TakenOver
        /\ row.qaFails = CountSince("qa_failed", {"qa_passed"})
        /\ row.reviewFails = CountSince("review_changes_requested",
                                 {"review_passed", "review_awaits_human"})

(* The verdict recorded for an attempt was reached by an agent that worked *)
(* on that attempt: an answer that arrives after the task went on to a     *)
(* later attempt is never booked on that one.                              *)
VerdictsAreForTheirAttempt ==
    \A i \in DOMAIN log : log[i].stage # "none" => log[i].workedOn = log[i].attempt

(* Once a task is parked, by a verdict, by the transition budget or by a   *)
(* human, no call still holding an older snapshot writes to its row or     *)
(* adds an event to its history.                                           *)
ParkedRowsAreFinal ==
    [][row.status \in Parked => row' = row /\ log' = log]_vars

(* The stage machine implements TaskLifecycle, with the verdicts read off  *)
(* the event log: each stage of an attempt is decided once and in order,   *)
(* however the calls of RunTask interleave.                                *)
DecidedIn(events) ==
    {<<events[i].stage, events[i].attempt>> :
        i \in {j \in DOMAIN events : events[j].stage # "none"}}

Lifecycle == INSTANCE TaskLifecycle WITH
    status  <- row.status,
    attempt <- row.attempt,
    decided <- DecidedIn(log)

ImplementsLifecycle == Lifecycle!Spec

(* The artifacts handed to an agent belong to the work it judges: QA gets  *)
(* the developer's of this attempt, the reviewer QA's of this attempt, and *)
(* a developer starting over gets those of the verdict that failed the     *)
(* previous attempt, also when the call before it crashed.                 *)
AgentsSeeCurrentWork ==
    \A r \in Runs :
        LET me == run[r]
        IN  /\ me.pc = "qa" => me.refs.developer = me.snap.attempt
            /\ me.pc = "review" => me.refs.qa = me.snap.attempt
            /\ me.pc = "developer" =>
                 \A i \in DOMAIN log :
                    /\ log[i].type \in {"qa_failed", "review_changes_requested"}
                    /\ log[i].attempt = me.snap.attempt - 1
                    => me.refs[log[i].stage] = log[i].attempt

(* When one caller at a time drives the task, a call of RunTask that does  *)
(* not fail leaves it parked: retries of a stage that keeps failing are    *)
(* cut off by the transition budget and end in escalated.                  *)
AnsweredCallsPark ==
    \A r \in Runs : run[r].answer \notin {"none", "error"} =>
        run[r].answer \in Parked /\ row.status = run[r].answer

(* Every call of RunTask comes back, however often an agent times out,     *)
(* answers malformed output or asks for a retry.                           *)
CallsReturn == \A r \in Runs : run[r].pc # "idle" ~> run[r].pc = "idle"

(* QA failing three times in a row stops the automatic work                *)
(* (README.md:513, max_qa_fail_count in TECH-V1.md:45).                    *)
QAFailuresAreCapped == row.status = "dev_in_progress" => row.qaFails < 3
=============================================================================
