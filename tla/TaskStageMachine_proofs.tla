---------------------- MODULE TaskStageMachine_proofs ----------------------
(***************************************************************************)
(* Theorems about TaskStageMachine for any number of callers, any results  *)
(* of the agents and any bounds: type correctness, two safety properties,  *)
(* the refinement of TaskLifecycle and a bound on the steps of a call.     *)
(* All rest on the invariant IInv.                                         *)
(***************************************************************************)
EXTENDS TaskStageMachine, TLAPS

(* The decision operators: every result has one of the stage's verdicts,   *)
(* with a fingerprint made of known tokens.                                *)
LEMMA FindingsFingerprintType ==
    ASSUME NEW stage \in Stages, NEW findings \in SUBSET Finding
    PROVE  FindingsFingerprint(stage, findings) \in SUBSET Tokens
<1> DEFINE ids == {f.id : f \in findings} \ {""}
<1>1. ids \in SUBSET Tokens
  BY DEF Finding, Tokens
<1>2. ids \cup {stage, "findings"} \in SUBSET Tokens
  BY <1>1 DEF Tokens
<1>3. FindingsFingerprint(stage, findings) \in {ids, ids \cup {stage, "findings"}}
  BY Zenon DEF FindingsFingerprint
<1> QED  BY <1>1, <1>2, <1>3

(* A stage's fingerprint is made of known tokens.                          *)
LEMMA StageFingerprintType ==
    ASSUME NEW stage \in Stages, NEW result \in Result
    PROVE  StageFingerprint(stage, result) \in SUBSET Tokens
<1>1. /\ result.fp \in SUBSET Tokens
      /\ {stage, result.status, result.next} \in SUBSET Tokens
      /\ FindingsFingerprint(stage, result.findings) \in SUBSET Tokens
  BY FindingsFingerprintType DEF Result, Tokens
<1> QED  BY <1>1 DEF StageFingerprint

(* So is the verdict of a review, and its event is a review event.         *)
LEMMA ReviewVerdictType ==
    ASSUME NEW result \in Result
    PROVE  /\ ReviewVerdict(result).event \in StageEvents("review")
           /\ ReviewVerdict(result).fp \in SUBSET Tokens
           /\ ReviewVerdict(result).findings \in SUBSET Finding
<1> DEFINE review == ReviewDecision(result)
<1>1. /\ review.fp \in SUBSET Tokens
      /\ review.findings \in SUBSET Finding
      /\ review.decision \in {"pass", "request_changes", "awaiting_human"}
  <2>1. result.fp \in SUBSET Tokens /\ result.findings \in SUBSET Finding
    BY DEF Result, Tokens
  <2>2. CASE ReviewRequestValid(result)
    BY <2>1, <2>2 DEF ReviewDecision, AggregateDecision
  <2>3. CASE ~ReviewRequestValid(result)
    BY <2>3 DEF ReviewDecision, Tokens
  <2> QED  BY <2>2, <2>3
<1> HIDE DEF review
<1>2. FindingsFingerprint("review", review.findings) \in SUBSET Tokens
  BY <1>1, FindingsFingerprintType DEF Stages
<1>3. review.decision # "pass" => ReviewFingerprint(review) \in SUBSET Tokens
  BY <1>1, <1>2 DEF ReviewFingerprint, Tokens, Stages, Statuses, Parked
<1>4. ReviewEvent(review.decision) \in StageEvents("review")
  BY DEF ReviewEvent, StageEvents
<1> QED  BY <1>1, <1>3, <1>4 DEF ReviewVerdict, Ruling, review

(* Every result has one of its stage's verdicts or is retried.             *)
LEMMA VerdictType ==
    ASSUME NEW stage \in Stages, NEW result \in Result
    PROVE  /\ Verdict(stage, result).event \in StageEvents(stage) \cup {"retry"}
           /\ Verdict(stage, result).fp \in SUBSET Tokens
           /\ Verdict(stage, result).findings \in SUBSET Finding
<1>1. StageFingerprint(stage, result) \in SUBSET Tokens
  BY StageFingerprintType
<1> USE DEF Result, Tokens
<1>2. CASE IsRetryable(result)
  BY <1>1, <1>2 DEF Verdict, Retry, Ruling
<1>3. CASE ~IsRetryable(result) /\ stage = "developer"
  BY <1>1, <1>3 DEF Verdict, DeveloperVerdict, Ruling, StageEvents, Result
<1>4. CASE ~IsRetryable(result) /\ stage = "qa"
  BY <1>1, <1>4 DEF Verdict, QAVerdict, Ruling, StageEvents, Result
<1>5. CASE ~IsRetryable(result) /\ stage = "review"
  BY <1>5, ReviewVerdictType DEF Verdict
<1> QED  BY <1>2, <1>3, <1>4, <1>5 DEF Stages

(* Refs are attempts.                                                      *)
LEMMA LatestRefsType ==
    ASSUME NEW events \in Seq(EventRecord), NEW stage
    PROVE  LatestRefs(events, stage) \in Nat
<1> DEFINE I == {i \in DOMAIN events :
                   /\ events[i].stage = stage
                   /\ \A j \in i + 1 .. Len(events) : events[j].stage # stage}
<1>1. CASE I = {}
  BY <1>1 DEF LatestRefs
<1>2. CASE I # {}
  <2>1. (CHOOSE i \in I : TRUE) \in I
    BY <1>2
  <2>2. (CHOOSE i \in I : TRUE) \in DOMAIN events
    BY <2>1
  <2>3. events[CHOOSE i \in I : TRUE] \in EventRecord
    BY <2>2
  <2> QED  BY <1>2, <2>3 DEF LatestRefs, EventRecord
<1> QED  BY <1>1, <1>2

(* What a verdict's event is the result of, and where it leads.            *)
LEMMA EventTargets ==
    ASSUME NEW stage \in Stages, NEW event \in StageEvents(stage)
    PROVE  /\ StageOfEvent(event) = stage
           /\ TargetStatus(event) \in Lifecycle!Outcomes(stage)
           /\ event # "retry"
<1>1. CASE stage = "developer"
  BY <1>1 DEF StageEvents, StageOfEvent, TargetStatus, Lifecycle!Outcomes
<1>2. CASE stage = "qa"
  BY <1>2 DEF StageEvents, StageOfEvent, TargetStatus, Lifecycle!Outcomes
<1>3. CASE stage = "review"
  BY <1>3 DEF StageEvents, StageOfEvent, TargetStatus, Lifecycle!Outcomes
<1> QED  BY <1>1, <1>2, <1>3 DEF Stages

----------------------------------------------------------------------------
(* The inductive invariant.                                                *)

(* The statuses of a task until the stage of its current attempt has a     *)
(* verdict.                                                                *)
Before(stage) ==
    CASE stage = "developer" -> {"in_progress", "dev_in_progress"}
      [] stage = "qa"        -> {"in_progress", "dev_in_progress", "qa_in_progress"}
      [] OTHER               -> {"in_progress", "dev_in_progress", "qa_in_progress",
                                 "review_in_progress"}

(* No event is ahead of the row, in attempts or in stages of an attempt,   *)
(* and each verdict is for the attempt its agent worked on.                *)
LogBehindRow(events, task) ==
    \A i \in DOMAIN events :
        /\ events[i].stage = StageOfEvent(events[i].type)
        /\ events[i].attempt <= task.attempt
        /\ events[i].stage # "none" => events[i].workedOn = events[i].attempt
        /\ events[i].stage # "none" /\ events[i].attempt = task.attempt
             => task.status \notin Before(events[i].stage)

(* A call that works on a stage has budget left and holds a row it has     *)
(* read; it only writes guarded by a status that is not parked.            *)
RunInv(me) ==
    /\ me.pc \notin {"idle", "budget", "escalate"} => me.transitions < MaxStageTransitions
    /\ me.pc \notin {"idle", "load"} => me.snap \in RowRecord
    /\ me.pc = "enter" => me.snap.status \in {"in_progress", "dev_in_progress",
                                               "qa_failed", "review_failed"}
    /\ me.pc = "mark" => me.snap.status = "review_in_progress"
    /\ me.pc = "escalate" => me.snap.status \in Active

IInv ==
    /\ TypeOK
    /\ LogBehindRow(log, row)
    /\ \A r \in Runs : RunInv(run[r])

(* Whatever a step does, caller r ends up in a state as required.          *)
RunStep(r) ==
    \E me \in RunState : RunInv(me) /\ run' = [run EXCEPT ![r] = me]

(* Changing one caller that way keeps what holds of every caller.          *)
LEMMA RunStepInv ==
    ASSUME IInv, NEW r \in Runs, RunStep(r)
    PROVE  run' \in [Runs -> RunState] /\ \A q \in Runs : RunInv(run'[q])
<1>1. PICK me \in RunState : RunInv(me) /\ run' = [run EXCEPT ![r] = me]
  BY DEF RunStep
<1>2. run \in [Runs -> RunState] /\ \A q \in Runs : RunInv(run[q])
  BY DEF IInv, TypeOK
<1>3. \A q \in Runs : run'[q] = IF q = r THEN me ELSE run[q]
  BY <1>1, <1>2
<1>4. run' \in [Runs -> RunState]
  BY <1>1, <1>2
<1> QED  BY <1>1, <1>2, <1>3, <1>4

(* A caller that is not in a call is in order.                             *)
LEMMA IdleInv ==
    ASSUME NEW answer \in Statuses \cup {"none", "error"}
    PROVE  Idle(answer) \in RunState /\ RunInv(Idle(answer))
BY ConstantsAssumption DEF Idle, RunState, RunInv, NoRefs, NoResult, NoFp, Tokens

(* Returning from a call is such a step.                                   *)
LEMMA ReturnInv ==
    ASSUME NEW r, NEW answer \in Statuses \cup {"none", "error"}, Return(r, answer)
    PROVE  RunStep(r)
BY IdleInv DEF Return, RunStep

(* So is spending a transition, or returning after a stage.                *)
LEMMA NextIterationInv ==
    ASSUME NEW r, NEW me \in RunState, RunInv(me), NextIteration(r, me),
           me.pc \notin {"idle", "load", "budget", "escalate"}
    PROVE  RunStep(r)
<1>1. me.snap \in RowRecord /\ me.transitions + 1 \in 1 .. MaxStageTransitions
  BY ConstantsAssumption DEF RunInv, RunState
<1>2. CASE StopsAfter(me.last.stage, me.snap.status)
  BY <1>1, <1>2, ReturnInv DEF NextIteration, RowRecord
<1>3. CASE ~StopsAfter(me.last.stage, me.snap.status)
  <2> DEFINE pc  == IF me.transitions + 1 < MaxStageTransitions
                    THEN "load" ELSE "budget"
             new == [me EXCEPT !.transitions = me.transitions + 1, !.pc = pc]
  <2>0. /\ pc \in {"load", "budget"}
        /\ me.transitions + 1 \in 0 .. MaxStageTransitions
        /\ pc = "load" => me.transitions + 1 < MaxStageTransitions
    BY <1>1, ConstantsAssumption
  <2>1. run' = [run EXCEPT ![r] = new]
    BY <1>3 DEF NextIteration
  <2> HIDE DEF pc
  <2>2. new \in RunState
    BY <2>0 DEF RunState
  <2>3. RunInv(new)
    BY <1>1, <2>0 DEF RunInv, RunState
  <2> QED  BY <2>1, <2>2, <2>3 DEF RunStep
<1> QED  BY <1>2, <1>3

----------------------------------------------------------------------------
(* Events *)

(* Event builds records of the events table.                               *)
LEMMA EventType ==
    ASSUME NEW type \in EventTypes, NEW attempt \in Nat,
           NEW from \in Statuses \cup {"todo"}, NEW to \in Statuses,
           NEW workedOn \in Nat, NEW fp \in SUBSET Tokens,
           NEW findings \in SUBSET Finding
    PROVE  Event(type, attempt, from, to, workedOn, fp, findings) \in EventRecord
<1>1. StageOfEvent(type) \in Stages \cup {"none"}
  BY DEF StageOfEvent, Stages
<1> QED  BY <1>1 DEF Event, EventRecord

(* Appending keeps every event and adds at most the new one.               *)
LEMMA AppendEventCases ==
    ASSUME NEW events \in Seq(EventRecord), NEW e \in EventRecord
    PROVE  /\ AppendEvent(events, e) \in Seq(EventRecord)
           /\ \A i \in DOMAIN AppendEvent(events, e) :
                 \/ AppendEvent(events, e)[i] = e
                 \/ i \in DOMAIN events /\ AppendEvent(events, e)[i] = events[i]
           /\ \A i \in DOMAIN events :
                 /\ i \in DOMAIN AppendEvent(events, e)
                 /\ AppendEvent(events, e)[i] = events[i]
BY DEF AppendEvent

(* An event with a new idempotency key is added.                           *)
LEMMA AppendEventNew ==
    ASSUME NEW events \in Seq(EventRecord), NEW e \in EventRecord,
           \A i \in DOMAIN events :
              ~(events[i].type = e.type /\ events[i].attempt = e.attempt)
    PROVE  \E i \in DOMAIN AppendEvent(events, e) : AppendEvent(events, e)[i] = e
<1>1. AppendEvent(events, e) = Append(events, e)
  BY DEF AppendEvent
<1>2. Len(events) + 1 \in DOMAIN Append(events, e)
      /\ Append(events, e)[Len(events) + 1] = e
  OBVIOUS
<1> QED  BY <1>1, <1>2

(* An event of the current attempt keeps the log behind the row.           *)
LEMMA AppendEventBehindRow ==
    ASSUME NEW events \in Seq(EventRecord), NEW e \in EventRecord,
           NEW task \in RowRecord,
           LogBehindRow(events, task),
           e.stage = StageOfEvent(e.type), e.attempt = task.attempt,
           e.stage # "none" => /\ e.workedOn = e.attempt
                               /\ task.status \notin Before(e.stage)
    PROVE  /\ AppendEvent(events, e) \in Seq(EventRecord)
           /\ LogBehindRow(AppendEvent(events, e), task)
<1>1. task.attempt <= task.attempt
  BY DEF RowRecord
<1> QED  BY <1>1, AppendEventCases DEF LogBehindRow

----------------------------------------------------------------------------
(* Steps that leave the row and the log alone *)

(* A step that writes nothing keeps the invariant.                         *)
LEMMA QuietStepInv ==
    ASSUME IInv, NEW r \in Runs, RunStep(r), UNCHANGED <<row, log>>,
           calls' \in 0 .. MaxCalls, aborts' \in 0 .. MaxAborts
    PROVE  IInv'
BY RunStepInv DEF IInv, TypeOK

(* The initial states satisfy the invariant.                               *)
LEMMA InitInv == Init => IInv
<1> SUFFICES ASSUME Init PROVE IInv
  OBVIOUS
<1>1. \A r \in Runs : run[r] \in RunState /\ RunInv(run[r])
  BY IdleInv DEF Init
<1>2. run \in [Runs -> RunState]
  BY <1>1 DEF Init
<1>3. row \in RowRecord
  BY DEF Init, RowRecord, Statuses, Active, NoFp
<1>4. Event("task_started", 1, "todo", "in_progress", 0, NoFp, {}) \in EventRecord
  BY EventType DEF EventTypes, Statuses, Active, NoFp
<1>5. log \in Seq(EventRecord)
  BY <1>4 DEF Init
<1>6. LogBehindRow(log, row)
  BY DEF Init, LogBehindRow, Event, StageOfEvent, StageEvents
<1>7. calls \in 0 .. MaxCalls /\ aborts \in 0 .. MaxAborts
  BY ConstantsAssumption DEF Init
<1> QED  BY <1>1, <1>2, <1>3, <1>5, <1>6, <1>7 DEF IInv, TypeOK

(* Start.                                                                  *)
LEMMA StartInv ==
    ASSUME IInv, NEW r \in Runs, Start(r)
    PROVE  IInv'
<1> DEFINE refs == [stage \in Stages |-> LatestRefs(log, stage)]
           me == [Idle("none") EXCEPT !.pc = "load", !.refs = refs]
<1>1. refs \in [Stages -> Nat]
  BY LatestRefsType DEF IInv, TypeOK
<1>2. Idle("none") \in RunState
  BY IdleInv
<1>3. run' = [run EXCEPT ![r] = me]
  BY DEF Start
<1> HIDE DEF refs
<1>4. me \in RunState
  BY <1>1, <1>2 DEF RunState
<1>5. RunInv(me)
  BY ConstantsAssumption DEF RunInv, Idle
<1>6. RunStep(r)
  BY <1>3, <1>4, <1>5 DEF RunStep
<1>7. calls' \in 0 .. MaxCalls /\ aborts' \in 0 .. MaxAborts
  BY ConstantsAssumption DEF Start, IInv, TypeOK
<1> QED  BY <1>6, <1>7, QuietStepInv DEF Start

(* Load.                                                                   *)
LEMMA LoadInv ==
    ASSUME IInv, NEW r \in Runs, Load(r)
    PROVE  IInv'
<1>1. row \in RowRecord /\ run[r] \in RunState /\ RunInv(run[r])
  BY DEF IInv, TypeOK
<1>2. CASE row.status \in Parked
  <2>1. RunStep(r)
    BY <1>1, <1>2, ReturnInv DEF Load, RowRecord
  <2> QED  BY <2>1, QuietStepInv DEF Load, IInv, TypeOK
<1>3. CASE row.status \notin Parked
  <2> DEFINE pc == StageEntry(row.status)
             me == [run[r] EXCEPT !.snap = row, !.pc = pc]
  <2>1. run' = [run EXCEPT ![r] = me]
    BY <1>3 DEF Load
  <2>2. pc \in {"enter", "qa", "mark"}
    BY DEF StageEntry
  <2>3. /\ pc = "enter" => row.status \in {"in_progress", "dev_in_progress",
                                           "qa_failed", "review_failed"}
        /\ pc = "mark" => row.status = "review_in_progress"
    BY <1>1, <1>3 DEF StageEntry, RowRecord, Statuses, Active
  <2>4. run[r].transitions < MaxStageTransitions
    BY <1>1 DEF Load, RunInv
  <2> HIDE DEF pc
  <2>5. me \in RunState
    BY <1>1, <2>2 DEF RunState
  <2>6. RunInv(me)
    BY <1>1, <2>2, <2>3, <2>4 DEF RunInv, RunState
  <2>7. RunStep(r)
    BY <2>1, <2>5, <2>6 DEF RunStep
  <2> QED  BY <2>7, QuietStepInv DEF Load, IInv, TypeOK
<1> QED  BY <1>2, <1>3

(* Reload.                                                                 *)
LEMMA ReloadInv ==
    ASSUME IInv, NEW r \in Runs, Reload(r)
    PROVE  IInv'
<1>1. row \in RowRecord /\ run[r] \in RunState /\ RunInv(run[r])
  BY DEF IInv, TypeOK
<1> DEFINE pc == IF run[r].pc = "entered" THEN "developer" ELSE "review"
           me == [run[r] EXCEPT !.snap = row, !.pc = pc]
<1>2. run' = [run EXCEPT ![r] = me]
  BY <1>1 DEF Reload, RunState
<1>3. pc \in {"developer", "review"} /\ run[r].transitions < MaxStageTransitions
  BY <1>1 DEF Reload, RunInv
<1> HIDE DEF pc
<1>4. me \in RunState
  BY <1>1, <1>3 DEF RunState
<1>5. RunInv(me)
  BY <1>1, <1>3 DEF RunInv, RunState
<1>6. RunStep(r)
  BY <1>2, <1>4, <1>5 DEF RunStep
<1> QED  BY <1>6, QuietStepInv DEF Reload, IInv, TypeOK

(* Settle.                                                                 *)
LEMMA SettleInv ==
    ASSUME IInv, NEW r \in Runs, Settle(r)
    PROVE  IInv'
<1>1. row \in RowRecord /\ run[r] \in RunState /\ RunInv(run[r])
  BY DEF IInv, TypeOK
<1> DEFINE me == [run[r] EXCEPT !.snap = row]
<1>2. me \in RunState /\ RunInv(me) /\ me.pc = "settle"
  BY <1>1 DEF RunState, RunInv, Settle
<1>3. RunStep(r)
  BY <1>2, NextIterationInv DEF Settle
<1> QED  BY <1>3, QuietStepInv DEF Settle, IInv, TypeOK

(* BudgetExceeded.                                                         *)
LEMMA BudgetExceededInv ==
    ASSUME IInv, NEW r \in Runs, BudgetExceeded(r)
    PROVE  IInv'
<1>1. row \in RowRecord /\ run[r] \in RunState
  BY DEF IInv, TypeOK
<1>2. CASE row.status \in Parked
  <2>1. RunStep(r)
    BY <1>1, <1>2, ReturnInv DEF BudgetExceeded, RowRecord
  <2> QED  BY <2>1, QuietStepInv DEF BudgetExceeded, IInv, TypeOK
<1>3. CASE row.status \notin Parked
  <2> DEFINE me == [run[r] EXCEPT !.snap = row, !.pc = "escalate"]
  <2>1. run' = [run EXCEPT ![r] = me]
    BY <1>3 DEF BudgetExceeded
  <2>2. me \in RunState
    BY <1>1 DEF RunState
  <2>3. RunInv(me)
    BY <1>1, <1>3 DEF RunInv, RunState, RowRecord, Statuses
  <2>4. RunStep(r)
    BY <2>1, <2>2, <2>3 DEF RunStep
  <2> QED  BY <2>4, QuietStepInv DEF BudgetExceeded, IInv, TypeOK
<1> QED  BY <1>2, <1>3

(* Abort.                                                                  *)
LEMMA AbortInv ==
    ASSUME IInv, NEW r \in Runs, Abort(r)
    PROVE  IInv'
<1>1. RunStep(r)
  BY ReturnInv DEF Abort
<1>2. calls' \in 0 .. MaxCalls /\ aborts' \in 0 .. MaxAborts
  BY ConstantsAssumption DEF Abort, IInv, TypeOK
<1> QED  BY <1>1, <1>2, QuietStepInv DEF Abort

(* HumanTakeover.                                                          *)
LEMMA HumanTakeoverInv ==
    ASSUME IInv, HumanTakeover
    PROVE  IInv'
<1>1. row' \in RowRecord
  BY DEF HumanTakeover, IInv, TypeOK, RowRecord, Statuses, Parked, Tokens
<1>2. row'.status = "awaiting_human" /\ row'.attempt = row.attempt
  BY DEF HumanTakeover, IInv, TypeOK, RowRecord
<1>3. LogBehindRow(log', row')
  BY <1>2 DEF HumanTakeover, IInv, LogBehindRow, Before
<1> QED  BY <1>1, <1>3 DEF HumanTakeover, IInv, TypeOK

----------------------------------------------------------------------------
(* Steps that write *)

(* A step that writes a row and a log as required keeps the invariant.     *)
LEMMA WriteStepInv ==
    ASSUME IInv, NEW r \in Runs, RunStep(r), UNCHANGED <<calls, aborts>>,
           row' \in RowRecord, log' \in Seq(EventRecord), LogBehindRow(log', row')
    PROVE  IInv'
BY RunStepInv DEF IInv, TypeOK

(* A rejected write keeps it.                                              *)
LEMMA RejectedInv ==
    ASSUME IInv, NEW r \in Runs, Rejected(r), UNCHANGED <<calls, aborts>>
    PROVE  IInv'
<1>1. RunStep(r)
  BY ReturnInv DEF Rejected, IInv, TypeOK, RowRecord
<1> QED  BY <1>1, QuietStepInv DEF Rejected, IInv, TypeOK

(* EnterDeveloperStage.                                                    *)
LEMMA EnterDeveloperStageInv ==
    ASSUME IInv, NEW r \in Runs, EnterDeveloperStage(r)
    PROVE  IInv'
<1> DEFINE snap    == run[r].snap
           attempt == DeveloperAttempt(snap)
           retry   == Event("retry_approved", attempt, row.status,
                            "dev_in_progress", 0, row.fp, {})
           retried == IF snap.status \in {"qa_failed", "review_failed"}
                      THEN AppendEvent(log, retry) ELSE log
           started == Event("developer_started", attempt, row.status,
                            "dev_in_progress", 0, NoFp, {})
<1>1. /\ row \in RowRecord /\ log \in Seq(EventRecord) /\ LogBehindRow(log, row)
      /\ run[r] \in RunState /\ RunInv(run[r]) /\ run[r].pc = "enter"
      /\ snap \in RowRecord
      /\ snap.status \in {"in_progress", "dev_in_progress", "qa_failed",
                          "review_failed"}
  BY DEF IInv, TypeOK, RunInv, EnterDeveloperStage
<1>2. CASE ~WriteAllowed(snap.status, snap.attempt)
  BY <1>2, RejectedInv DEF EnterDeveloperStage
<1>3. CASE WriteAllowed(snap.status, snap.attempt)
  <2>1. /\ row' = [row EXCEPT !.status = "dev_in_progress", !.attempt = attempt]
        /\ log' = AppendEvent(retried, started)
        /\ run' = [run EXCEPT ![r].pc = "entered"]
        /\ UNCHANGED <<calls, aborts>>
    BY <1>3 DEF EnterDeveloperStage
  <2>2. snap.status = row.status /\ snap.attempt = row.attempt
    BY <1>1, <1>3 DEF WriteAllowed, RowRecord
  <2>3. /\ attempt \in Nat \ {0}
        /\ \/ attempt = row.attempt + 1
           \/ /\ attempt = row.attempt
              /\ row.status \in {"in_progress", "dev_in_progress"}
    BY <1>1, <2>2 DEF DeveloperAttempt, RowRecord
  <2> HIDE DEF attempt
  <2>4. retry \in EventRecord /\ started \in EventRecord
    BY <1>1, <2>3, EventType DEF EventTypes, RowRecord, Statuses, Active, NoFp
  <2>5. /\ retry.attempt = attempt
        /\ retry.stage = "none" /\ StageOfEvent(retry.type) = "none"
        /\ started.attempt = attempt
        /\ started.stage = "none" /\ StageOfEvent(started.type) = "none"
    BY DEF Event, StageOfEvent, StageEvents
  <2> HIDE DEF retry, started
  <2>6. row' \in RowRecord /\ row'.attempt = attempt /\ row'.status = "dev_in_progress"
    BY <1>1, <2>1, <2>3 DEF RowRecord, Statuses, Active
  <2>7. LogBehindRow(log, row')
    <3>1. \A i \in DOMAIN log : log[i] \in EventRecord
      BY <1>1
    <3>2. \A stage : "dev_in_progress" \in Before(stage)
                       => {"in_progress", "dev_in_progress"} \subseteq Before(stage)
      BY DEF Before
    <3>3. CASE attempt = row.attempt + 1
      BY <1>1, <2>6, <3>1, <3>3 DEF LogBehindRow, EventRecord, RowRecord
    <3>4. CASE attempt = row.attempt /\ row.status \in {"in_progress", "dev_in_progress"}
      BY <1>1, <2>6, <3>1, <3>2, <3>4 DEF LogBehindRow
    <3> QED  BY <2>3, <3>3, <3>4
  <2>8. retried \in Seq(EventRecord) /\ LogBehindRow(retried, row')
    <3>1. /\ AppendEvent(log, retry) \in Seq(EventRecord)
          /\ LogBehindRow(AppendEvent(log, retry), row')
      BY <1>1, <2>3, <2>4, <2>5, <2>6, <2>7, AppendEventBehindRow
    <3> QED  BY <1>1, <2>7, <3>1
  <2> HIDE DEF retried
  <2>9. log' \in Seq(EventRecord) /\ LogBehindRow(log', row')
    BY <2>1, <2>3, <2>4, <2>5, <2>6, <2>8, AppendEventBehindRow
  <2>10. RunStep(r)
    <3> DEFINE me == [run[r] EXCEPT !.pc = "entered"]
    <3>1. run' = [run EXCEPT ![r] = me] /\ me \in RunState
      BY <1>1, <2>1 DEF RunState
    <3>2. RunInv(me)
      BY <1>1 DEF RunInv, RunState
    <3> QED  BY <3>1, <3>2 DEF RunStep
  <2> QED  BY <2>1, <2>6, <2>9, <2>10, WriteStepInv
<1> QED  BY <1>2, <1>3

(* MarkReviewStarted.                                                      *)
LEMMA MarkReviewStartedInv ==
    ASSUME IInv, NEW r \in Runs, MarkReviewStarted(r)
    PROVE  IInv'
<1> DEFINE snap == run[r].snap
           e    == Event("review_started", row.attempt, "review_in_progress",
                         "review_in_progress", 0, NoFp, {})
<1>1. /\ row \in RowRecord /\ log \in Seq(EventRecord) /\ LogBehindRow(log, row)
      /\ run[r] \in RunState /\ RunInv(run[r]) /\ run[r].pc = "mark"
  BY DEF IInv, TypeOK, MarkReviewStarted
<1>2. CASE ~WriteAllowed(snap.status, snap.attempt)
  BY <1>2, RejectedInv DEF MarkReviewStarted
<1>3. CASE WriteAllowed(snap.status, snap.attempt)
  <2>1. /\ log' = AppendEvent(log, e)
        /\ run' = [run EXCEPT ![r].pc = "marked"]
        /\ UNCHANGED <<row, calls, aborts>>
    BY <1>3 DEF MarkReviewStarted
  <2>2. e \in EventRecord
    BY <1>1, EventType DEF EventTypes, RowRecord, Statuses, Active, NoFp
  <2>3. e.attempt = row.attempt /\ e.stage = "none" /\ StageOfEvent(e.type) = "none"
    BY DEF Event, StageOfEvent, StageEvents
  <2> HIDE DEF e
  <2>4. log' \in Seq(EventRecord) /\ LogBehindRow(log', row')
    BY <1>1, <2>1, <2>2, <2>3, AppendEventBehindRow DEF RowRecord
  <2>5. RunStep(r)
    <3> DEFINE me == [run[r] EXCEPT !.pc = "marked"]
    <3>1. run' = [run EXCEPT ![r] = me] /\ me \in RunState
      BY <1>1, <2>1 DEF RunState
    <3>2. RunInv(me)
      BY <1>1 DEF RunInv, RunState
    <3> QED  BY <3>1, <3>2 DEF RunStep
  <2> QED  BY <1>1, <2>1, <2>4, <2>5, WriteStepInv
<1> QED  BY <1>2, <1>3

(* Escalate.                                                               *)
LEMMA EscalateInv ==
    ASSUME IInv, NEW r \in Runs, Escalate(r)
    PROVE  IInv'
<1> DEFINE snap == run[r].snap
           fp   == EscalationFp(run[r])
           e    == Event("task_escalated", row.attempt, row.status, "escalated",
                         0, fp, {})
<1>1. /\ row \in RowRecord /\ log \in Seq(EventRecord) /\ LogBehindRow(log, row)
      /\ run[r] \in RunState /\ RunInv(run[r]) /\ run[r].pc = "escalate"
      /\ snap \in RowRecord
  BY DEF IInv, TypeOK, RunInv, Escalate
<1>2. CASE ~WriteAllowed(snap.status, snap.attempt)
  BY <1>2, RejectedInv DEF Escalate
<1>3. CASE WriteAllowed(snap.status, snap.attempt)
  <2>1. /\ row' = [row EXCEPT !.status = "escalated", !.fp = fp, !.needsHuman = TRUE]
        /\ log' = AppendEvent(log, e)
        /\ Return(r, "escalated")
        /\ UNCHANGED <<calls, aborts>>
    BY <1>3 DEF Escalate
  <2>2. fp \in SUBSET Tokens
    BY <1>1 DEF EscalationFp, RunState, RowRecord, Tokens
  <2> HIDE DEF fp
  <2>3. e \in EventRecord
    BY <1>1, <2>2, EventType DEF EventTypes, RowRecord, Statuses, Parked
  <2>4. e.attempt = row.attempt /\ e.stage = "none" /\ StageOfEvent(e.type) = "none"
    BY DEF Event, StageOfEvent, StageEvents
  <2> HIDE DEF e
  <2>5. row' \in RowRecord /\ row'.attempt = row.attempt /\ row'.status = "escalated"
    BY <1>1, <2>1, <2>2 DEF RowRecord, Statuses, Parked
  <2>6. LogBehindRow(log, row')
    BY <1>1, <2>5 DEF LogBehindRow, Before
  <2>7. log' \in Seq(EventRecord) /\ LogBehindRow(log', row')
    BY <1>1, <2>1, <2>3, <2>4, <2>5, <2>6, AppendEventBehindRow
       DEF RowRecord
  <2>8. RunStep(r)
    BY <2>1, ReturnInv DEF Statuses, Parked
  <2> QED  BY <2>1, <2>5, <2>7, <2>8, WriteStepInv
<1> QED  BY <1>2, <1>3

(* What every verdict a handler commits does to the row and to the log.    *)
LEMMA CommitFacts ==
    ASSUME IInv, NEW r \in Runs, NEW stage \in Stages, NEW v,
           v.event \in StageEvents(stage), v.fp \in SUBSET Tokens,
           v.findings \in SUBSET Finding,
           run[r].pc = stage,
           WriteAllowed(Lifecycle!Working(stage), run[r].snap.attempt)
    PROVE  LET after == RowAfter(run[r].snap, v)
               e     == Event(v.event, row.attempt, row.status,
                              TargetStatus(v.event), run[r].snap.attempt, v.fp,
                              v.findings)
           IN  /\ after \in RowRecord /\ after.attempt = row.attempt
               /\ row.status = Lifecycle!Working(stage)
               /\ after.status \in Lifecycle!Outcomes(stage)
               /\ after.status \notin Before(stage)
               /\ e \in EventRecord /\ e.type = v.event
               /\ e.attempt = row.attempt /\ e.workedOn = row.attempt
               /\ e.stage = stage /\ StageOfEvent(e.type) = stage
               /\ LogBehindRow(log, after)
<1> DEFINE snap  == run[r].snap
           after == RowAfter(snap, v)
           to    == TargetStatus(v.event)
           e     == Event(v.event, row.attempt, row.status, to, snap.attempt, v.fp, v.findings)
<1>1. /\ row \in RowRecord /\ log \in Seq(EventRecord) /\ LogBehindRow(log, row)
      /\ run[r] \in RunState /\ snap \in RowRecord
  BY DEF IInv, TypeOK, RunInv, Stages
<1>2. snap.attempt = row.attempt /\ row.status = Lifecycle!Working(stage)
  BY <1>1 DEF WriteAllowed, RowRecord
<1>3. /\ to \in Lifecycle!Outcomes(stage)
      /\ StageOfEvent(v.event) = stage
  BY EventTargets
<1>4. to \in Statuses /\ to \notin Before(stage)
  BY <1>3 DEF Lifecycle!Outcomes, Before, Stages, Statuses, Active, Parked
<1>5. v.event \in EventTypes
  BY DEF EventTypes
<1>6. /\ QAFails(snap, v.event) \in Nat
      /\ ReviewFails(snap, v.event) \in Nat
      /\ RowFp(v) \in SUBSET Tokens
      /\ NeedsHuman(v.event) \in BOOLEAN
  <2>1. /\ row.qaFails \in Nat /\ row.reviewFails \in Nat /\ row.needsHuman \in BOOLEAN
        /\ snap.qaFails + 1 \in Nat /\ snap.reviewFails + 1 \in Nat
        /\ row.fp \in SUBSET Tokens
    <3>1. \A record \in RowRecord :
             /\ record.qaFails \in Nat /\ record.reviewFails \in Nat
             /\ record.needsHuman \in BOOLEAN /\ record.fp \in SUBSET Tokens
      BY DEF RowRecord
    <3> HIDE DEF snap
    <3> QED  BY <1>1, <3>1
  <2>2. QAFails(snap, v.event) \in Nat
    BY <2>1 DEF QAFails
  <2>3. ReviewFails(snap, v.event) \in Nat
    BY <2>1 DEF ReviewFails
  <2>4. RowFp(v) \in SUBSET Tokens
    BY <2>1 DEF RowFp, NoFp
  <2>5. NeedsHuman(v.event) \in BOOLEAN
    <3>1. CASE v.event = "developer_completed"
      BY <2>1, <3>1 DEF NeedsHuman
    <3>2. CASE v.event # "developer_completed"
      BY <3>2 DEF NeedsHuman
    <3> QED  BY <3>1, <3>2
  <2> QED  BY <2>2, <2>3, <2>4, <2>5
<1> HIDE DEF to
<1>7. after \in RowRecord /\ after.attempt = row.attempt /\ after.status = to
  BY <1>1, <1>4, <1>6 DEF RowAfter, RowRecord, to
<1>8. e \in EventRecord
  BY <1>1, <1>4, <1>5, EventType DEF RowRecord
<1>9. /\ e.type = v.event /\ e.attempt = row.attempt
      /\ e.workedOn = row.attempt
      /\ e.stage = stage /\ StageOfEvent(e.type) = stage
  BY <1>2, <1>3 DEF Event
<1>10. LogBehindRow(log, after)
  <2>1. \A s \in Stages : row.status \notin Before(s) => to \notin Before(s)
    BY <1>2, <1>3 DEF Lifecycle!Working, Lifecycle!Outcomes, Before, Stages
  <2>2. \A i \in DOMAIN log : log[i] \in EventRecord
    BY <1>1
  <2> QED  BY <1>1, <1>7, <2>1, <2>2 DEF LogBehindRow, EventRecord
<1> QED  BY <1>2, <1>3, <1>4, <1>7, <1>8, <1>9, <1>10 DEF to

(* A stage's result, retried, committed or rejected.                       *)
LEMMA StageOutcomeInv ==
    ASSUME IInv, NEW r \in Runs, NEW stage \in Stages, NEW v,
           v.event \in StageEvents(stage) \cup {"retry"}, v.fp \in SUBSET Tokens,
           v.findings \in SUBSET Finding,
           run[r].pc = stage,
           StageOutcome(r, stage, Lifecycle!Working(stage), v),
           UNCHANGED <<calls, aborts>>
    PROVE  IInv'
<1> DEFINE snap     == run[r].snap
           source   == Lifecycle!Working(stage)
           remember == Remember(r, stage, v)
<1>1. /\ row \in RowRecord /\ log \in Seq(EventRecord) /\ LogBehindRow(log, row)
      /\ run[r] \in RunState /\ RunInv(run[r]) /\ snap \in RowRecord
      /\ run[r].pc \notin {"idle", "load", "budget", "escalate", "enter", "mark"}
  BY DEF IInv, TypeOK, RunInv, Stages
<1>2. remember \in RunState /\ RunInv(remember) /\ remember.pc = stage
  BY <1>1 DEF Remember, RunState, RunInv, RowRecord, Stages
<1> HIDE DEF remember
<1>3. CASE v.event = "retry"
  <2>1. NextIteration(r, remember) /\ UNCHANGED <<row, log>>
    BY <1>3 DEF StageOutcome, remember
  <2>2. RunStep(r)
    BY <1>1, <1>2, <2>1, NextIterationInv
  <2> QED  BY <2>1, <2>2, QuietStepInv DEF IInv, TypeOK
<1>4. CASE v.event # "retry" /\ WriteAllowed(source, snap.attempt)
  <2> DEFINE e        == Event(v.event, row.attempt, row.status,
                               TargetStatus(v.event), snap.attempt, v.fp, v.findings)
             outcome  == AppendEvent(log, e)
             handover == Event("task_awaiting_human", row.attempt, row.status,
                               "awaiting_human", 0, v.fp, {})
             me       == [remember EXCEPT !.pc = "settle"]
  <2>1. /\ row' = RowAfter(snap, v)
        /\ log' = LogAfter(snap, v)
        /\ run' = [run EXCEPT ![r] = me]
    BY <1>4 DEF StageOutcome, remember
  <2>2. /\ row' \in RowRecord /\ row'.attempt = row.attempt
        /\ row'.status \notin Before(stage)
        /\ e \in EventRecord /\ e.stage = stage /\ StageOfEvent(e.type) = stage
        /\ e.attempt = row.attempt /\ e.workedOn = row.attempt
        /\ LogBehindRow(log, row')
    BY <1>4, <2>1, CommitFacts
  <2>3. handover \in EventRecord
    BY <1>1, EventType DEF EventTypes, RowRecord, Statuses, Parked
  <2>4. /\ handover.attempt = row.attempt /\ handover.stage = "none"
        /\ StageOfEvent(handover.type) = "none"
    BY DEF Event, StageOfEvent, StageEvents
  <2>5. log' = outcome \/ log' = AppendEvent(outcome, handover)
    BY <2>1 DEF LogAfter
  <2> HIDE DEF e, handover
  <2>6. outcome \in Seq(EventRecord) /\ LogBehindRow(outcome, row')
    BY <1>1, <2>2, AppendEventBehindRow
  <2>7. /\ AppendEvent(outcome, handover) \in Seq(EventRecord)
        /\ LogBehindRow(AppendEvent(outcome, handover), row')
    BY <2>2, <2>3, <2>4, <2>6, AppendEventBehindRow
  <2>8. RunStep(r)
    <3>1. me \in RunState /\ RunInv(me)
      BY <1>1, <1>2 DEF RunState, RunInv, Stages
    <3> QED  BY <2>1, <3>1 DEF RunStep
  <2> QED  BY <2>2, <2>5, <2>6, <2>7, <2>8, WriteStepInv
<1>5. CASE v.event # "retry" /\ ~WriteAllowed(source, snap.attempt)
  <2>1. Rejected(r)
    BY <1>5 DEF StageOutcome
  <2> QED  BY <2>1, RejectedInv
<1> QED  BY <1>3, <1>4, <1>5

(* The three stage actions are one, up to the stage and its verdicts.      *)
LEMMA StageCases ==
    ASSUME NEW r \in Runs, DeveloperStage(r) \/ QAStage(r) \/ ReviewStage(r)
    PROVE  \E stage \in Stages, result \in Result :
              /\ run[r].pc = stage
              /\ StageOutcome(r, stage, Lifecycle!Working(stage), Verdict(stage, result))
              /\ UNCHANGED <<calls, aborts>>
<1>1. CASE DeveloperStage(r)
  BY <1>1, ConstantsAssumption DEF DeveloperStage, Stages, Lifecycle!Working
<1>2. CASE QAStage(r)
  BY <1>2, ConstantsAssumption DEF QAStage, Stages, Lifecycle!Working
<1>3. CASE ReviewStage(r)
  BY <1>3, ConstantsAssumption DEF ReviewStage, Stages, Lifecycle!Working
<1> QED  BY <1>1, <1>2, <1>3

(* DeveloperStage, QAStage and ReviewStage.                                *)
LEMMA StagesInv ==
    ASSUME IInv, NEW r \in Runs,
           DeveloperStage(r) \/ QAStage(r) \/ ReviewStage(r)
    PROVE  IInv'
BY StageCases, VerdictType, StageOutcomeInv

(* Every step keeps the invariant.                                         *)
LEMMA NextInv == IInv /\ [Next]_vars => IInv'
<1>1. ASSUME IInv, NEW r \in Runs, Start(r) \/ Step(r) \/ Abort(r)
      PROVE  IInv'
  BY <1>1, StartInv, LoadInv, EnterDeveloperStageInv, MarkReviewStartedInv, ReloadInv,
     StagesInv, SettleInv, BudgetExceededInv, EscalateInv, AbortInv DEF Step
<1>2. IInv /\ UNCHANGED vars => IInv'
  BY DEF IInv, TypeOK, vars
<1> QED  BY <1>1, <1>2, HumanTakeoverInv DEF Next

(* The invariant holds in every reachable state.                           *)
THEOREM Invariance == Spec => []IInv
BY InitInv, NextInv, PTL DEF Spec

(* Type correctness.                                                       *)
THEOREM TypeCorrect == Spec => []TypeOK
<1>1. IInv => TypeOK
  BY DEF IInv
<1> QED  BY <1>1, Invariance, PTL

(* However the calls of RunTask interleave, no verdict is booked on an     *)
(* attempt its agent did not work on.                                      *)
THEOREM VerdictsFollowTheirAttempt == Spec => []VerdictsAreForTheirAttempt
<1>1. IInv => VerdictsAreForTheirAttempt
  BY DEF IInv, LogBehindRow, VerdictsAreForTheirAttempt
<1> QED  BY <1>1, Invariance, PTL

----------------------------------------------------------------------------
(* What one step may do to the row and to the log *)

(* An event without a stage result decides nothing.                        *)
LEMMA DecidedByOtherEvents ==
    ASSUME NEW events \in Seq(EventRecord), NEW e \in EventRecord, e.stage = "none"
    PROVE  DecidedIn(AppendEvent(events, e)) = DecidedIn(events)
BY AppendEventCases DEF DecidedIn

(* A verdict's event decides its stage of its attempt.                     *)
LEMMA DecidedByVerdict ==
    ASSUME NEW events \in Seq(EventRecord), NEW e \in EventRecord, e.stage # "none",
           \A i \in DOMAIN events :
              ~(events[i].type = e.type /\ events[i].attempt = e.attempt)
    PROVE  DecidedIn(AppendEvent(events, e))
             = DecidedIn(events) \cup {<<e.stage, e.attempt>>}
<1> DEFINE after == AppendEvent(events, e)
<1>1. /\ \A i \in DOMAIN after :
            after[i] = e \/ (i \in DOMAIN events /\ after[i] = events[i])
      /\ \A i \in DOMAIN events : i \in DOMAIN after /\ after[i] = events[i]
  BY AppendEventCases
<1>2. PICK k \in DOMAIN after : after[k] = e
  BY AppendEventNew
<1> HIDE DEF after
<1>3. DecidedIn(after) \subseteq DecidedIn(events) \cup {<<e.stage, e.attempt>>}
  BY <1>1 DEF DecidedIn
<1>4. DecidedIn(events) \subseteq DecidedIn(after)
  BY <1>1 DEF DecidedIn
<1>5. <<e.stage, e.attempt>> \in DecidedIn(after)
  BY <1>2 DEF DecidedIn
<1> QED  BY <1>3, <1>4, <1>5 DEF after

(* A step begins or retries an attempt, decides a stage, parks the task,   *)
(* or leaves both the row and the decided stages alone.                    *)
Quiet == row' = row /\ DecidedIn(log') = DecidedIn(log)

(* EnterDeveloperStage begins an attempt, resumes one or opens the next.   *)
LEMMA EnterImplements ==
    ASSUME IInv, NEW r \in Runs, EnterDeveloperStage(r)
    PROVE  \/ UNCHANGED <<row, log>>
           \/ row.status = "dev_in_progress" /\ Quiet
           \/ Lifecycle!Begin
           \/ Lifecycle!Retry
<1> DEFINE snap    == run[r].snap
           attempt == DeveloperAttempt(snap)
           retry   == Event("retry_approved", attempt, row.status,
                            "dev_in_progress", 0, row.fp, {})
           retried == IF snap.status \in {"qa_failed", "review_failed"}
                      THEN AppendEvent(log, retry) ELSE log
           started == Event("developer_started", attempt, row.status,
                            "dev_in_progress", 0, NoFp, {})
<1>1. /\ row \in RowRecord /\ log \in Seq(EventRecord)
      /\ snap \in RowRecord
      /\ snap.status \in {"in_progress", "dev_in_progress", "qa_failed",
                          "review_failed"}
  BY DEF IInv, TypeOK, RunInv, EnterDeveloperStage
<1>2. CASE ~WriteAllowed(snap.status, snap.attempt)
  BY <1>2 DEF EnterDeveloperStage, Rejected
<1>3. CASE WriteAllowed(snap.status, snap.attempt)
  <2>1. /\ row' = [row EXCEPT !.status = "dev_in_progress", !.attempt = attempt]
        /\ log' = AppendEvent(retried, started)
    BY <1>3 DEF EnterDeveloperStage
  <2>2. snap.status = row.status /\ snap.attempt = row.attempt
    BY <1>1, <1>3 DEF WriteAllowed, RowRecord
  <2>3. attempt = IF row.status \in {"qa_failed", "review_failed"}
                  THEN row.attempt + 1 ELSE row.attempt
    BY <2>2 DEF DeveloperAttempt
  <2>4. attempt \in Nat
    BY <1>1, <2>3 DEF RowRecord
  <2> HIDE DEF attempt
  <2>5. retry \in EventRecord /\ started \in EventRecord
    BY <1>1, <2>4, EventType DEF EventTypes, RowRecord, Statuses, Active, NoFp
  <2>6. retry.stage = "none" /\ started.stage = "none"
    BY DEF Event, StageOfEvent, StageEvents
  <2> HIDE DEF retry, started
  <2>7. retried \in Seq(EventRecord) /\ DecidedIn(retried) = DecidedIn(log)
    BY <1>1, <2>5, <2>6, AppendEventCases, DecidedByOtherEvents
  <2> HIDE DEF retried
  <2>8. DecidedIn(log') = DecidedIn(log)
    BY <2>1, <2>5, <2>6, <2>7, DecidedByOtherEvents
  <2>9. row'.status = "dev_in_progress" /\ row'.attempt = attempt
    BY <1>1, <2>1 DEF RowRecord
  <2>10. CASE row.status = "dev_in_progress"
    <3>1. row' = row
      BY <1>1, <2>1, <2>3, <2>10 DEF RowRecord
    <3> QED  BY <2>8, <2>10, <3>1 DEF Quiet
  <2>11. CASE row.status = "in_progress"
    BY <2>3, <2>8, <2>9, <2>11 DEF Lifecycle!Begin
  <2>12. CASE row.status \in {"qa_failed", "review_failed"}
    BY <2>3, <2>8, <2>9, <2>12 DEF Lifecycle!Retry
  <2> QED  BY <1>1, <2>2, <2>10, <2>11, <2>12
<1> QED  BY <1>2, <1>3

(* MarkReviewStarted only adds an event.                                   *)
LEMMA MarkImplements ==
    ASSUME IInv, NEW r \in Runs, MarkReviewStarted(r)
    PROVE  \/ UNCHANGED <<row, log>>
           \/ row.status = "review_in_progress" /\ Quiet
<1> DEFINE snap == run[r].snap
           e    == Event("review_started", row.attempt, "review_in_progress",
                         "review_in_progress", 0, NoFp, {})
<1>1. /\ row \in RowRecord /\ log \in Seq(EventRecord)
      /\ snap.status = "review_in_progress"
  BY DEF IInv, TypeOK, RunInv, MarkReviewStarted
<1>2. CASE ~WriteAllowed(snap.status, snap.attempt)
  BY <1>2 DEF MarkReviewStarted, Rejected
<1>3. CASE WriteAllowed(snap.status, snap.attempt)
  <2>1. row' = row /\ log' = AppendEvent(log, e) /\ row.status = "review_in_progress"
    BY <1>1, <1>3 DEF MarkReviewStarted, WriteAllowed
  <2>2. e \in EventRecord
    BY <1>1, EventType DEF EventTypes, RowRecord, Statuses, Active, NoFp
  <2>3. e.stage = "none"
    BY DEF Event, StageOfEvent, StageEvents
  <2> HIDE DEF e
  <2>4. DecidedIn(log') = DecidedIn(log)
    BY <1>1, <2>1, <2>2, <2>3, DecidedByOtherEvents
  <2> QED  BY <2>1, <2>4 DEF Quiet
<1> QED  BY <1>2, <1>3

(* Escalate parks the task.                                                *)
LEMMA EscalateImplements ==
    ASSUME IInv, NEW r \in Runs, Escalate(r)
    PROVE  \/ UNCHANGED <<row, log>>
           \/ row.status \in Active /\ Lifecycle!Park
<1> DEFINE snap == run[r].snap
           fp   == EscalationFp(run[r])
           e    == Event("task_escalated", row.attempt, row.status, "escalated",
                         0, fp, {})
<1>1. /\ row \in RowRecord /\ log \in Seq(EventRecord)
      /\ run[r] \in RunState /\ snap \in RowRecord /\ snap.status \in Active
  BY DEF IInv, TypeOK, RunInv, Escalate
<1>2. CASE ~WriteAllowed(snap.status, snap.attempt)
  BY <1>2 DEF Escalate, Rejected
<1>3. CASE WriteAllowed(snap.status, snap.attempt)
  <2>1. /\ row' = [row EXCEPT !.status = "escalated", !.fp = fp, !.needsHuman = TRUE]
        /\ log' = AppendEvent(log, e)
        /\ row.status \in Active
    BY <1>1, <1>3 DEF Escalate, WriteAllowed
  <2>2. fp \in SUBSET Tokens
    BY <1>1 DEF EscalationFp, RunState, RowRecord, Tokens
  <2> HIDE DEF fp
  <2>3. e \in EventRecord
    BY <1>1, <2>2, EventType DEF EventTypes, RowRecord, Statuses, Parked
  <2>4. e.stage = "none"
    BY DEF Event, StageOfEvent, StageEvents
  <2> HIDE DEF e
  <2>5. DecidedIn(log') = DecidedIn(log)
    BY <1>1, <2>1, <2>3, <2>4, DecidedByOtherEvents
  <2>6. row'.status = "escalated" /\ row'.attempt = row.attempt
    BY <1>1, <2>1 DEF RowRecord
  <2> QED  BY <2>1, <2>5, <2>6 DEF Lifecycle!Park, Active
<1> QED  BY <1>2, <1>3

(* A stage's result decides the stage or leaves everything alone.          *)
LEMMA StageOutcomeImplements ==
    ASSUME IInv, NEW r \in Runs, NEW stage \in Stages, NEW v,
           v.event \in StageEvents(stage) \cup {"retry"}, v.fp \in SUBSET Tokens,
           v.findings \in SUBSET Finding,
           run[r].pc = stage,
           StageOutcome(r, stage, Lifecycle!Working(stage), v)
    PROVE  \/ UNCHANGED <<row, log>>
           \/ Lifecycle!Decide(stage)
<1> DEFINE snap == run[r].snap
<1>1. CASE ~(v.event # "retry" /\ WriteAllowed(Lifecycle!Working(stage), snap.attempt))
  BY <1>1 DEF StageOutcome, Rejected
<1>2. CASE v.event # "retry" /\ WriteAllowed(Lifecycle!Working(stage), snap.attempt)
  <2> DEFINE e        == Event(v.event, row.attempt, row.status,
                               TargetStatus(v.event), snap.attempt, v.fp, v.findings)
             outcome  == AppendEvent(log, e)
             handover == Event("task_awaiting_human", row.attempt, row.status,
                               "awaiting_human", 0, v.fp, {})
  <2>1. /\ row \in RowRecord /\ log \in Seq(EventRecord) /\ LogBehindRow(log, row)
    BY DEF IInv, TypeOK
  <2>2. row' = RowAfter(snap, v) /\ log' = LogAfter(snap, v)
    BY <1>2 DEF StageOutcome
  <2>3. /\ row'.attempt = row.attempt
        /\ row.status = Lifecycle!Working(stage)
        /\ row'.status \in Lifecycle!Outcomes(stage)
        /\ e \in EventRecord /\ e.stage = stage /\ StageOfEvent(e.type) = stage
        /\ e.attempt = row.attempt
    BY <1>2, <2>2, CommitFacts
  <2>4. handover \in EventRecord /\ handover.stage = "none"
    <3>1. handover \in EventRecord
      BY <2>1, EventType DEF EventTypes, RowRecord, Statuses, Parked
    <3>2. handover.stage = "none"
      BY DEF Event, StageOfEvent, StageEvents
    <3> QED  BY <3>1, <3>2
  <2>5. log' = outcome \/ log' = AppendEvent(outcome, handover)
    BY <2>2 DEF LogAfter
  <2> HIDE DEF e, handover
  <2>6. Lifecycle!Working(stage) \in Before(stage) /\ stage # "none"
    BY DEF Lifecycle!Working, Before, Stages
  <2>7. \A i \in DOMAIN log : ~(log[i].stage = stage /\ log[i].attempt = row.attempt)
    BY <2>1, <2>3, <2>6 DEF LogBehindRow
  <2>8. \A i \in DOMAIN log : ~(log[i].type = e.type /\ log[i].attempt = e.attempt)
    BY <2>1, <2>3, <2>7 DEF LogBehindRow
  <2>9. outcome \in Seq(EventRecord)
    BY <2>1, <2>3, AppendEventCases
  <2>10. DecidedIn(outcome) = DecidedIn(log) \cup {<<stage, row.attempt>>}
    BY <2>1, <2>3, <2>6, <2>8, DecidedByVerdict
  <2> HIDE DEF outcome
  <2>11. DecidedIn(log') = DecidedIn(log) \cup {<<stage, row.attempt>>}
    BY <2>4, <2>5, <2>9, <2>10, DecidedByOtherEvents
  <2>12. <<stage, row.attempt>> \notin DecidedIn(log)
    BY <2>7 DEF DecidedIn
  <2> QED  BY <2>3, <2>11, <2>12 DEF Lifecycle!Decide
<1> QED  BY <1>1, <1>2

(* The same of the three stage actions.                                    *)
LEMMA StagesImplement ==
    ASSUME IInv, NEW r \in Runs,
           DeveloperStage(r) \/ QAStage(r) \/ ReviewStage(r)
    PROVE  \/ UNCHANGED <<row, log>>
           \/ \E stage \in Stages : Lifecycle!Decide(stage)
BY StageCases, VerdictType, StageOutcomeImplements

(* HumanTakeover parks the task.                                           *)
LEMMA TakeoverImplements ==
    ASSUME IInv, HumanTakeover
    PROVE  row.status \in Active /\ Lifecycle!Park
<1>1. row \in RowRecord
  BY DEF IInv, TypeOK
<1>2. row.status \in Active /\ row'.status = "awaiting_human"
      /\ row'.attempt = row.attempt /\ log' = log
  BY <1>1 DEF HumanTakeover, RowRecord, Statuses
<1> QED  BY <1>2 DEF Lifecycle!Park, Active

(* Every step of the stage machine, seen through the row and its history.  *)
LEMMA StepCases ==
    ASSUME IInv, [Next]_vars
    PROVE  \/ UNCHANGED <<row, log>>
           \/ row.status \in Active /\ Quiet
           \/ row.status \in Active /\ Lifecycle!Next
<1>1. ASSUME NEW r \in Runs, Start(r) \/ Load(r) \/ Reload(r) \/ Settle(r)
                             \/ BudgetExceeded(r) \/ Abort(r)
      PROVE  UNCHANGED <<row, log>>
  BY <1>1 DEF Start, Load, Reload, Settle, BudgetExceeded, Abort
<1>2. /\ Lifecycle!Begin => row.status \in Active /\ Lifecycle!Next
      /\ Lifecycle!Retry => row.status \in Active /\ Lifecycle!Next
  BY DEF Lifecycle!Begin, Lifecycle!Retry, Lifecycle!Next, Active
<1>3. Lifecycle!Park => Lifecycle!Next
  BY DEF Lifecycle!Next
<1>4. ASSUME NEW stage \in Stages, Lifecycle!Decide(stage)
      PROVE  row.status \in Active /\ Lifecycle!Next
  <2>1. row.status \in Active
    BY <1>4 DEF Lifecycle!Decide, Lifecycle!Working, Stages, Active
  <2> QED  BY <1>4, <2>1 DEF Lifecycle!Next, Stages
<1>5. {"dev_in_progress", "review_in_progress"} \subseteq Active
  BY DEF Active
<1>6. ASSUME NEW r \in Runs, Step(r)
      PROVE  \/ UNCHANGED <<row, log>>
             \/ row.status \in Active /\ Quiet
             \/ row.status \in Active /\ Lifecycle!Next
  BY <1>1, <1>2, <1>3, <1>4, <1>5, <1>6, EnterImplements, MarkImplements,
     StagesImplement, EscalateImplements DEF Step
<1>7. UNCHANGED vars => UNCHANGED <<row, log>>
  BY DEF vars
<1> QED  BY <1>1, <1>3, <1>6, <1>7, TakeoverImplements DEF Next

(* A parked task stays as it is, whatever older snapshots calls still hold.*)
THEOREM ParkedIsFinal == Spec => ParkedRowsAreFinal
<1>1. IInv /\ [Next]_vars => [row.status \in Parked => row' = row /\ log' = log]_vars
  <2> SUFFICES ASSUME IInv, [Next]_vars, row.status \in Parked
               PROVE  row' = row /\ log' = log
    OBVIOUS
  <2>1. row.status \notin Active
    BY DEF Active, Parked
  <2> QED  BY <2>1, StepCases
<1> QED  BY <1>1, Invariance, PTL DEF Spec, ParkedRowsAreFinal

(* The stage machine implements the life cycle of a task.                  *)
THEOREM Refinement == Spec => ImplementsLifecycle
<1>1. Init => Lifecycle!Init
  <2> SUFFICES ASSUME Init PROVE Lifecycle!Init
    OBVIOUS
  <2>1. \A i \in DOMAIN log : log[i].stage = "none"
    BY DEF Init, Event, StageOfEvent, StageEvents
  <2>2. DecidedIn(log) = {}
    BY <2>1 DEF DecidedIn
  <2> QED  BY <2>2 DEF Init, Lifecycle!Init
<1>2. IInv /\ [Next]_vars => [Lifecycle!Next]_(Lifecycle!lifecycle)
  <2> SUFFICES ASSUME IInv, [Next]_vars
               PROVE  Lifecycle!Next \/ UNCHANGED Lifecycle!lifecycle
    OBVIOUS
  <2>1. Quiet => UNCHANGED Lifecycle!lifecycle
    BY DEF Quiet, Lifecycle!lifecycle
  <2>2. UNCHANGED <<row, log>> => Quiet
    BY DEF Quiet
  <2> QED  BY <2>1, <2>2, StepCases
<1> QED  BY <1>1, <1>2, Invariance, PTL DEF Spec, ImplementsLifecycle, Lifecycle!Spec

----------------------------------------------------------------------------
(* How far a call is from its end *)

(* A bound on the steps a call can still take: five per transition that is *)
(* left and two to escalate.                                               *)
StepsLeft(me) ==
    LET place == CASE me.pc = "load"                          -> 7
                   [] me.pc \in {"enter", "mark"}             -> 6
                   [] me.pc \in {"entered", "marked"}         -> 5
                   [] me.pc \in {"developer", "qa", "review"} -> 4
                   [] OTHER                                   -> 3
    IN  CASE me.pc = "idle"     -> 0
          [] me.pc = "escalate" -> 1
          [] me.pc = "budget"   -> 2
          [] OTHER -> 5 * (MaxStageTransitions - 1 - me.transitions) + place

(* Whatever its agents answer, and whatever other callers and a human do   *)
(* to the row meanwhile, each step of a call brings its end nearer and     *)
(* nothing puts it off: no retry, rejected write or resumed stage is free  *)
(* of the transition budget.                                               *)
CallsWindDown ==
    [][\A r \in Runs :
          /\ Step(r) => StepsLeft(run'[r]) \in 0 .. StepsLeft(run[r]) - 1
          /\ run[r].pc # "idle" => StepsLeft(run'[r]) <= StepsLeft(run[r])]_vars

(* The bound is a number, and positive during a call.                      *)
LEMMA StepsLeftType ==
    ASSUME NEW me \in RunState, RunInv(me)
    PROVE  StepsLeft(me) \in Nat /\ (me.pc # "idle" => StepsLeft(me) > 0)
BY ConstantsAssumption DEF StepsLeft, RunState, RunInv

(* A step that takes caller r nearer to its end and touches no other.      *)
Nearer(r) ==
    \E me : run' = [run EXCEPT ![r] = me] /\ StepsLeft(me) < StepsLeft(run[r])

(* Returning does.                                                         *)
LEMMA ReturnNearer ==
    ASSUME IInv, NEW r \in Runs, NEW answer, run[r].pc # "idle", Return(r, answer)
    PROVE  Nearer(r)
<1>1. StepsLeft(run[r]) \in Nat /\ StepsLeft(run[r]) > 0
  BY StepsLeftType DEF IInv, TypeOK
<1>2. StepsLeft(Idle(answer)) = 0
  BY DEF StepsLeft, Idle
<1> QED  BY <1>1, <1>2 DEF Return, Nearer

(* So does a new place further down the loop, in the same transition.      *)
LEMMA PlaceNearer ==
    ASSUME IInv, NEW r \in Runs, NEW me, run' = [run EXCEPT ![r] = me],
           me.transitions = run[r].transitions,
           \/ run[r].pc = "load" /\ me.pc \in {"enter", "mark", "qa"}
           \/ run[r].pc \in {"enter", "mark"} /\ me.pc \in {"entered", "marked"}
           \/ run[r].pc \in {"entered", "marked"} /\ me.pc \in {"developer", "review"}
           \/ run[r].pc \in {"developer", "qa", "review"} /\ me.pc = "settle"
           \/ run[r].pc = "budget" /\ me.pc = "escalate"
    PROVE  Nearer(r)
<1>1. run[r] \in RunState
  BY DEF IInv, TypeOK
<1>2. run[r].transitions \in Int
  BY <1>1, ConstantsAssumption DEF RunState
<1>3. StepsLeft(me) < StepsLeft(run[r])
  BY <1>2, ConstantsAssumption DEF StepsLeft
<1> QED  BY <1>3 DEF Nearer

(* And so does a spent transition, after a verdict as after a retry.       *)
LEMMA NextIterationNearer ==
    ASSUME IInv, NEW r \in Runs, NEW me \in RunState, NextIteration(r, me),
           run[r].pc \in {"developer", "qa", "review", "settle"},
           me.transitions = run[r].transitions
    PROVE  Nearer(r)
<1>1. run[r] \in RunState /\ RunInv(run[r])
  BY DEF IInv, TypeOK
<1>2. /\ MaxStageTransitions \in Nat
      /\ run[r].transitions \in Nat
      /\ run[r].transitions < MaxStageTransitions
  BY <1>1, ConstantsAssumption DEF RunState, RunInv
<1>3. CASE StopsAfter(me.last.stage, me.snap.status)
  BY <1>3, ReturnNearer DEF NextIteration
<1>4. CASE ~StopsAfter(me.last.stage, me.snap.status)
  <2> DEFINE spent == me.transitions + 1
             pc    == IF spent < MaxStageTransitions THEN "load" ELSE "budget"
             new   == [me EXCEPT !.transitions = spent, !.pc = pc]
  <2>1. run' = [run EXCEPT ![r] = new]
    BY <1>4 DEF NextIteration
  <2>2. new.transitions = spent /\ new.pc = pc
    BY DEF RunState
  <2>3. StepsLeft(new) = IF spent < MaxStageTransitions
                         THEN 5 * (MaxStageTransitions - 1 - spent) + 7 ELSE 2
    BY <2>2 DEF StepsLeft
  <2>4. StepsLeft(run[r]) >= 5 * (MaxStageTransitions - 1 - run[r].transitions) + 3
    BY <1>2 DEF StepsLeft
  <2>5. StepsLeft(new) < StepsLeft(run[r])
    BY <1>1, <1>2, <2>3, <2>4, StepsLeftType
  <2> QED  BY <2>1, <2>5 DEF Nearer
<1> QED  BY <1>3, <1>4

(* The result of a stage: retried, committed or no longer wanted.          *)
LEMMA StageOutcomeNearer ==
    ASSUME IInv, NEW r \in Runs, NEW stage \in Stages, NEW v, NEW source,
           v.fp \in SUBSET Tokens, run[r].pc = stage,
           StageOutcome(r, stage, source, v)
    PROVE  Nearer(r)
<1> DEFINE remember == Remember(r, stage, v)
<1>1. run[r] \in RunState /\ RunInv(run[r]) /\ run[r].snap \in RowRecord
  BY DEF IInv, TypeOK, RunInv, Stages
<1>2. remember \in RunState /\ remember.transitions = run[r].transitions
  BY <1>1 DEF Remember, RunState, RowRecord
<1> HIDE DEF remember
<1>3. run[r].pc \in {"developer", "qa", "review"}
  BY DEF Stages
<1>4. CASE NextIteration(r, remember)
  BY <1>2, <1>3, <1>4, NextIterationNearer
<1>5. CASE run' = [run EXCEPT ![r] = [remember EXCEPT !.pc = "settle"]]
  <2> DEFINE me == [remember EXCEPT !.pc = "settle"]
  <2>1. me.transitions = run[r].transitions /\ me.pc = "settle"
    BY <1>2 DEF RunState
  <2> HIDE DEF me
  <2>2. run' = [run EXCEPT ![r] = me]
    BY <1>5 DEF me
  <2> QED  BY <1>3, <2>1, <2>2, PlaceNearer
<1>6. CASE Rejected(r)
  BY <1>3, <1>6, ReturnNearer DEF Rejected
<1> QED  BY <1>4, <1>5, <1>6 DEF StageOutcome, remember

(* Every step of a call.                                                   *)
LEMMA StepNearer ==
    ASSUME IInv, NEW r \in Runs, Step(r)
    PROVE  Nearer(r)
<1>1. run[r] \in RunState /\ RunInv(run[r])
  BY DEF IInv, TypeOK
<1>2. CASE Load(r)
  <2>1. CASE row.status \in Parked
    BY <1>2, <2>1, ReturnNearer DEF Load
  <2>2. CASE row.status \notin Parked
    <3> DEFINE pc == StageEntry(row.status)
               me == [run[r] EXCEPT !.snap = row, !.pc = pc]
    <3>1. run' = [run EXCEPT ![r] = me] /\ run[r].pc = "load"
      BY <1>2, <2>2 DEF Load
    <3>2. pc \in {"enter", "qa", "mark"}
      BY DEF StageEntry
    <3> HIDE DEF pc
    <3>3. me.transitions = run[r].transitions /\ me.pc = pc
      BY <1>1 DEF RunState
    <3> QED  BY <3>1, <3>2, <3>3, PlaceNearer
  <2> QED  BY <2>1, <2>2
<1>3. CASE EnterDeveloperStage(r) \/ MarkReviewStarted(r)
  <2>1. CASE Rejected(r)
    BY <1>3, <2>1, ReturnNearer DEF Rejected, EnterDeveloperStage, MarkReviewStarted
  <2>2. CASE ~Rejected(r)
    <3>1. PICK pc \in {"entered", "marked"} :
             run[r].pc \in {"enter", "mark"} /\ run' = [run EXCEPT ![r].pc = pc]
      BY <1>3, <2>2 DEF EnterDeveloperStage, MarkReviewStarted
    <3> DEFINE me == [run[r] EXCEPT !.pc = pc]
    <3>2. run' = [run EXCEPT ![r] = me]
      BY <3>1
    <3>3. me.transitions = run[r].transitions /\ me.pc = pc
      BY <1>1 DEF RunState
    <3> QED  BY <3>1, <3>2, <3>3, PlaceNearer
  <2> QED  BY <2>1, <2>2
<1>4. CASE Reload(r)
  <2> DEFINE pc == IF run[r].pc = "entered" THEN "developer" ELSE "review"
             me == [run[r] EXCEPT !.snap = row, !.pc = pc]
  <2>1. run' = [run EXCEPT ![r] = me] /\ run[r].pc \in {"entered", "marked"}
    BY <1>1, <1>4 DEF Reload, RunState
  <2>2. me.transitions = run[r].transitions /\ me.pc \in {"developer", "review"}
    BY <1>1 DEF RunState
  <2> QED  BY <2>1, <2>2, PlaceNearer
<1>5. CASE DeveloperStage(r) \/ QAStage(r) \/ ReviewStage(r)
  BY <1>5, StageCases, VerdictType, StageOutcomeNearer
<1>6. CASE Settle(r)
  <2> DEFINE me == [run[r] EXCEPT !.snap = row]
  <2>1. me \in RunState /\ me.transitions = run[r].transitions
    BY <1>1 DEF IInv, TypeOK, RunState
  <2>2. NextIteration(r, me) /\ run[r].pc = "settle"
    BY <1>6 DEF Settle
  <2> QED  BY <2>1, <2>2, NextIterationNearer
<1>7. CASE BudgetExceeded(r)
  <2>1. CASE row.status \in Parked
    BY <1>7, <2>1, ReturnNearer DEF BudgetExceeded
  <2>2. CASE row.status \notin Parked
    <3> DEFINE me == [run[r] EXCEPT !.snap = row, !.pc = "escalate"]
    <3>1. run' = [run EXCEPT ![r] = me] /\ run[r].pc = "budget"
      BY <1>7, <2>2 DEF BudgetExceeded
    <3>2. me.transitions = run[r].transitions /\ me.pc = "escalate"
      BY <1>1 DEF RunState
    <3> QED  BY <3>1, <3>2, PlaceNearer
  <2> QED  BY <2>1, <2>2
<1>8. CASE Escalate(r)
  BY <1>8, ReturnNearer DEF Escalate, Rejected
<1> QED  BY <1>2, <1>3, <1>4, <1>5, <1>6, <1>7, <1>8 DEF Step

(* Each step of a call brings its end nearer, and nobody else puts it off: *)
(* a call of RunTask takes at most 5 * MaxStageTransitions + 2 steps,      *)
(* whatever its agents answer and whoever else works on the task.          *)
THEOREM CallsComeToAnEnd == Spec => CallsWindDown
<1> DEFINE Down(r) ==
      /\ Step(r) => StepsLeft(run'[r]) \in 0 .. StepsLeft(run[r]) - 1
      /\ run[r].pc # "idle" => StepsLeft(run'[r]) <= StepsLeft(run[r])
<1>1. ASSUME IInv, [Next]_vars, NEW r \in Runs
      PROVE  Down(r)
  <2>1. /\ run \in [Runs -> RunState]
        /\ StepsLeft(run[r]) \in Nat /\ StepsLeft(run'[r]) \in Nat
    <3>1. run \in [Runs -> RunState] /\ RunInv(run[r])
      BY <1>1 DEF IInv, TypeOK
    <3>2. run'[r] \in RunState /\ RunInv(run'[r])
      BY <1>1, NextInv DEF IInv, TypeOK
    <3> QED  BY <3>1, <3>2, StepsLeftType
  <2>2. ASSUME NEW q \in Runs, Nearer(q)
        PROVE  StepsLeft(run'[q]) < StepsLeft(run[q]) /\ (q # r => run'[r] = run[r])
    BY <2>1, <2>2 DEF Nearer
  <2>3. ASSUME Step(r)
        PROVE  StepsLeft(run'[r]) < StepsLeft(run[r])
    BY <1>1, <2>2, <2>3, StepNearer
  <2>4. ASSUME run[r].pc # "idle"
        PROVE  StepsLeft(run'[r]) <= StepsLeft(run[r])
    <3>1. ASSUME NEW q \in Runs, Step(q)
          PROVE  StepsLeft(run'[r]) <= StepsLeft(run[r])
      <4>1. Nearer(q)
        BY <1>1, <3>1, StepNearer
      <4>2. CASE q = r
        BY <2>1, <2>2, <4>1, <4>2
      <4>3. CASE q # r
        BY <2>1, <2>2, <4>1, <4>3
      <4> QED  BY <4>2, <4>3
    <3>2. ASSUME NEW q \in Runs, Start(q)
          PROVE  run'[r] = run[r]
      BY <2>1, <2>4, <3>2 DEF Start
    <3>3. ASSUME NEW q \in Runs, Abort(q)
          PROVE  StepsLeft(run'[r]) <= StepsLeft(run[r])
      <4>1. Nearer(q)
        BY <1>1, <3>3, ReturnNearer DEF Abort
      <4>2. CASE q = r
        BY <2>1, <2>2, <4>1, <4>2
      <4>3. CASE q # r
        BY <2>1, <2>2, <4>1, <4>3
      <4> QED  BY <4>2, <4>3
    <3>4. CASE HumanTakeover \/ UNCHANGED vars
      <4>1. run' = run
        BY <3>4 DEF HumanTakeover, vars
      <4> QED  BY <2>1, <4>1
    <3>5. ASSUME run'[r] = run[r]
          PROVE  StepsLeft(run'[r]) <= StepsLeft(run[r])
      BY <2>1, <3>5
    <3> QED  BY <1>1, <3>1, <3>2, <3>3, <3>4, <3>5 DEF Next
  <2> QED  BY <2>1, <2>3, <2>4
<1>2. IInv /\ [Next]_vars => [\A r \in Runs : Down(r)]_vars
  BY <1>1
<1> QED  BY <1>2, Invariance, PTL DEF Spec, CallsWindDown
=============================================================================
