------------------------- MODULE TaskHistory_proofs -------------------------
(***************************************************************************)
(* What the event log of TaskStageMachine tells about the task: replaying  *)
(* it gives back the row, whatever snapshots the calls that wrote it held. *)
(* And what holds of the calls when they come one after the other: they    *)
(* hand their agents current artifacts and leave the task parked.          *)
(***************************************************************************)
EXTENDS TaskStageMachine_proofs, FiniteSetTheorems, WellFoundedInduction

(* The events of a type that no reset has come after.                      *)
SinceIn(events, type, resets) ==
    {i \in DOMAIN events :
        /\ events[i].type = type
        /\ \A j \in i .. Len(events) : events[j].type \notin resets}

(* The newest event carries the row's status and attempt.  A start or an   *)
(* escalation that is still to come is not in the log: its insert is not   *)
(* dropped for its idempotency key.                                        *)
NewestTells(events, task) ==
    /\ Len(events) > 0
    /\ events[Len(events)].attempt = task.attempt
    /\ \/ task.status = events[Len(events)].to
       \/ task.status = "awaiting_human" /\ task.fp = {"manual"}
    /\ task.status = "in_progress" =>
          \A i \in DOMAIN events : events[i].type # "developer_started"
    /\ task.status # "escalated" =>
          \A i \in DOMAIN events : events[i].type # "task_escalated"

(* The counters are the failures since the last success.                   *)
CountersTell(events, task) ==
    /\ task.qaFails = Cardinality(SinceIn(events, "qa_failed", {"qa_passed"}))
    /\ task.reviewFails = Cardinality(SinceIn(events, "review_changes_requested",
                              {"review_passed", "review_awaits_human"}))

(* However old a snapshot is, its counters are the row's while its attempt *)
(* is and the stage that counts has no verdict: so the counter a verdict   *)
(* continues is the current one.                                           *)
SnapshotCounts(snap, task) ==
    /\ snap.attempt <= task.attempt
    /\ snap.attempt = task.attempt =>
          /\ task.status \in Before("qa") => snap.qaFails = task.qaFails
          /\ task.status \in Before("review") => snap.reviewFails = task.reviewFails

HInv ==
    /\ IInv
    /\ NewestTells(log, row)
    /\ CountersTell(log, row)
    /\ \A r \in Runs : SnapshotCounts(run[r].snap, row)

----------------------------------------------------------------------------
(* Lemmas about logs *)

(* Appending an event leaves it newest, unless its key was there.          *)
LEMMA AppendEventNewest ==
    ASSUME NEW events \in Seq(EventRecord), Len(events) > 0, NEW e \in EventRecord
    PROVE  LET after == AppendEvent(events, e)
           IN  /\ after \in Seq(EventRecord) /\ Len(after) > 0
               /\ after = events \/ after[Len(after)] = e
               /\ (\A i \in DOMAIN events :
                     ~(events[i].type = e.type /\ events[i].attempt = e.attempt))
                  => after[Len(after)] = e
<1>1. /\ Append(events, e) \in Seq(EventRecord)
      /\ Len(Append(events, e)) = Len(events) + 1
      /\ Append(events, e)[Len(events) + 1] = e
  OBVIOUS
<1> QED  BY <1>1 DEF AppendEvent

(* Only an event of the counted type, or a reset, changes the events       *)
(* counted.                                                                *)
LEMMA SinceOther ==
    ASSUME NEW events \in Seq(EventRecord), NEW e \in EventRecord,
           NEW type, NEW resets, e.type # type, e.type \notin resets
    PROVE  SinceIn(AppendEvent(events, e), type, resets) = SinceIn(events, type, resets)
<1> DEFINE after == Append(events, e)
<1>1. /\ Len(after) = Len(events) + 1 /\ DOMAIN after = 1 .. Len(events) + 1
      /\ DOMAIN events = 1 .. Len(events) /\ Len(events) \in Nat
      /\ after[Len(events) + 1] = e
      /\ \A i \in 1 .. Len(events) : after[i] = events[i]
  OBVIOUS
<1> HIDE DEF after
<1>2. ASSUME NEW i \in DOMAIN events
      PROVE  (\A j \in i .. Len(after) : after[j].type \notin resets)
               <=> (\A j \in i .. Len(events) : events[j].type \notin resets)
  BY <1>1
<1>3. SinceIn(after, type, resets) = SinceIn(events, type, resets)
  BY <1>1, <1>2 DEF SinceIn
<1> QED  BY <1>3 DEF AppendEvent, after

(* A reset empties the events counted.                                     *)
LEMMA SinceReset ==
    ASSUME NEW events \in Seq(EventRecord), NEW e \in EventRecord,
           NEW type, NEW resets, e.type \in resets,
           \A i \in DOMAIN events :
              ~(events[i].type = e.type /\ events[i].attempt = e.attempt)
    PROVE  Cardinality(SinceIn(AppendEvent(events, e), type, resets)) = 0
<1> DEFINE after == Append(events, e)
<1>1. /\ Len(after) = Len(events) + 1 /\ DOMAIN after = 1 .. Len(events) + 1
      /\ Len(events) \in Nat
      /\ after[Len(events) + 1] = e
  OBVIOUS
<1> HIDE DEF after
<1>2. SinceIn(after, type, resets) = {}
  BY <1>1 DEF SinceIn
<1>3. AppendEvent(events, e) = after
  BY DEF AppendEvent, after
<1> QED  BY <1>2, <1>3, FS_EmptySet

(* A new failure is counted.                                               *)
LEMMA SinceCounted ==
    ASSUME NEW events \in Seq(EventRecord), NEW e \in EventRecord,
           NEW resets, e.type \notin resets,
           \A i \in DOMAIN events :
              ~(events[i].type = e.type /\ events[i].attempt = e.attempt)
    PROVE  Cardinality(SinceIn(AppendEvent(events, e), e.type, resets))
             = Cardinality(SinceIn(events, e.type, resets)) + 1
<1> DEFINE after == Append(events, e)
           old   == SinceIn(events, e.type, resets)
<1>1. /\ Len(after) = Len(events) + 1 /\ DOMAIN after = 1 .. Len(events) + 1
      /\ DOMAIN events = 1 .. Len(events) /\ Len(events) \in Nat
      /\ after[Len(events) + 1] = e
      /\ \A i \in 1 .. Len(events) : after[i] = events[i]
  OBVIOUS
<1> HIDE DEF after
<1>2. ASSUME NEW i \in DOMAIN events
      PROVE  (\A j \in i .. Len(after) : after[j].type \notin resets)
               <=> (\A j \in i .. Len(events) : events[j].type \notin resets)
  BY <1>1
<1>3. SinceIn(after, e.type, resets) = old \cup {Len(events) + 1}
  BY <1>1, <1>2 DEF SinceIn
<1>4. old \subseteq 1 .. Len(events)
  BY <1>1 DEF SinceIn
<1>5. IsFiniteSet(old)
  <2>1. IsFiniteSet(1 .. Len(events))
    BY <1>1, FS_Interval
  <2> HIDE DEF old
  <2> QED  BY <1>4, <2>1, FS_Subset
<1>6. Len(events) + 1 \notin old
  BY <1>1, <1>4
<1>7. AppendEvent(events, e) = after
  BY DEF AppendEvent, after
<1> QED  BY <1>3, <1>5, <1>6, <1>7, FS_AddElement

----------------------------------------------------------------------------
(* Steps of a call and the snapshots it holds *)

(* A call's snapshot is one it had, the row as it is, or none.             *)
LEMMA SnapshotsCome ==
    ASSUME IInv, NEW r \in Runs, Start(r) \/ Step(r) \/ Abort(r)
    PROVE  \A q \in Runs : run'[q].snap \in {run[q].snap, row, NoSnapshot}
<1> DEFINE Comes == \E me : /\ run' = [run EXCEPT ![r] = me]
                            /\ me.snap \in {run[r].snap, row, NoSnapshot}
<1>0. run \in [Runs -> RunState] /\ run[r] \in RunState
  BY DEF IInv, TypeOK
<1>1. Comes => \A q \in Runs : run'[q].snap \in {run[q].snap, row, NoSnapshot}
  BY <1>0
<1>2. ASSUME NEW answer, Return(r, answer)
      PROVE  Comes
  <2>1. Idle(answer).snap = NoSnapshot
    BY DEF Idle
  <2>2. run' = [run EXCEPT ![r] = Idle(answer)]
    BY <1>2 DEF Return
  <2> QED  BY <2>1, <2>2
<1> SUFFICES Comes
  BY <1>1
<1>3. ASSUME NEW me, me.snap \in {run[r].snap, row, NoSnapshot},
             NextIteration(r, me), me \in RunState
      PROVE  Comes
  <2>1. CASE StopsAfter(me.last.stage, me.snap.status)
    BY <1>2, <1>3, <2>1 DEF NextIteration
  <2>2. CASE ~StopsAfter(me.last.stage, me.snap.status)
    BY <1>3, <2>2 DEF NextIteration, RunState
  <2> QED  BY <2>1, <2>2
<1>4. CASE Start(r)
  <2> DEFINE me == [Idle("none") EXCEPT !.pc = "load",
                       !.refs = [stage \in Stages |-> LatestRefs(log, stage)]]
  <2>1. run' = [run EXCEPT ![r] = me]
    BY <1>4 DEF Start
  <2>2. me.snap = NoSnapshot
    BY DEF Idle
  <2> QED  BY <2>1, <2>2
<1>5. CASE Load(r)
  BY <1>0, <1>2, <1>5 DEF Load, RunState
<1>6. CASE EnterDeveloperStage(r)
  BY <1>0, <1>2, <1>6 DEF EnterDeveloperStage, Rejected, RunState
<1>7. CASE MarkReviewStarted(r)
  BY <1>0, <1>2, <1>7 DEF MarkReviewStarted, Rejected, RunState
<1>8. CASE Reload(r)
  <2> DEFINE pc == IF run[r].pc = "entered" THEN "developer" ELSE "review"
             me == [run[r] EXCEPT !.snap = row, !.pc = pc]
  <2>1. run' = [run EXCEPT ![r] = me]
    BY <1>0, <1>8 DEF Reload, RunState
  <2>2. me.snap = row
    BY <1>0 DEF RunState
  <2> QED  BY <2>1, <2>2
<1>9. CASE DeveloperStage(r) \/ QAStage(r) \/ ReviewStage(r)
  <2>1. PICK stage \in Stages, result \in Result :
           StageOutcome(r, stage, Lifecycle!Working(stage), Verdict(stage, result))
    BY <1>9, StageCases
  <2> DEFINE v == Verdict(stage, result)
             me == Remember(r, stage, v)
  <2>2. v.fp \in SUBSET Tokens
    BY VerdictType
  <2> HIDE DEF v
  <2>3. me.snap = run[r].snap /\ [me EXCEPT !.pc = "settle"].snap = run[r].snap
    BY <1>0 DEF Remember, RunState
  <2>4. run[r].snap.attempt \in Nat
    BY <1>0 DEF RunState, RowRecord, NoSnapshot
  <2>5. me \in RunState
    BY <1>0, <2>2, <2>4 DEF Remember, RunState, Stages
  <2>6. \/ NextIteration(r, me)
        \/ run' = [run EXCEPT ![r] = [me EXCEPT !.pc = "settle"]]
        \/ Return(r, row.status)
    BY <2>1 DEF StageOutcome, Rejected, v
  <2>7. CASE NextIteration(r, me)
    <3> HIDE DEF me
    <3> QED  BY <1>3, <2>3, <2>5, <2>7
  <2>8. CASE run' = [run EXCEPT ![r] = [me EXCEPT !.pc = "settle"]]
    <3> DEFINE new == [me EXCEPT !.pc = "settle"]
    <3> HIDE DEF me
    <3>1. run' = [run EXCEPT ![r] = new] /\ new.snap = run[r].snap
      BY <2>3, <2>8
    <3> HIDE DEF new
    <3> QED  BY <3>1
  <2> QED  BY <1>2, <2>6, <2>7, <2>8
<1>10. CASE Settle(r)
  <2> DEFINE me == [run[r] EXCEPT !.snap = row]
  <2>1. me \in RunState /\ me.snap = row
    BY <1>0 DEF RunState, IInv, TypeOK
  <2>2. NextIteration(r, me)
    BY <1>10 DEF Settle
  <2> HIDE DEF me
  <2> QED  BY <1>3, <2>1, <2>2
<1>11. CASE BudgetExceeded(r)
  BY <1>0, <1>2, <1>11 DEF BudgetExceeded, RunState
<1>12. CASE Escalate(r)
  BY <1>2, <1>12 DEF Escalate, Rejected
<1>13. CASE Abort(r)
  BY <1>2, <1>13 DEF Abort
<1> HIDE DEF Comes
<1> QED  BY <1>4, <1>5, <1>6, <1>7, <1>8, <1>9, <1>10, <1>11, <1>12, <1>13
         DEF Step

----------------------------------------------------------------------------
(* What a step writes is told by the log *)

(* After a step the log still tells the row, and every snapshot that had   *)
(* the row's counters has them still.                                      *)
StillTold ==
    /\ NewestTells(log', row')
    /\ CountersTell(log', row')
    /\ \A s \in RowRecord \cup {NoSnapshot} :
          SnapshotCounts(s, row) => SnapshotCounts(s, row')

(* The events the counters are built from.                                 *)
CountedTypes == {"qa_failed", "qa_passed", "review_changes_requested",
                 "review_passed", "review_awaits_human"}

(* Any other event leaves the counters as they are.                        *)
LEMMA OtherEventCounts ==
    ASSUME NEW events \in Seq(EventRecord), NEW e \in EventRecord,
           e.type \notin CountedTypes, NEW task, CountersTell(events, task)
    PROVE  CountersTell(AppendEvent(events, e), task)
<1>1. /\ e.type # "qa_failed" /\ e.type \notin {"qa_passed"}
      /\ e.type # "review_changes_requested"
      /\ e.type \notin {"review_passed", "review_awaits_human"}
  BY DEF CountedTypes
<1>2. /\ SinceIn(AppendEvent(events, e), "qa_failed", {"qa_passed"})
           = SinceIn(events, "qa_failed", {"qa_passed"})
      /\ SinceIn(AppendEvent(events, e), "review_changes_requested",
                 {"review_passed", "review_awaits_human"})
           = SinceIn(events, "review_changes_requested",
                 {"review_passed", "review_awaits_human"})
  BY <1>1, SinceOther
<1> QED  BY <1>2 DEF CountersTell

(* A snapshot that had the counters has them while the row goes on to a    *)
(* later attempt, or keeps its counters.                                   *)
LEMMA SnapshotKept ==
    ASSUME NEW s \in RowRecord \cup {NoSnapshot}, SnapshotCounts(s, row),
           row \in RowRecord, row' \in RowRecord,
           \/ row'.attempt > row.attempt
           \/ /\ row'.attempt = row.attempt
              /\ row'.status \in Before("qa") => /\ row.status \in Before("qa")
                                                 /\ row'.qaFails = row.qaFails
              /\ row'.status \in Before("review") => /\ row.status \in Before("review")
                                                     /\ row'.reviewFails = row.reviewFails
    PROVE  SnapshotCounts(s, row')
<1>1. s.attempt \in Nat /\ row.attempt \in Nat /\ row'.attempt \in Nat
  BY DEF RowRecord, NoSnapshot
<1> QED  BY <1>1 DEF SnapshotCounts

(* EnterDeveloperStage: the events of a new attempt are new, and so is the *)
(* start of the first one.                                                 *)
LEMMA EnterTells ==
    ASSUME HInv, NEW r \in Runs, EnterDeveloperStage(r), ~(row' = row /\ log' = log)
    PROVE  StillTold
<1> DEFINE snap    == run[r].snap
           attempt == DeveloperAttempt(snap)
           retry   == Event("retry_approved", attempt, row.status,
                            "dev_in_progress", 0, row.fp, {})
           retried == IF snap.status \in {"qa_failed", "review_failed"}
                      THEN AppendEvent(log, retry) ELSE log
           started == Event("developer_started", attempt, row.status,
                            "dev_in_progress", 0, NoFp, {})
<1>1. /\ row \in RowRecord /\ log \in Seq(EventRecord) /\ LogBehindRow(log, row)
      /\ run[r] \in RunState /\ snap \in RowRecord
      /\ snap.status \in {"in_progress", "dev_in_progress", "qa_failed",
                          "review_failed"}
      /\ NewestTells(log, row) /\ CountersTell(log, row)
  BY DEF HInv, IInv, TypeOK, RunInv, EnterDeveloperStage
<1>2. WriteAllowed(snap.status, snap.attempt)
  BY DEF EnterDeveloperStage, Rejected
<1>3. /\ row' = [row EXCEPT !.status = "dev_in_progress", !.attempt = attempt]
      /\ log' = AppendEvent(retried, started)
  BY <1>2 DEF EnterDeveloperStage
<1>4. snap.status = row.status /\ snap.attempt = row.attempt
  BY <1>1, <1>2 DEF WriteAllowed, RowRecord
<1>5. /\ attempt \in Nat \ {0}
      /\ \/ /\ attempt = row.attempt + 1
            /\ retried = AppendEvent(log, retry)
            /\ row.status \notin {"in_progress", "escalated"}
         \/ /\ attempt = row.attempt
            /\ retried = log
            /\ row.status \in {"in_progress", "dev_in_progress"}
  BY <1>1, <1>4 DEF DeveloperAttempt, RowRecord
<1> HIDE DEF attempt, retried
<1>6. retry \in EventRecord /\ started \in EventRecord
  BY <1>1, <1>5, EventType DEF EventTypes, RowRecord, Statuses, Active, NoFp
<1>7. /\ retry.attempt = attempt /\ started.attempt = attempt
      /\ retry.to = "dev_in_progress" /\ started.to = "dev_in_progress"
      /\ retry.type = "retry_approved" /\ started.type = "developer_started"
  BY DEF Event
<1> HIDE DEF retry, started
<1>8. /\ row'.attempt = attempt /\ row'.status = "dev_in_progress"
      /\ row'.qaFails = row.qaFails /\ row'.reviewFails = row.reviewFails
      /\ row' \in RowRecord
  BY <1>1, <1>3, <1>5 DEF RowRecord, Statuses, Active
<1>9. \A i \in DOMAIN log : log[i] \in EventRecord /\ log[i].attempt <= row.attempt
  BY <1>1 DEF LogBehindRow
<1>10. row.status # "escalated" /\ \A i \in DOMAIN log : log[i].type # "task_escalated"
  BY <1>1, <1>5 DEF NewestTells
<1>11. /\ retried \in Seq(EventRecord) /\ Len(retried) > 0
       /\ \A i \in DOMAIN retried : retried[i].type # "task_escalated"
       /\ CountersTell(retried, row)
  <2>1. CASE retried = log
    BY <1>1, <1>10, <2>1 DEF NewestTells
  <2>2. CASE retried = AppendEvent(log, retry)
    <3>1. retry.type \notin CountedTypes
      BY <1>7 DEF CountedTypes
    <3>2. CountersTell(retried, row)
      BY <1>1, <1>6, <2>2, <3>1, OtherEventCounts
    <3>3. retried \in Seq(EventRecord) /\ Len(retried) > 0
      BY <1>1, <1>6, <2>2, AppendEventNewest DEF NewestTells
    <3>4. \A i \in DOMAIN retried : retried[i].type # "task_escalated"
      BY <1>1, <1>6, <1>7, <1>10, <2>2, AppendEventCases
    <3> QED  BY <3>2, <3>3, <3>4
  <2> QED  BY <1>5, <2>1, <2>2
<1>12. /\ log'[Len(log')].attempt = attempt
       /\ log'[Len(log')].to = "dev_in_progress"
       /\ Len(log') > 0
  <2>1. /\ Len(log') > 0
        /\ log' = retried \/ log'[Len(log')] = started
        /\ (\A i \in DOMAIN retried :
              ~(retried[i].type = started.type /\ retried[i].attempt = started.attempt))
           => log'[Len(log')] = started
    BY <1>3, <1>6, <1>11, AppendEventNewest
  <2>2. CASE attempt = row.attempt + 1 /\ retried = AppendEvent(log, retry)
    <3>1. \A i \in DOMAIN log : log[i].attempt # attempt
      BY <1>1, <1>9, <2>2 DEF RowRecord, EventRecord
    <3>2. \A i \in DOMAIN log :
             ~(log[i].type = retry.type /\ log[i].attempt = retry.attempt)
      BY <1>7, <3>1
    <3>3. Len(log) > 0
      BY <1>1 DEF NewestTells
    <3>4. retried[Len(retried)] = retry
      BY <1>1, <1>6, <2>2, <3>2, <3>3, AppendEventNewest
    <3> QED  BY <1>7, <2>1, <3>4
  <2>3. CASE retried = log /\ attempt = row.attempt /\ row.status = "in_progress"
    BY <1>1, <1>7, <2>1, <2>3 DEF NewestTells
  <2>4. CASE retried = log /\ attempt = row.attempt /\ row.status = "dev_in_progress"
    BY <1>1, <1>7, <2>1, <2>4 DEF NewestTells
  <2> QED  BY <1>5, <2>2, <2>3, <2>4
<1>13. \A i \in DOMAIN log' : log'[i].type # "task_escalated"
  BY <1>3, <1>6, <1>7, <1>11, AppendEventCases
<1>14. NewestTells(log', row')
  BY <1>8, <1>12, <1>13 DEF NewestTells
<1>15. CountersTell(log', row')
  <2>1. started.type \notin CountedTypes
    BY <1>7 DEF CountedTypes
  <2>2. CountersTell(log', row)
    BY <1>3, <1>6, <1>11, <2>1, OtherEventCounts
  <2> QED  BY <1>8, <2>2 DEF CountersTell
<1>16. \/ row'.attempt > row.attempt
       \/ /\ row'.attempt = row.attempt
          /\ row.status \in Before("qa") /\ row.status \in Before("review")
  BY <1>1, <1>5, <1>8 DEF Before, RowRecord
<1>17. \A s \in RowRecord \cup {NoSnapshot} :
          SnapshotCounts(s, row) => SnapshotCounts(s, row')
  BY <1>1, <1>8, <1>16, SnapshotKept
<1> QED  BY <1>14, <1>15, <1>17 DEF StillTold

(* MarkReviewStarted: the start of a review, new or repeated.              *)
LEMMA MarkTells ==
    ASSUME HInv, NEW r \in Runs, MarkReviewStarted(r), ~(row' = row /\ log' = log)
    PROVE  StillTold
<1> DEFINE snap == run[r].snap
           e    == Event("review_started", row.attempt, "review_in_progress",
                         "review_in_progress", 0, NoFp, {})
<1>1. /\ row \in RowRecord /\ log \in Seq(EventRecord)
      /\ run[r] \in RunState /\ RunInv(run[r]) /\ run[r].pc = "mark"
      /\ NewestTells(log, row) /\ CountersTell(log, row)
  BY DEF HInv, IInv, TypeOK, MarkReviewStarted
<1>2. WriteAllowed(snap.status, snap.attempt) /\ log' = AppendEvent(log, e) /\ row' = row
  BY DEF MarkReviewStarted, Rejected
<1>3. row.status = "review_in_progress"
  BY <1>1, <1>2 DEF WriteAllowed, RunInv
<1>4. e \in EventRecord
  BY <1>1, EventType DEF EventTypes, RowRecord, Statuses, Active, NoFp
<1>5. /\ e.attempt = row.attempt /\ e.to = row.status /\ e.type = "review_started"
  BY <1>3 DEF Event
<1> HIDE DEF e
<1>6. Len(log) > 0 /\ \A i \in DOMAIN log : log[i].type # "task_escalated"
  BY <1>1, <1>3 DEF NewestTells
<1>7. Len(log') > 0 /\ (log' = log \/ log'[Len(log')] = e)
  BY <1>1, <1>2, <1>4, <1>6, AppendEventNewest
<1>8. \A i \in DOMAIN log' : log'[i].type # "task_escalated"
  BY <1>1, <1>2, <1>4, <1>5, <1>6, AppendEventCases
<1>9. NewestTells(log', row')
  BY <1>1, <1>2, <1>3, <1>5, <1>7, <1>8 DEF NewestTells
<1>10. CountersTell(log', row')
  <2>1. e.type \notin CountedTypes
    BY <1>5 DEF CountedTypes
  <2> QED  BY <1>1, <1>2, <1>4, <2>1, OtherEventCounts
<1> QED  BY <1>2, <1>9, <1>10 DEF StillTold

(* Escalate: a task is escalated once, so the event is new.                *)
LEMMA EscalateTells ==
    ASSUME HInv, NEW r \in Runs, Escalate(r), ~(row' = row /\ log' = log)
    PROVE  StillTold
<1> DEFINE snap == run[r].snap
           fp   == EscalationFp(run[r])
           e    == Event("task_escalated", row.attempt, row.status, "escalated",
                         0, fp, {})
<1>1. /\ row \in RowRecord /\ log \in Seq(EventRecord)
      /\ run[r] \in RunState /\ RunInv(run[r]) /\ run[r].pc = "escalate"
      /\ snap \in RowRecord
      /\ NewestTells(log, row) /\ CountersTell(log, row)
  BY DEF HInv, IInv, TypeOK, RunInv, Escalate
<1>2. /\ WriteAllowed(snap.status, snap.attempt)
      /\ log' = AppendEvent(log, e)
      /\ row' = [row EXCEPT !.status = "escalated", !.fp = fp, !.needsHuman = TRUE]
  BY DEF Escalate, Rejected
<1>3. row.status \in Active
  BY <1>1, <1>2 DEF WriteAllowed, RunInv
<1>4. fp \in SUBSET Tokens
  BY <1>1 DEF EscalationFp, RunState, RowRecord, Tokens
<1> HIDE DEF fp
<1>5. e \in EventRecord
  BY <1>1, <1>4, EventType DEF EventTypes, RowRecord, Statuses, Parked
<1>6. e.attempt = row.attempt /\ e.to = "escalated" /\ e.type = "task_escalated"
  BY DEF Event
<1> HIDE DEF e
<1>7. /\ row' \in RowRecord /\ row'.attempt = row.attempt /\ row'.status = "escalated"
      /\ row'.qaFails = row.qaFails /\ row'.reviewFails = row.reviewFails
  BY <1>1, <1>2, <1>4 DEF RowRecord, Statuses, Parked
<1>8. Len(log) > 0 /\ \A i \in DOMAIN log : log[i].type # "task_escalated"
  BY <1>1, <1>3 DEF NewestTells, Active
<1>9. \A i \in DOMAIN log : ~(log[i].type = e.type /\ log[i].attempt = e.attempt)
  BY <1>6, <1>8
<1>10. Len(log') > 0 /\ log'[Len(log')] = e
  BY <1>1, <1>2, <1>5, <1>8, <1>9, AppendEventNewest
<1>11. NewestTells(log', row')
  BY <1>6, <1>7, <1>10 DEF NewestTells
<1>12. CountersTell(log', row')
  <2>1. e.type \notin CountedTypes
    BY <1>6 DEF CountedTypes
  <2>2. CountersTell(log', row)
    BY <1>1, <1>2, <1>5, <2>1, OtherEventCounts
  <2> QED  BY <1>7, <2>2 DEF CountersTell
<1>13. row'.status \notin Before("qa") /\ row'.status \notin Before("review")
  BY <1>7 DEF Before
<1>14. \A s \in RowRecord \cup {NoSnapshot} :
          SnapshotCounts(s, row) => SnapshotCounts(s, row')
  BY <1>1, <1>7, <1>13, SnapshotKept
<1> QED  BY <1>11, <1>12, <1>14 DEF StillTold

(* HumanTakeover writes no event, and leaves the counters.                 *)
LEMMA TakeoverTells ==
    ASSUME HInv, HumanTakeover
    PROVE  StillTold
<1>1. /\ row \in RowRecord /\ NewestTells(log, row) /\ CountersTell(log, row)
      /\ row.status \notin Parked
  BY DEF HInv, IInv, TypeOK, HumanTakeover
<1>2. /\ row' = [row EXCEPT !.status = "awaiting_human", !.fp = {"manual"},
                            !.needsHuman = TRUE]
      /\ log' = log
  BY DEF HumanTakeover
<1>3. /\ row' \in RowRecord /\ row'.attempt = row.attempt
      /\ row'.status = "awaiting_human" /\ row'.fp = {"manual"}
      /\ row'.qaFails = row.qaFails /\ row'.reviewFails = row.reviewFails
  BY <1>1, <1>2 DEF RowRecord, Statuses, Parked, Tokens
<1>4. NewestTells(log', row')
  BY <1>1, <1>2, <1>3 DEF NewestTells, Parked
<1>5. CountersTell(log', row')
  BY <1>1, <1>2, <1>3 DEF CountersTell
<1>6. row'.status \notin Before("qa") /\ row'.status \notin Before("review")
  BY <1>3 DEF Before
<1>7. \A s \in RowRecord \cup {NoSnapshot} :
          SnapshotCounts(s, row) => SnapshotCounts(s, row')
  BY <1>1, <1>3, <1>6, SnapshotKept
<1> QED  BY <1>4, <1>5, <1>7 DEF StillTold

(* A verdict's event is new, and it counts what the verdict counts: the    *)
(* snapshot the verdict's counter continues has the row's count.           *)
LEMMA VerdictTells ==
    ASSUME HInv, NEW r \in Runs, NEW stage \in Stages, NEW v,
           v.event \in StageEvents(stage) \cup {"retry"}, v.fp \in SUBSET Tokens,
           v.findings \in SUBSET Finding,
           run[r].pc = stage,
           StageOutcome(r, stage, Lifecycle!Working(stage), v),
           ~(row' = row /\ log' = log)
    PROVE  StillTold
<1> DEFINE snap     == run[r].snap
           e        == Event(v.event, row.attempt, row.status,
                             TargetStatus(v.event), snap.attempt, v.fp, v.findings)
           outcome  == AppendEvent(log, e)
           handover == Event("task_awaiting_human", row.attempt, row.status,
                             "awaiting_human", 0, v.fp, {})
<1>1. /\ IInv /\ row \in RowRecord /\ log \in Seq(EventRecord) /\ LogBehindRow(log, row)
      /\ run[r] \in RunState /\ snap \in RowRecord
      /\ NewestTells(log, row) /\ CountersTell(log, row)
      /\ SnapshotCounts(snap, row)
  BY DEF HInv, IInv, TypeOK, RunInv, Stages
<1>2. /\ v.event \in StageEvents(stage) /\ v.event # "retry"
      /\ WriteAllowed(Lifecycle!Working(stage), snap.attempt)
      /\ row' = RowAfter(snap, v) /\ log' = LogAfter(snap, v)
  BY DEF StageOutcome, Rejected
<1>3. /\ row' \in RowRecord /\ row'.attempt = row.attempt
      /\ row.status = Lifecycle!Working(stage)
      /\ e \in EventRecord /\ e.type = v.event
      /\ e.attempt = row.attempt
  BY <1>1, <1>2, CommitFacts
<1>4. /\ row'.status = TargetStatus(v.event)
      /\ row'.qaFails = QAFails(snap, v.event)
      /\ row'.reviewFails = ReviewFails(snap, v.event)
  BY <1>2 DEF RowAfter
<1>5. snap.attempt = row.attempt
  BY <1>1, <1>2 DEF WriteAllowed, RowRecord
<1>6. handover \in EventRecord
  BY <1>1, EventType DEF EventTypes, RowRecord, Statuses, Parked
<1>7. /\ handover.attempt = row.attempt /\ handover.to = "awaiting_human"
      /\ handover.type = "task_awaiting_human" /\ e.to = row'.status
  BY <1>4 DEF Event
<1>8. \/ log' = outcome
      \/ v.event = "review_awaits_human" /\ log' = AppendEvent(outcome, handover)
  BY <1>2 DEF LogAfter
<1> HIDE DEF e, handover
<1>9. \A i \in DOMAIN log : ~(log[i].type = e.type /\ log[i].attempt = e.attempt)
  <2>1. Lifecycle!Working(stage) \in Before(stage) /\ stage # "none"
        /\ StageOfEvent(e.type) = stage
    BY <1>2, <1>3, EventTargets DEF Lifecycle!Working, Before, Stages
  <2> QED  BY <1>1, <1>3, <2>1 DEF LogBehindRow
<1>10. /\ Len(log) > 0 /\ \A i \in DOMAIN log : log[i].type # "task_escalated"
  BY <1>1, <1>3 DEF NewestTells, Lifecycle!Working, Stages
<1>11. /\ outcome \in Seq(EventRecord) /\ Len(outcome) > 0
       /\ outcome[Len(outcome)] = e
  BY <1>1, <1>3, <1>9, <1>10, AppendEventNewest
<1>12. \A i \in DOMAIN outcome : outcome[i].type # "task_escalated"
  <2>1. e.type # "task_escalated"
    BY <1>2, <1>3 DEF StageEvents, Stages
  <2> QED  BY <1>1, <1>3, <1>10, <2>1, AppendEventCases
<1>13. CountersTell(outcome, row')
  <2>1. row.qaFails \in Nat /\ row.reviewFails \in Nat
    BY <1>1 DEF RowRecord
  <2>2. /\ row.status \in Before("qa") => snap.qaFails = row.qaFails
        /\ row.status \in Before("review") => snap.reviewFails = row.reviewFails
    BY <1>1, <1>5 DEF SnapshotCounts
  <2>3. CASE v.event \in {"developer_completed", "developer_blocked", "task_blocked"}
    <3>1. e.type \notin CountedTypes
      BY <1>3, <2>3 DEF CountedTypes
    <3>2. CountersTell(outcome, row)
      BY <1>1, <1>3, <3>1, OtherEventCounts
    <3>3. row'.qaFails = row.qaFails /\ row'.reviewFails = row.reviewFails
      BY <1>4, <2>3 DEF QAFails, ReviewFails
    <3> QED  BY <3>2, <3>3 DEF CountersTell
  <2>4. CASE v.event \in {"qa_passed", "qa_failed"}
    <3>1. stage = "qa"
      BY <1>2, <2>4 DEF StageEvents, Stages
    <3>2. snap.qaFails = row.qaFails
      BY <1>3, <2>2, <3>1 DEF Before, Lifecycle!Working
    <3>3. SinceIn(outcome, "review_changes_requested", {"review_passed", "review_awaits_human"})
            = SinceIn(log, "review_changes_requested", {"review_passed", "review_awaits_human"})
      BY <1>1, <1>3, <2>4, SinceOther
    <3>4. row'.reviewFails = row.reviewFails
      BY <1>4, <2>4 DEF ReviewFails
    <3>5. CASE v.event = "qa_passed"
      <4>1. row'.qaFails = 0
        BY <1>4, <3>5 DEF QAFails
      <4>2. Cardinality(SinceIn(outcome, "qa_failed", {"qa_passed"})) = 0
        BY <1>1, <1>3, <1>9, <3>5, SinceReset
      <4> QED  BY <1>1, <3>3, <3>4, <4>1, <4>2 DEF CountersTell
    <3>6. CASE v.event = "qa_failed"
      <4>1. row'.qaFails = row.qaFails + 1
        BY <1>4, <3>2, <3>6 DEF QAFails
      <4>2. Cardinality(SinceIn(outcome, "qa_failed", {"qa_passed"}))
              = Cardinality(SinceIn(log, "qa_failed", {"qa_passed"})) + 1
        BY <1>1, <1>3, <1>9, <3>6, SinceCounted
      <4> QED  BY <1>1, <3>3, <3>4, <4>1, <4>2 DEF CountersTell
    <3> QED  BY <2>4, <3>5, <3>6
  <2>5. CASE v.event \in {"review_passed", "review_awaits_human", "review_changes_requested"}
    <3> DEFINE resets == {"review_passed", "review_awaits_human"}
    <3>1. stage = "review"
      BY <1>2, <2>5 DEF StageEvents, Stages
    <3>2. snap.reviewFails = row.reviewFails
      BY <1>3, <2>2, <3>1 DEF Before, Lifecycle!Working
    <3>3. SinceIn(outcome, "qa_failed", {"qa_passed"}) = SinceIn(log, "qa_failed", {"qa_passed"})
      BY <1>1, <1>3, <2>5, SinceOther
    <3>4. row'.qaFails = row.qaFails
      BY <1>4, <2>5 DEF QAFails
    <3>5. CASE v.event \in resets
      <4>1. row'.reviewFails = 0
        BY <1>4, <3>5 DEF ReviewFails
      <4>2. Cardinality(SinceIn(outcome, "review_changes_requested", resets)) = 0
        BY <1>1, <1>3, <1>9, <3>5, SinceReset
      <4> QED  BY <1>1, <3>3, <3>4, <4>1, <4>2 DEF CountersTell
    <3>6. CASE v.event = "review_changes_requested"
      <4>1. row'.reviewFails = row.reviewFails + 1
        BY <1>4, <3>2, <3>6 DEF ReviewFails
      <4>2. Cardinality(SinceIn(outcome, "review_changes_requested", resets))
              = Cardinality(SinceIn(log, "review_changes_requested", resets)) + 1
        BY <1>1, <1>3, <1>9, <3>6, SinceCounted
      <4> QED  BY <1>1, <3>3, <3>4, <4>1, <4>2 DEF CountersTell
    <3> QED  BY <2>5, <3>5, <3>6
  <2> QED  BY <1>2, <2>3, <2>4, <2>5 DEF StageEvents, Stages
<1> HIDE DEF outcome
<1>14. ASSUME log' = outcome
       PROVE  NewestTells(log', row') /\ CountersTell(log', row')
  <2>1. NewestTells(log', row')
    <3>1. row'.status # "in_progress"
      BY <1>2, <1>4, EventTargets DEF Lifecycle!Outcomes, Stages
    <3> QED  BY <1>3, <1>7, <1>11, <1>12, <1>14, <3>1 DEF NewestTells
  <2>2. CountersTell(log', row')
    BY <1>13, <1>14
  <2> QED  BY <2>1, <2>2
<1>15. ASSUME v.event = "review_awaits_human", log' = AppendEvent(outcome, handover)
       PROVE  NewestTells(log', row') /\ CountersTell(log', row')
  <2>1. row'.status = "awaiting_human"
    BY <1>4, <1>15 DEF TargetStatus
  <2>2. handover.type \notin CountedTypes
    BY <1>7 DEF CountedTypes
  <2>3. Len(log') > 0 /\ (log' = outcome \/ log'[Len(log')] = handover)
    BY <1>6, <1>11, <1>15, AppendEventNewest
  <2>4. \A i \in DOMAIN log' : log'[i].type # "task_escalated"
    BY <1>6, <1>7, <1>11, <1>12, <1>15, AppendEventCases
  <2>5. NewestTells(log', row')
    BY <1>3, <1>7, <1>11, <2>1, <2>3, <2>4 DEF NewestTells
  <2> QED  BY <1>6, <1>11, <1>13, <1>15, <2>2, <2>5, OtherEventCounts
<1>16. /\ row'.status \in Before("qa") => /\ row.status \in Before("qa")
                                          /\ row'.qaFails = row.qaFails
       /\ row'.status \in Before("review") => /\ row.status \in Before("review")
                                              /\ row'.reviewFails = row.reviewFails
  <2>1. CASE stage = "developer"
    <3>1. row'.qaFails = row.qaFails /\ row'.reviewFails = row.reviewFails
      BY <1>2, <1>4, <2>1 DEF StageEvents, QAFails, ReviewFails
    <3> QED  BY <1>3, <2>1, <3>1 DEF Before, Lifecycle!Working
  <2>2. CASE stage = "qa"
    <3>1. row'.reviewFails = row.reviewFails
      BY <1>2, <1>4, <2>2 DEF StageEvents, ReviewFails
    <3>2. row'.status \in Lifecycle!Outcomes(stage)
      BY <1>2, <1>4, EventTargets
    <3> QED  BY <1>3, <2>2, <3>1, <3>2 DEF Before, Lifecycle!Working, Lifecycle!Outcomes
  <2>3. CASE stage = "review"
    <3>1. row'.status \in Lifecycle!Outcomes(stage)
      BY <1>2, <1>4, EventTargets
    <3> QED  BY <2>3, <3>1 DEF Before, Lifecycle!Outcomes
  <2> QED  BY <2>1, <2>2, <2>3 DEF Stages
<1>17. \A s \in RowRecord \cup {NoSnapshot} :
          SnapshotCounts(s, row) => SnapshotCounts(s, row')
  BY <1>1, <1>3, <1>16, SnapshotKept
<1>18. NewestTells(log', row') /\ CountersTell(log', row')
  BY <1>8, <1>14, <1>15
<1> QED  BY <1>17, <1>18 DEF StillTold

----------------------------------------------------------------------------
(* The invariant *)

(* The initial log tells the initial row.                                  *)
LEMMA HistoryInit == Init => HInv
<1> SUFFICES ASSUME Init PROVE HInv
  OBVIOUS
<1>1. Len(log) = 1 /\ log[1] = Event("task_started", 1, "todo", "in_progress", 0, NoFp, {})
  BY DEF Init
<1>2. log[1].type = "task_started" /\ log[1].attempt = 1 /\ log[1].to = "in_progress"
  BY <1>1 DEF Event
<1>3. DOMAIN log = {1}
  BY DEF Init
<1>4. NewestTells(log, row)
  BY <1>1, <1>2, <1>3 DEF Init, NewestTells
<1>5. /\ SinceIn(log, "qa_failed", {"qa_passed"}) = {}
      /\ SinceIn(log, "review_changes_requested",
                 {"review_passed", "review_awaits_human"}) = {}
  BY <1>2, <1>3 DEF SinceIn
<1>6. CountersTell(log, row)
  BY <1>5, FS_EmptySet DEF Init, CountersTell
<1>7. \A r \in Runs : SnapshotCounts(run[r].snap, row)
  BY DEF Init, Idle, NoSnapshot, SnapshotCounts
<1> QED  BY <1>4, <1>6, <1>7, InitInv DEF HInv

(* Every step keeps it.                                                    *)
LEMMA HistoryNext == HInv /\ [Next]_vars => HInv'
<1> SUFFICES ASSUME HInv, [Next]_vars PROVE HInv'
  OBVIOUS
<1>1. IInv /\ IInv' /\ row \in RowRecord /\ run \in [Runs -> RunState]
  BY NextInv DEF HInv, IInv, TypeOK
<1>2. row' = row /\ log' = log => StillTold
  BY DEF HInv, StillTold
<1>3. StillTold
  <2>1. ASSUME NEW r \in Runs, Start(r) \/ Step(r) \/ Abort(r)
        PROVE  StillTold
    <3>1. CASE Start(r) \/ Load(r) \/ Reload(r) \/ Settle(r) \/ BudgetExceeded(r) \/ Abort(r)
      BY <1>2, <3>1 DEF Start, Load, Reload, Settle, BudgetExceeded, Abort
    <3>2. CASE DeveloperStage(r) \/ QAStage(r) \/ ReviewStage(r)
      BY <1>2, <3>2, StageCases, VerdictType, VerdictTells
    <3> QED  BY <1>2, <2>1, <3>1, <3>2, EnterTells, MarkTells, EscalateTells DEF Step
  <2>2. UNCHANGED vars => StillTold
    BY <1>2 DEF vars
  <2> QED  BY <2>1, <2>2, TakeoverTells DEF Next
<1>4. \A q \in Runs : run'[q].snap \in {run[q].snap, row, NoSnapshot}
  BY <1>1, SnapshotsCome DEF Next, vars, HumanTakeover
<1>5. \A q \in Runs : SnapshotCounts(run'[q].snap, row')
  <2> TAKE q \in Runs
  <2>1. run[q].snap \in RowRecord \cup {NoSnapshot}
    BY <1>1 DEF RunState
  <2>2. SnapshotCounts(run[q].snap, row) /\ SnapshotCounts(row, row)
        /\ SnapshotCounts(NoSnapshot, row)
    BY <1>1 DEF HInv, SnapshotCounts, NoSnapshot, RowRecord
  <2> QED  BY <1>1, <1>3, <1>4, <2>1, <2>2 DEF StillTold
<1> QED  BY <1>1, <1>3, <1>5 DEF HInv, StillTold

(* It holds in every reachable state.                                      *)
THEOREM HistoryInvariance == Spec => []HInv
BY HistoryInit, HistoryNext, PTL DEF Spec

(* However many calls interleave, time out and are retried, replaying the  *)
(* events gives back the row's status, attempt and failure counters.       *)
THEOREM RowRebuilds == Spec => []RowRebuildsFromLog
<1>1. HInv => RowRebuildsFromLog
  BY DEF HInv, NewestTells, CountersTell, SinceIn, RowRebuildsFromLog, CountSince,
         TakenOver
<1> QED  BY <1>1, HistoryInvariance, PTL

----------------------------------------------------------------------------
(* The artifacts the log names *)

(* Attempts only grow along the log, and once a stage has passed in the    *)
(* current attempt its newest artifacts are the ones of that attempt.      *)
RefsInLog(events, task) ==
    /\ \A i, j \in DOMAIN events : i <= j => events[i].attempt <= events[j].attempt
    /\ task.status = "qa_in_progress" => LatestRefs(events, "developer") = task.attempt
    /\ task.status = "review_in_progress" => LatestRefs(events, "qa") = task.attempt

(* A nonempty set of positions has a last one.                             *)
LEMMA LastPosition ==
    ASSUME NEW n \in Nat, NEW T \in SUBSET (1 .. n), T # {}
    PROVE  \E i \in T : \A j \in T : j <= i
<1> DEFINE D == {n - i : i \in T}
<1>1. D \subseteq Nat /\ D # {}
  <2>1. \A i \in T : n - i \in Nat
    OBVIOUS
  <2> QED  BY <2>1
<1>2. PICK d \in D : \A c \in D : ~(<<c, d>> \in OpToRel(<, Nat))
  BY <1>1, NatLessThanWellFounded, WFMin
<1>3. \A c \in D : ~(c < d)
  BY <1>1, <1>2 DEF OpToRel
<1>4. PICK i \in T : d = n - i
  OBVIOUS
<1>5. ASSUME NEW j \in T
      PROVE  j <= i
  <2>1. n - j \in D /\ i \in Nat /\ j \in Nat
    OBVIOUS
  <2>2. ~(n - j < n - i)
    BY <1>3, <1>4, <2>1
  <2> HIDE DEF D
  <2> QED  BY <2>1, <2>2
<1> QED  BY <1>5

(* The newest refs of a stage are those of its last event.                 *)
LEMMA LatestRefsOfEvent ==
    ASSUME NEW events \in Seq(EventRecord), NEW stage, NEW k \in DOMAIN events,
           events[k].stage = stage
    PROVE  \E i \in DOMAIN events :
              /\ k <= i /\ events[i].stage = stage
              /\ LatestRefs(events, stage) = events[i].workedOn
<1> DEFINE T == {i \in DOMAIN events : events[i].stage = stage}
           I == {i \in DOMAIN events :
                   /\ events[i].stage = stage
                   /\ \A j \in i + 1 .. Len(events) : events[j].stage # stage}
<1>1. Len(events) \in Nat /\ DOMAIN events = 1 .. Len(events)
  OBVIOUS
<1>2. PICK last \in T : \A j \in T : j <= last
  BY <1>1, LastPosition
<1>3. last \in I
  BY <1>1, <1>2
<1>4. \A i \in I : i = last
  BY <1>1, <1>2
<1>5. (CHOOSE i \in I : TRUE) = last
  BY <1>3, <1>4
<1>6. LatestRefs(events, stage) = events[last].workedOn
  BY <1>3, <1>5 DEF LatestRefs
<1> QED  BY <1>1, <1>2, <1>6

(* An event of another stage, or of none, leaves them.                     *)
LEMMA LatestRefsOther ==
    ASSUME NEW events \in Seq(EventRecord), NEW e \in EventRecord, NEW stage,
           e.stage # stage
    PROVE  LatestRefs(AppendEvent(events, e), stage) = LatestRefs(events, stage)
<1> DEFINE after == Append(events, e)
           old   == {i \in DOMAIN events :
                       /\ events[i].stage = stage
                       /\ \A j \in i + 1 .. Len(events) : events[j].stage # stage}
           new   == {i \in DOMAIN after :
                       /\ after[i].stage = stage
                       /\ \A j \in i + 1 .. Len(after) : after[j].stage # stage}
<1>1. /\ Len(after) = Len(events) + 1 /\ DOMAIN after = 1 .. Len(events) + 1
      /\ DOMAIN events = 1 .. Len(events) /\ Len(events) \in Nat
      /\ after[Len(events) + 1] = e
      /\ \A i \in 1 .. Len(events) : after[i] = events[i]
  OBVIOUS
<1> HIDE DEF after
<1>2. ASSUME NEW i \in DOMAIN events
      PROVE  (\A j \in i + 1 .. Len(after) : after[j].stage # stage)
               <=> (\A j \in i + 1 .. Len(events) : events[j].stage # stage)
  BY <1>1
<1>3. new = old
  BY <1>1, <1>2
<1>4. old \subseteq DOMAIN events
  OBVIOUS
<1>5. LatestRefs(after, stage)
        = IF new = {} THEN 0 ELSE after[CHOOSE i \in new : TRUE].workedOn
  BY Zenon DEF LatestRefs
<1>6. LatestRefs(events, stage)
        = IF old = {} THEN 0 ELSE events[CHOOSE i \in old : TRUE].workedOn
  BY Zenon DEF LatestRefs
<1> HIDE DEF old, new
<1>7. old # {} => (CHOOSE i \in old : TRUE) \in DOMAIN events
  BY <1>4
<1>8. LatestRefs(after, stage) = LatestRefs(events, stage)
  BY <1>1, <1>3, <1>5, <1>6, <1>7
<1> QED  BY <1>8 DEF AppendEvent, after

(* A new verdict's artifacts are the newest of its stage.                  *)
LEMMA LatestRefsNew ==
    ASSUME NEW events \in Seq(EventRecord), NEW e \in EventRecord,
           \A i \in DOMAIN events :
              ~(events[i].type = e.type /\ events[i].attempt = e.attempt)
    PROVE  LatestRefs(AppendEvent(events, e), e.stage) = e.workedOn
<1> DEFINE after == Append(events, e)
<1>1. /\ after \in Seq(EventRecord) /\ Len(events) + 1 \in DOMAIN after
      /\ DOMAIN after = 1 .. Len(events) + 1 /\ Len(events) \in Nat
      /\ after[Len(events) + 1] = e
  OBVIOUS
<1>2. AppendEvent(events, e) = after
  BY DEF AppendEvent
<1> HIDE DEF after
<1>3. PICK i \in DOMAIN after : /\ Len(events) + 1 <= i
                                /\ LatestRefs(after, e.stage) = after[i].workedOn
  BY <1>1, LatestRefsOfEvent
<1>4. i = Len(events) + 1
  BY <1>1, <1>3
<1> QED  BY <1>1, <1>2, <1>3, <1>4

(* Appending an event of the row's attempt or a later one keeps the        *)
(* attempts in order.                                                      *)
LEMMA AttemptsInOrder ==
    ASSUME NEW events \in Seq(EventRecord), NEW e \in EventRecord,
           \A i, j \in DOMAIN events : i <= j => events[i].attempt <= events[j].attempt,
           \A i \in DOMAIN events : events[i].attempt <= e.attempt
    PROVE  LET after == AppendEvent(events, e)
           IN  \A i, j \in DOMAIN after : i <= j => after[i].attempt <= after[j].attempt
<1> DEFINE after == Append(events, e)
<1>1. /\ DOMAIN after = 1 .. Len(events) + 1
      /\ DOMAIN events = 1 .. Len(events) /\ Len(events) \in Nat
      /\ after[Len(events) + 1] = e
      /\ \A i \in 1 .. Len(events) : after[i] = events[i]
  OBVIOUS
<1> HIDE DEF after
<1>2. e.attempt <= e.attempt
  BY DEF EventRecord
<1>3. \A i, j \in DOMAIN after : i <= j => after[i].attempt <= after[j].attempt
  BY <1>1, <1>2
<1> QED  BY <1>3 DEF AppendEvent, after

(* EnterDeveloperStage adds no artifacts.                                  *)
LEMMA EnterRefs ==
    ASSUME IInv, RefsInLog(log, row), NEW r \in Runs, EnterDeveloperStage(r),
           WriteAllowed(run[r].snap.status, run[r].snap.attempt)
    PROVE  /\ RefsInLog(log', row')
           /\ \A s \in Stages : LatestRefs(log', s) = LatestRefs(log, s)
           /\ row'.status = "dev_in_progress"
           /\ row.status \in {"in_progress", "dev_in_progress", "qa_failed", "review_failed"}
           /\ row.status = "dev_in_progress" => row'.attempt = row.attempt
<1> DEFINE snap    == run[r].snap
           attempt == DeveloperAttempt(snap)
           retry   == Event("retry_approved", attempt, row.status,
                            "dev_in_progress", 0, row.fp, {})
           retried == IF snap.status \in {"qa_failed", "review_failed"}
                      THEN AppendEvent(log, retry) ELSE log
           started == Event("developer_started", attempt, row.status,
                            "dev_in_progress", 0, NoFp, {})
<1>1. /\ row \in RowRecord /\ log \in Seq(EventRecord) /\ LogBehindRow(log, row)
      /\ run[r] \in RunState /\ snap \in RowRecord
      /\ snap.status \in {"in_progress", "dev_in_progress", "qa_failed",
                          "review_failed"}
  BY DEF IInv, TypeOK, RunInv, EnterDeveloperStage
<1>2. /\ row' = [row EXCEPT !.status = "dev_in_progress", !.attempt = attempt]
      /\ log' = AppendEvent(retried, started)
  BY DEF EnterDeveloperStage
<1>3. snap.status = row.status /\ snap.attempt = row.attempt
  BY <1>1 DEF WriteAllowed, RowRecord
<1>4. /\ attempt \in Nat \ {0} /\ row.attempt <= attempt
      /\ row.status = "dev_in_progress" => attempt = row.attempt
      /\ retried = log \/ retried = AppendEvent(log, retry)
  BY <1>1, <1>3 DEF DeveloperAttempt, RowRecord
<1> HIDE DEF attempt, retried
<1>5. retry \in EventRecord /\ started \in EventRecord
  BY <1>1, <1>4, EventType DEF EventTypes, RowRecord, Statuses, Active, NoFp
<1>6. /\ retry.attempt = attempt /\ started.attempt = attempt
      /\ retry.stage = "none" /\ started.stage = "none"
  BY DEF Event, StageOfEvent, StageEvents
<1> HIDE DEF retry, started
<1>7. row'.status = "dev_in_progress" /\ row'.attempt = attempt
  BY <1>1, <1>2 DEF RowRecord
<1>8. \A i \in DOMAIN log : log[i].attempt <= attempt
  <2>1. \A i \in DOMAIN log : log[i] \in EventRecord /\ log[i].attempt <= row.attempt
    BY <1>1 DEF LogBehindRow
  <2> QED  BY <1>1, <1>4, <2>1 DEF EventRecord, RowRecord
<1>9. /\ retried \in Seq(EventRecord)
      /\ \A i \in DOMAIN retried : retried[i].attempt <= attempt
      /\ \A i, j \in DOMAIN retried : i <= j => retried[i].attempt <= retried[j].attempt
  <2>1. CASE retried = log
    BY <1>1, <1>8, <2>1 DEF RefsInLog
  <2>2. CASE retried = AppendEvent(log, retry)
    <3>1. \A i, j \in DOMAIN retried : i <= j => retried[i].attempt <= retried[j].attempt
      BY <1>1, <1>5, <1>6, <1>8, <2>2, AttemptsInOrder DEF RefsInLog
    <3>2. attempt <= attempt
      BY <1>4
    <3> QED  BY <1>1, <1>5, <1>6, <1>8, <2>2, <3>1, <3>2, AppendEventCases
  <2> QED  BY <1>4, <2>1, <2>2
<1>10. \A i, j \in DOMAIN log' : i <= j => log'[i].attempt <= log'[j].attempt
  BY <1>2, <1>5, <1>6, <1>9, AttemptsInOrder
<1>11. \A s \in Stages : LatestRefs(log', s) = LatestRefs(log, s)
  <2>1. \A s \in Stages : s # "none"
    BY DEF Stages
  <2> QED  BY <1>1, <1>2, <1>4, <1>5, <1>6, <1>9, <2>1, LatestRefsOther
<1> QED  BY <1>1, <1>3, <1>4, <1>7, <1>10, <1>11 DEF RefsInLog

(* Nor do MarkReviewStarted and Escalate.                                  *)
LEMMA MarkRefs ==
    ASSUME IInv, RefsInLog(log, row), NEW r \in Runs, MarkReviewStarted(r),
           WriteAllowed(run[r].snap.status, run[r].snap.attempt)
    PROVE  /\ RefsInLog(log', row')
           /\ \A s \in Stages : LatestRefs(log', s) = LatestRefs(log, s)
<1> DEFINE e == Event("review_started", row.attempt, "review_in_progress",
                      "review_in_progress", 0, NoFp, {})
<1>1. /\ row \in RowRecord /\ log \in Seq(EventRecord) /\ LogBehindRow(log, row)
      /\ row' = row /\ log' = AppendEvent(log, e)
  BY DEF IInv, TypeOK, MarkReviewStarted
<1>2. e \in EventRecord
  BY <1>1, EventType DEF EventTypes, RowRecord, Statuses, Active, NoFp
<1>3. e.attempt = row.attempt /\ \A s \in Stages : e.stage # s
  BY DEF Event, StageOfEvent, StageEvents, Stages
<1> HIDE DEF e
<1>4. \A s \in Stages : LatestRefs(log', s) = LatestRefs(log, s)
  BY <1>1, <1>2, <1>3, LatestRefsOther
<1>5. \A i \in DOMAIN log : log[i].attempt <= e.attempt
  BY <1>1, <1>3 DEF LogBehindRow
<1>6. \A i, j \in DOMAIN log' : i <= j => log'[i].attempt <= log'[j].attempt
  BY <1>1, <1>2, <1>5, AttemptsInOrder DEF RefsInLog
<1> QED  BY <1>1, <1>4, <1>6 DEF RefsInLog, Stages

(* Escalate: the task is parked, which no refs are read of.                *)
LEMMA EscalateRefs ==
    ASSUME IInv, RefsInLog(log, row), NEW r \in Runs, Escalate(r),
           WriteAllowed(run[r].snap.status, run[r].snap.attempt)
    PROVE  RefsInLog(log', row') /\ row'.status = "escalated"
<1> DEFINE fp == EscalationFp(run[r])
           e  == Event("task_escalated", row.attempt, row.status, "escalated", 0, fp, {})
<1>1. /\ row \in RowRecord /\ log \in Seq(EventRecord) /\ LogBehindRow(log, row)
      /\ row' = [row EXCEPT !.status = "escalated", !.fp = fp, !.needsHuman = TRUE]
      /\ log' = AppendEvent(log, e)
      /\ run[r] \in RunState /\ run[r].snap \in RowRecord
  BY DEF IInv, TypeOK, Escalate, RunInv
<1>2. fp \in SUBSET Tokens
  BY <1>1 DEF EscalationFp, RunState, RowRecord, Tokens
<1> HIDE DEF fp
<1>3. e \in EventRecord
  BY <1>1, <1>2, EventType DEF EventTypes, RowRecord, Statuses, Parked
<1>4. e.attempt = row.attempt
  BY DEF Event
<1> HIDE DEF e
<1>5. \A i \in DOMAIN log : log[i].attempt <= e.attempt
  BY <1>1, <1>4 DEF LogBehindRow
<1>6. \A i, j \in DOMAIN log' : i <= j => log'[i].attempt <= log'[j].attempt
  BY <1>1, <1>3, <1>5, AttemptsInOrder DEF RefsInLog
<1>7. row'.status = "escalated"
  BY <1>1 DEF RowRecord
<1> QED  BY <1>6, <1>7 DEF RefsInLog

(* A verdict's artifacts are the newest of its stage, and no other's.      *)
LEMMA VerdictRefs ==
    ASSUME IInv, RefsInLog(log, row), NEW r \in Runs, NEW stage \in Stages, NEW v,
           v.event \in StageEvents(stage), v.fp \in SUBSET Tokens,
           v.findings \in SUBSET Finding,
           run[r].pc = stage,
           WriteAllowed(Lifecycle!Working(stage), run[r].snap.attempt),
           row' = RowAfter(run[r].snap, v), log' = LogAfter(run[r].snap, v)
    PROVE  /\ RefsInLog(log', row')
           /\ LatestRefs(log', stage) = row.attempt
           /\ \A s \in Stages \ {stage} : LatestRefs(log', s) = LatestRefs(log, s)
           /\ row'.attempt = row.attempt
<1> DEFINE snap     == run[r].snap
           e        == Event(v.event, row.attempt, row.status,
                             TargetStatus(v.event), snap.attempt, v.fp, v.findings)
           outcome  == AppendEvent(log, e)
           handover == Event("task_awaiting_human", row.attempt, row.status,
                             "awaiting_human", 0, v.fp, {})
<1>1. /\ row \in RowRecord /\ log \in Seq(EventRecord) /\ LogBehindRow(log, row)
  BY DEF IInv, TypeOK
<1>2. /\ row'.attempt = row.attempt
      /\ row.status = Lifecycle!Working(stage)
      /\ row'.status = TargetStatus(v.event)
      /\ e \in EventRecord /\ e.type = v.event
      /\ e.attempt = row.attempt /\ e.workedOn = row.attempt
      /\ e.stage = stage /\ StageOfEvent(e.type) = stage
  BY CommitFacts DEF RowAfter
<1>3. handover \in EventRecord
  BY <1>1, EventType DEF EventTypes, RowRecord, Statuses, Parked
<1>4. /\ handover.attempt = row.attempt /\ handover.stage = "none"
  BY DEF Event, StageOfEvent, StageEvents
<1>5. log' = outcome \/ log' = AppendEvent(outcome, handover)
  BY DEF LogAfter
<1> HIDE DEF e, handover
<1>6. \A i \in DOMAIN log : ~(log[i].type = e.type /\ log[i].attempt = e.attempt)
  <2>1. Lifecycle!Working(stage) \in Before(stage) /\ stage # "none"
    BY DEF Lifecycle!Working, Before, Stages
  <2> QED  BY <1>1, <1>2, <2>1 DEF LogBehindRow
<1>7. \A i \in DOMAIN log : log[i].attempt <= row.attempt
  BY <1>1 DEF LogBehindRow
<1>8. row.attempt <= row.attempt
  BY <1>1 DEF RowRecord
<1>9. /\ outcome \in Seq(EventRecord)
      /\ \A i \in DOMAIN outcome : outcome[i].attempt <= row.attempt
  BY <1>1, <1>2, <1>7, <1>8, AppendEventCases
<1>10. \A i, j \in DOMAIN outcome : i <= j => outcome[i].attempt <= outcome[j].attempt
  BY <1>1, <1>2, <1>7, AttemptsInOrder DEF RefsInLog
<1>11. LatestRefs(outcome, stage) = row.attempt
  BY <1>1, <1>2, <1>6, LatestRefsNew
<1>12. \A s \in Stages \ {stage} : LatestRefs(outcome, s) = LatestRefs(log, s)
  BY <1>1, <1>2, LatestRefsOther
<1> HIDE DEF outcome
<1>13. \A s \in Stages : LatestRefs(AppendEvent(outcome, handover), s) = LatestRefs(outcome, s)
  <2>1. \A s \in Stages : s # "none"
    BY DEF Stages
  <2> QED  BY <1>3, <1>4, <1>9, <2>1, LatestRefsOther
<1>14. \A i, j \in DOMAIN log' : i <= j => log'[i].attempt <= log'[j].attempt
  <2>1. CASE log' = outcome
    BY <1>10, <2>1
  <2>2. CASE log' = AppendEvent(outcome, handover)
    BY <1>3, <1>4, <1>9, <1>10, <2>2, AttemptsInOrder
  <2> QED  BY <1>5, <2>1, <2>2
<1>15. /\ LatestRefs(log', stage) = row.attempt
       /\ \A s \in Stages \ {stage} : LatestRefs(log', s) = LatestRefs(log, s)
  BY <1>5, <1>11, <1>12, <1>13
<1>16. /\ row'.status = "qa_in_progress" => stage = "developer"
       /\ row'.status = "review_in_progress" => stage = "qa"
  BY <1>2, EventTargets DEF Lifecycle!Outcomes, Stages
<1> QED  BY <1>2, <1>14, <1>15, <1>16 DEF RefsInLog

----------------------------------------------------------------------------
(* One caller at a time *)

OneCaller == \A q, r \in Runs : q = r

(* The refs a call carries are the log's; a retried stage has its own      *)
(* already, of the attempt it is to decide.                                *)
RefsFresh(refs, task, events) ==
    \A s \in Stages :
        \/ refs[s] = LatestRefs(events, s)
        \/ refs[s] = task.attempt /\ task.status \in {Lifecycle!Working(s)} \cup Parked

(* A developer starting over is given the refs of the failed verdict.      *)
FailedRefsGiven(refs, task, events) ==
    \A i \in DOMAIN events :
        /\ events[i].type \in {"qa_failed", "review_changes_requested"}
        /\ events[i].attempt = task.attempt - 1
        => refs[events[i].stage] = events[i].attempt

(* A call's snapshot is the row, unless a human has parked the task since. *)
CallInv(me, task, events) ==
    /\ me.pc = "idle" => \/ me.answer \in {"none", "error"}
                         \/ me.answer \in Parked /\ task.status = me.answer
    /\ me.pc # "idle" => me.answer = "none" /\ RefsFresh(me.refs, task, events)
    /\ me.pc \in {"enter", "mark", "escalate", "developer", "qa", "review"} =>
          /\ \/ me.snap = task
             \/ task.status \in Parked /\ me.snap.status \notin Parked
          /\ me.snap.attempt = task.attempt
    /\ me.pc \in {"developer", "qa", "review"} =>
          me.snap.status \in {Lifecycle!Working(me.pc)} \cup Parked
    /\ me.pc = "entered" => task.status \in {"dev_in_progress"} \cup Parked
    /\ me.pc = "marked" => task.status \in {"review_in_progress"} \cup Parked
    /\ me.pc = "qa" => me.refs["developer"] = task.attempt
    /\ me.pc \in {"mark", "marked", "review"} => me.refs["qa"] = task.attempt
    /\ me.pc \in {"entered", "developer"} => FailedRefsGiven(me.refs, task, events)

OneCallInv ==
    /\ IInv
    /\ RefsInLog(log, row)
    /\ \A r \in Runs : CallInv(run[r], row, log)

(* Returning the status of a parked row is in order.                       *)
LEMMA ReturnParked ==
    ASSUME NEW r \in Runs, run \in [Runs -> RunState], NEW answer, Return(r, answer),
           answer \in {"none", "error"} \/ (answer \in Parked /\ row'.status = answer)
    PROVE  CallInv(run'[r], row', log')
<1>1. run'[r] = Idle(answer)
  BY DEF Return
<1>2. Idle(answer).pc = "idle" /\ Idle(answer).answer = answer
  BY DEF Idle
<1>3. CallInv(Idle(answer), row', log')
  <2> DEFINE me == Idle(answer)
  <2>1. me.pc = "idle" /\ me.answer = answer
    BY <1>2
  <2> HIDE DEF me
  <2>2. CallInv(me, row', log')
    BY <2>1 DEF CallInv
  <2> QED  BY <2>2 DEF me
<1> QED  BY <1>1, <1>3

(* So is another iteration, or the return after a stage that parked.       *)
LEMMA NextIterationCall ==
    ASSUME NEW r \in Runs, run \in [Runs -> RunState], row \in RowRecord,
           NEW me \in RunState,
           NextIteration(r, me), UNCHANGED <<row, log>>,
           me.answer = "none", RefsFresh(me.refs, row, log),
           me.snap.status \in Parked => row.status = me.snap.status
    PROVE  CallInv(run'[r], row', log')
<1>1. CASE StopsAfter(me.last.stage, me.snap.status)
  <2>1. me.snap.status \in Parked
    BY <1>1 DEF StopsAfter, Parked
  <2> QED  BY <1>1, <2>1, ReturnParked DEF NextIteration
<1>2. CASE ~StopsAfter(me.last.stage, me.snap.status)
  <2> DEFINE spent == me.transitions + 1
             pc    == IF spent < MaxStageTransitions THEN "load" ELSE "budget"
             new   == [me EXCEPT !.transitions = spent, !.pc = pc]
  <2>1. run'[r] = new
    BY <1>2 DEF NextIteration
  <2>2. pc \in {"load", "budget"}
    OBVIOUS
  <2> HIDE DEF pc
  <2>3. new.pc = pc /\ new.answer = "none" /\ new.refs = me.refs
    BY DEF RunState
  <2> HIDE DEF new
  <2> QED  BY <2>1, <2>2, <2>3 DEF CallInv
<1> QED  BY <1>1, <1>2

(* A rejected write means that a human parked the task, or a stage found   *)
(* it parked.                                                              *)
LEMMA RejectedCall ==
    ASSUME NEW r \in Runs, run \in [Runs -> RunState], Rejected(r),
           row.status \in Parked
    PROVE  CallInv(run'[r], row', log')
BY ReturnParked DEF Rejected

(* In a state that a developer's attempt begins in, the refs of every      *)
(* failed verdict of the attempt before are the newest of their stage.     *)
LEMMA FailedRefsAreNewest ==
    ASSUME NEW task \in RowRecord, NEW events \in Seq(EventRecord),
           LogBehindRow(events, task), RefsInLog(events, task),
           task.status = "dev_in_progress",
           NEW refs, RefsFresh(refs, task, events)
    PROVE  FailedRefsGiven(refs, task, events)
<1> SUFFICES ASSUME NEW i \in DOMAIN events,
                    events[i].type \in {"qa_failed", "review_changes_requested"},
                    events[i].attempt = task.attempt - 1
             PROVE  refs[events[i].stage] = events[i].attempt
  BY DEF FailedRefsGiven
<1> DEFINE s == events[i].stage
<1>1. s \in {"qa", "review"}
  BY DEF LogBehindRow, StageOfEvent, StageEvents
<1>2. PICK k \in DOMAIN events : /\ i <= k /\ events[k].stage = s
                                 /\ LatestRefs(events, s) = events[k].workedOn
  BY LatestRefsOfEvent
<1>3. /\ events[k].workedOn = events[k].attempt
      /\ events[k].attempt <= task.attempt
      /\ events[k].attempt # task.attempt
  BY <1>1, <1>2 DEF LogBehindRow, Before
<1>4. events[i].attempt <= events[k].attempt
  BY <1>2 DEF RefsInLog
<1>5. events[k].attempt = task.attempt - 1
  <2>1. events[k] \in EventRecord /\ task.attempt \in Nat
    BY DEF RowRecord
  <2>2. events[k].attempt \in Nat
    BY <2>1 DEF EventRecord
  <2> QED  BY <1>3, <1>4, <2>1, <2>2
<1>6. refs[s] = LatestRefs(events, s)
  BY <1>1 DEF RefsFresh, Lifecycle!Working, Parked, Stages
<1> QED  BY <1>2, <1>3, <1>5, <1>6

(* What the invariant says of one caller.                                  *)
LEMMA OneCallFacts ==
    ASSUME OneCallInv, NEW r \in Runs
    PROVE  /\ row \in RowRecord /\ log \in Seq(EventRecord) /\ LogBehindRow(log, row)
           /\ RefsInLog(log, row) /\ run \in [Runs -> RunState]
           /\ run[r] \in RunState /\ RunInv(run[r]) /\ CallInv(run[r], row, log)
BY DEF OneCallInv, IInv, TypeOK

(* The steps that only move a call.                                        *)
LEMMA StartCall ==
    ASSUME OneCallInv, NEW r \in Runs, Start(r)
    PROVE  CallInv(run'[r], row', log') /\ RefsInLog(log', row')
<1> DEFINE refs == [stage \in Stages |-> LatestRefs(log, stage)]
           me   == [Idle("none") EXCEPT !.pc = "load", !.refs = refs]
<1>1. run'[r] = me /\ row' = row /\ log' = log
  BY OneCallFacts DEF Start
<1>2. RefsFresh(refs, row, log)
  BY DEF RefsFresh
<1> HIDE DEF refs
<1>3. me.pc = "load" /\ me.refs = refs /\ me.answer = "none"
  BY DEF Idle
<1> HIDE DEF me
<1> QED  BY <1>1, <1>2, <1>3, OneCallFacts DEF CallInv

(* Load.                                                                   *)
LEMMA LoadCall ==
    ASSUME OneCallInv, NEW r \in Runs, Load(r)
    PROVE  CallInv(run'[r], row', log') /\ RefsInLog(log', row')
<1>1. row' = row /\ log' = log /\ run[r].pc = "load"
  BY DEF Load
<1>2. CASE row.status \in Parked
  BY <1>1, <1>2, OneCallFacts, ReturnParked DEF Load
<1>3. CASE row.status \notin Parked
  <2> DEFINE pc == StageEntry(row.status)
             me == [run[r] EXCEPT !.snap = row, !.pc = pc]
  <2>1. run'[r] = me
    BY <1>3, OneCallFacts DEF Load, RunState
  <2>2. /\ pc \in {"enter", "qa", "mark"}
        /\ pc = "qa" => row.status = "qa_in_progress"
        /\ pc = "mark" => row.status = "review_in_progress"
    BY OneCallFacts DEF StageEntry, RowRecord, Statuses, Parked, Active
  <2> HIDE DEF pc
  <2>3. me.pc = pc /\ me.snap = row /\ me.answer = run[r].answer /\ me.refs = run[r].refs
    BY OneCallFacts DEF RunState
  <2> HIDE DEF me
  <2>4. run[r].answer = "none" /\ RefsFresh(run[r].refs, row, log)
    BY <1>1, OneCallFacts DEF CallInv
  <2>5. /\ pc = "qa" => run[r].refs["developer"] = row.attempt
        /\ pc = "mark" => run[r].refs["qa"] = row.attempt
    BY <2>2, <2>4, OneCallFacts DEF RefsFresh, RefsInLog, Stages
  <2>6. Lifecycle!Working("qa") = "qa_in_progress"
    BY DEF Lifecycle!Working
  <2>7. CallInv(me, row, log)
    BY <2>2, <2>3, <2>4, <2>5, <2>6 DEF CallInv
  <2> QED  BY <1>1, <2>1, <2>7, OneCallFacts
<1> QED  BY <1>2, <1>3

(* Reload.                                                                 *)
LEMMA ReloadCall ==
    ASSUME OneCallInv, NEW r \in Runs, Reload(r)
    PROVE  CallInv(run'[r], row', log') /\ RefsInLog(log', row')
<1> DEFINE pc == IF run[r].pc = "entered" THEN "developer" ELSE "review"
           me == [run[r] EXCEPT !.snap = row, !.pc = pc]
<1>1. row' = row /\ log' = log /\ run[r].pc \in {"entered", "marked"}
  BY DEF Reload
<1>2. run'[r] = me
  BY OneCallFacts DEF Reload, RunState
<1>3. me.pc = pc /\ me.snap = row /\ me.answer = run[r].answer /\ me.refs = run[r].refs
  BY OneCallFacts DEF RunState
<1> HIDE DEF me
<1>4. /\ Lifecycle!Working("developer") = "dev_in_progress"
      /\ Lifecycle!Working("review") = "review_in_progress"
  BY DEF Lifecycle!Working
<1>5. CallInv(run[r], row, log)
  BY OneCallFacts
<1>6. CallInv(me, row, log)
  <2>1. CASE run[r].pc = "entered"
    BY <1>3, <1>4, <1>5, <2>1 DEF CallInv
  <2>2. CASE run[r].pc = "marked"
    BY <1>3, <1>4, <1>5, <2>2 DEF CallInv
  <2> QED  BY <1>1, <2>1, <2>2
<1> QED  BY <1>1, <1>2, <1>6, OneCallFacts

(* Settle.                                                                 *)
LEMMA SettleCall ==
    ASSUME OneCallInv, NEW r \in Runs, Settle(r)
    PROVE  CallInv(run'[r], row', log') /\ RefsInLog(log', row')
<1> DEFINE me == [run[r] EXCEPT !.snap = row]
<1>1. NextIteration(r, me) /\ row' = row /\ log' = log /\ run[r].pc = "settle"
  BY DEF Settle
<1>2. /\ me \in RunState /\ me.snap = row
      /\ me.answer = run[r].answer /\ me.refs = run[r].refs
  BY OneCallFacts DEF RunState
<1> HIDE DEF me
<1>3. run[r].answer = "none" /\ RefsFresh(run[r].refs, row, log)
  BY <1>1, OneCallFacts DEF CallInv
<1> QED  BY <1>1, <1>2, <1>3, OneCallFacts, NextIterationCall

(* BudgetExceeded.                                                         *)
LEMMA BudgetCall ==
    ASSUME OneCallInv, NEW r \in Runs, BudgetExceeded(r)
    PROVE  CallInv(run'[r], row', log') /\ RefsInLog(log', row')
<1>1. row' = row /\ log' = log /\ run[r].pc = "budget"
  BY DEF BudgetExceeded
<1>2. CASE row.status \in Parked
  BY <1>1, <1>2, OneCallFacts, ReturnParked DEF BudgetExceeded
<1>3. CASE row.status \notin Parked
  <2> DEFINE me == [run[r] EXCEPT !.snap = row, !.pc = "escalate"]
  <2>1. run'[r] = me
    BY <1>3, OneCallFacts DEF BudgetExceeded, RunState
  <2>2. /\ me.pc = "escalate" /\ me.snap = row
        /\ me.answer = run[r].answer /\ me.refs = run[r].refs
    BY OneCallFacts DEF RunState
  <2> HIDE DEF me
  <2>3. run[r].answer = "none" /\ RefsFresh(run[r].refs, row, log)
    BY <1>1, OneCallFacts DEF CallInv
  <2>4. CallInv(me, row, log)
    BY <2>2, <2>3 DEF CallInv
  <2> QED  BY <1>1, <2>1, <2>4, OneCallFacts
<1> QED  BY <1>2, <1>3

(* EnterDeveloperStage: refused only when a human has parked the task.     *)
LEMMA EnterCall ==
    ASSUME OneCallInv, NEW r \in Runs, EnterDeveloperStage(r)
    PROVE  CallInv(run'[r], row', log') /\ RefsInLog(log', row')
<1>1. /\ IInv /\ IInv'
      /\ run[r].answer = "none" /\ RefsFresh(run[r].refs, row, log)
      /\ run[r].snap = row \/ row.status \in Parked
  <2>1. IInv'
    BY EnterDeveloperStageInv DEF OneCallInv
  <2> QED  BY <2>1, OneCallFacts DEF CallInv, EnterDeveloperStage, OneCallInv
<1>2. CASE ~WriteAllowed(run[r].snap.status, run[r].snap.attempt)
  <2>1. Rejected(r)
    BY <1>2 DEF EnterDeveloperStage
  <2>2. row.status \in Parked
    BY <1>1, <1>2 DEF WriteAllowed
  <2> QED  BY <2>1, <2>2, OneCallFacts, RejectedCall DEF Rejected
<1>3. CASE WriteAllowed(run[r].snap.status, run[r].snap.attempt)
  <2> DEFINE me == [run[r] EXCEPT !.pc = "entered"]
  <2>1. run'[r] = me
    BY <1>3, OneCallFacts DEF EnterDeveloperStage, RunState
  <2>2. me.pc = "entered" /\ me.answer = run[r].answer /\ me.refs = run[r].refs
    BY OneCallFacts DEF RunState
  <2> HIDE DEF me
  <2>3. /\ RefsInLog(log', row')
        /\ \A s \in Stages : LatestRefs(log', s) = LatestRefs(log, s)
        /\ row'.status = "dev_in_progress"
        /\ row.status \in {"in_progress", "dev_in_progress", "qa_failed", "review_failed"}
        /\ row.status = "dev_in_progress" => row'.attempt = row.attempt
    BY <1>1, <1>3, EnterRefs, OneCallFacts
  <2>4. RefsFresh(run[r].refs, row', log')
    <3> SUFFICES ASSUME NEW s \in Stages, run[r].refs[s] # LatestRefs(log, s)
                 PROVE  /\ run[r].refs[s] = row'.attempt
                        /\ row'.status = Lifecycle!Working(s)
      BY <2>3 DEF RefsFresh
    <3>1. run[r].refs[s] = row.attempt /\ row.status = Lifecycle!Working(s)
      BY <1>1, <2>3 DEF RefsFresh, Parked
    <3>2. row.status = "dev_in_progress"
      BY <2>3, <3>1 DEF Lifecycle!Working
    <3> QED  BY <2>3, <3>1, <3>2
  <2>5. /\ row' \in RowRecord /\ log' \in Seq(EventRecord) /\ LogBehindRow(log', row')
    BY <1>1 DEF IInv, TypeOK
  <2>6. FailedRefsGiven(run[r].refs, row', log')
    BY <2>3, <2>4, <2>5, FailedRefsAreNewest
  <2> QED  BY <1>1, <2>1, <2>2, <2>3, <2>4, <2>6 DEF CallInv
<1> QED  BY <1>2, <1>3

(* MarkReviewStarted.                                                      *)
LEMMA MarkCall ==
    ASSUME OneCallInv, NEW r \in Runs, MarkReviewStarted(r)
    PROVE  CallInv(run'[r], row', log') /\ RefsInLog(log', row')
<1>1. /\ run[r].pc = "mark" /\ IInv /\ run[r].snap.status = "review_in_progress"
      /\ run[r].answer = "none" /\ RefsFresh(run[r].refs, row, log)
      /\ run[r].snap = row \/ row.status \in Parked
      /\ run[r].refs["qa"] = row.attempt
  BY OneCallFacts DEF CallInv, MarkReviewStarted, OneCallInv, RunInv
<1>2. CASE ~WriteAllowed(run[r].snap.status, run[r].snap.attempt)
  <2>1. Rejected(r)
    BY <1>2 DEF MarkReviewStarted
  <2>2. row.status \in Parked
    BY <1>1, <1>2 DEF WriteAllowed
  <2> QED  BY <2>1, <2>2, OneCallFacts, RejectedCall DEF Rejected
<1>3. CASE WriteAllowed(run[r].snap.status, run[r].snap.attempt)
  <2> DEFINE me == [run[r] EXCEPT !.pc = "marked"]
  <2>1. run'[r] = me /\ row' = row
    BY <1>3, OneCallFacts DEF MarkReviewStarted, RunState
  <2>2. me.pc = "marked" /\ me.answer = run[r].answer /\ me.refs = run[r].refs
    BY OneCallFacts DEF RunState
  <2> HIDE DEF me
  <2>3. /\ RefsInLog(log', row')
        /\ \A s \in Stages : LatestRefs(log', s) = LatestRefs(log, s)
    BY <1>1, <1>3, MarkRefs, OneCallFacts
  <2>4. row.status = "review_in_progress"
    BY <1>1, <1>3 DEF WriteAllowed
  <2>5. RefsFresh(run[r].refs, row', log')
    BY <1>1, <2>1, <2>3 DEF RefsFresh
  <2> QED  BY <1>1, <2>1, <2>2, <2>3, <2>4, <2>5 DEF CallInv
<1> QED  BY <1>2, <1>3

(* Escalate.                                                               *)
LEMMA EscalateCall ==
    ASSUME OneCallInv, NEW r \in Runs, Escalate(r)
    PROVE  CallInv(run'[r], row', log') /\ RefsInLog(log', row')
<1>1. /\ IInv
      /\ run[r].snap = row \/ row.status \in Parked
  BY OneCallFacts DEF CallInv, Escalate, OneCallInv
<1>2. CASE ~WriteAllowed(run[r].snap.status, run[r].snap.attempt)
  <2>1. Rejected(r)
    BY <1>2 DEF Escalate
  <2>2. row.status \in Parked
    BY <1>1, <1>2 DEF WriteAllowed
  <2> QED  BY <2>1, <2>2, OneCallFacts, RejectedCall DEF Rejected
<1>3. CASE WriteAllowed(run[r].snap.status, run[r].snap.attempt)
  <2>1. RefsInLog(log', row') /\ row'.status = "escalated"
    BY <1>1, <1>3, EscalateRefs, OneCallFacts
  <2>2. Return(r, "escalated")
    BY <1>3 DEF Escalate
  <2> QED  BY <2>1, <2>2, OneCallFacts, ReturnParked DEF Parked
<1> QED  BY <1>2, <1>3

(* A stage's result: retried, committed, or refused for a parked task.     *)
LEMMA StageCall ==
    ASSUME OneCallInv, NEW r \in Runs, NEW stage \in Stages, NEW v,
           v.event \in StageEvents(stage) \cup {"retry"}, v.fp \in SUBSET Tokens,
           v.findings \in SUBSET Finding,
           run[r].pc = stage,
           StageOutcome(r, stage, Lifecycle!Working(stage), v)
    PROVE  CallInv(run'[r], row', log') /\ RefsInLog(log', row')
<1> DEFINE snap     == run[r].snap
           source   == Lifecycle!Working(stage)
           remember == Remember(r, stage, v)
<1>1. /\ IInv /\ run[r].answer = "none" /\ RefsFresh(run[r].refs, row, log)
      /\ snap.attempt = row.attempt /\ snap.status \in {source} \cup Parked
  BY OneCallFacts DEF CallInv, OneCallInv, Stages
<1>2. \/ snap = row
      \/ row.status \in Parked /\ snap.status \notin Parked
  BY OneCallFacts DEF CallInv, Stages
<1>3. /\ remember.snap = snap /\ remember.answer = run[r].answer
      /\ remember.refs = [run[r].refs EXCEPT ![stage] = row.attempt]
  BY <1>1, OneCallFacts DEF Remember, RunState
<1>4. run[r].refs \in [Stages -> Nat] /\ row.attempt \in Nat
  BY OneCallFacts DEF RunState, RowRecord
<1>5. \A s \in Stages : remember.refs[s] = IF s = stage THEN row.attempt ELSE run[r].refs[s]
  BY <1>3, <1>4
<1>6. CASE v.event = "retry"
  <2>1. NextIteration(r, remember) /\ row' = row /\ log' = log
    BY <1>6 DEF StageOutcome
  <2>2. remember \in RunState
    <3>1. snap.attempt \in Nat /\ run[r] \in RunState
      BY <1>1, <1>4, OneCallFacts
    <3> QED  BY <3>1 DEF Remember, RunState, Stages
  <2> HIDE DEF remember
  <2>3. row.status \in {source} \cup Parked
    BY <1>1, <1>2
  <2>4. RefsFresh(remember.refs, row, log)
    BY <1>1, <1>5, <2>3 DEF RefsFresh
  <2>5. remember.snap.status \in Parked => row.status = remember.snap.status
    BY <1>2, <1>3
  <2> QED  BY <1>1, <1>3, <2>1, <2>2, <2>4, <2>5, OneCallFacts, NextIterationCall
<1>7. CASE v.event # "retry" /\ WriteAllowed(source, snap.attempt)
  <2> DEFINE me == [remember EXCEPT !.pc = "settle"]
  <2>1. /\ run'[r] = me /\ row' = RowAfter(snap, v) /\ log' = LogAfter(snap, v)
    BY <1>7, OneCallFacts DEF StageOutcome
  <2>2. me.pc = "settle" /\ me.answer = "none" /\ me.refs = remember.refs
    BY <1>1, OneCallFacts DEF Remember, RunState
  <2> HIDE DEF remember, me
  <2>3. /\ RefsInLog(log', row')
        /\ LatestRefs(log', stage) = row.attempt
        /\ \A s \in Stages \ {stage} : LatestRefs(log', s) = LatestRefs(log, s)
    BY <1>1, <1>7, <2>1, VerdictRefs, OneCallFacts
  <2>4. row.status = source
    BY <1>7 DEF WriteAllowed
  <2>5. \A s \in Stages \ {stage} : row.status \notin {Lifecycle!Working(s)} \cup Parked
    BY <2>4 DEF Lifecycle!Working, Stages, Parked
  <2>6. RefsFresh(me.refs, row', log')
    BY <1>1, <1>5, <2>2, <2>3, <2>5 DEF RefsFresh
  <2> QED  BY <2>1, <2>2, <2>3, <2>6 DEF CallInv
<1>8. CASE v.event # "retry" /\ ~WriteAllowed(source, snap.attempt)
  <2>1. Rejected(r)
    BY <1>8 DEF StageOutcome
  <2>2. row.status \in Parked
    BY <1>1, <1>2, <1>8 DEF WriteAllowed
  <2> QED  BY <2>1, <2>2, OneCallFacts, RejectedCall DEF Rejected
<1> QED  BY <1>6, <1>7, <1>8

(* Abort.                                                                  *)
LEMMA AbortCall ==
    ASSUME OneCallInv, NEW r \in Runs, Abort(r)
    PROVE  CallInv(run'[r], row', log') /\ RefsInLog(log', row')
BY OneCallFacts, ReturnParked DEF Abort

(* A human takes over: what the call holds is the row before.              *)
LEMMA TakeoverCall ==
    ASSUME OneCallInv, HumanTakeover
    PROVE  /\ \A r \in Runs : CallInv(run'[r], row', log')
           /\ RefsInLog(log', row')
<1>1. /\ row \in RowRecord /\ RefsInLog(log, row) /\ run' = run /\ log' = log
      /\ row.status \notin Parked
  BY DEF OneCallInv, IInv, TypeOK, HumanTakeover
<1>2. /\ row'.status = "awaiting_human" /\ row'.attempt = row.attempt
      /\ row'.status \in Parked
  BY <1>1 DEF HumanTakeover, RowRecord, Parked
<1>3. ASSUME NEW r \in Runs
      PROVE  CallInv(run[r], row', log)
  <2>1. CallInv(run[r], row, log)
    BY OneCallFacts
  <2>2. RefsFresh(run[r].refs, row, log) => RefsFresh(run[r].refs, row', log)
    BY <1>2 DEF RefsFresh
  <2>3. FailedRefsGiven(run[r].refs, row, log) => FailedRefsGiven(run[r].refs, row', log)
    BY <1>2 DEF FailedRefsGiven
  <2> QED  BY <1>1, <1>2, <2>1, <2>2, <2>3 DEF CallInv
<1> QED  BY <1>1, <1>2, <1>3 DEF RefsInLog

(* The invariant of one caller.                                            *)
LEMMA OneCallInit == Init => OneCallInv
<1> SUFFICES ASSUME Init PROVE OneCallInv
  OBVIOUS
<1>1. IInv
  BY InitInv
<1>2. DOMAIN log = {1} /\ row.status = "in_progress" /\ \A r \in Runs : run[r] = Idle("none")
  BY DEF Init
<1>3. RefsInLog(log, row)
  <2>1. log[1] \in EventRecord
    <3>1. log \in Seq(EventRecord) /\ 1 \in DOMAIN log
      BY <1>1, <1>2 DEF IInv, TypeOK
    <3> QED  BY <3>1
  <2>2. log[1].attempt <= log[1].attempt
    BY <2>1 DEF EventRecord
  <2> QED  BY <1>2, <2>2 DEF RefsInLog
<1>4. Idle("none").pc = "idle" /\ Idle("none").answer = "none"
  BY DEF Idle
<1>5. \A me : me.pc = "idle" /\ me.answer = "none" => CallInv(me, row, log)
  BY DEF CallInv
<1> QED  BY <1>1, <1>2, <1>3, <1>4, <1>5 DEF OneCallInv

(* Every step of the one caller keeps it.                                  *)
LEMMA OneCallNext ==
    ASSUME OneCaller, OneCallInv, [Next]_vars
    PROVE  OneCallInv'
<1>1. IInv'
  BY NextInv DEF OneCallInv
<1>2. ASSUME NEW r \in Runs, Start(r) \/ Step(r) \/ Abort(r)
      PROVE  OneCallInv'
  <2>1. ASSUME DeveloperStage(r) \/ QAStage(r) \/ ReviewStage(r)
        PROVE  CallInv(run'[r], row', log') /\ RefsInLog(log', row')
    BY <2>1, StageCases, VerdictType, StageCall
  <2>2. CallInv(run'[r], row', log') /\ RefsInLog(log', row')
    BY <1>2, <2>1, StartCall, LoadCall, EnterCall, MarkCall, ReloadCall, SettleCall,
       BudgetCall, EscalateCall, AbortCall DEF Step
  <2>3. \A q \in Runs : q = r
    BY DEF OneCaller
  <2> QED  BY <1>1, <2>2, <2>3 DEF OneCallInv
<1>3. CASE HumanTakeover
  BY <1>1, <1>3, TakeoverCall DEF OneCallInv
<1>4. CASE UNCHANGED vars
  BY <1>1, <1>4 DEF OneCallInv, vars
<1> QED  BY <1>2, <1>3, <1>4 DEF Next

(* It holds in every state of a behaviour with one caller.                 *)
THEOREM OneCallInvariance ==
    ASSUME OneCaller
    PROVE  Spec => []OneCallInv
<1>1. OneCallInv /\ [Next]_vars => OneCallInv'
  BY OneCallNext
<1> QED  BY <1>1, OneCallInit, PTL DEF Spec

(* A call of RunTask that does not fail leaves the task parked, in the     *)
(* status it answers with.                                                 *)
THEOREM AnswersPark ==
    ASSUME OneCaller
    PROVE  Spec => []AnsweredCallsPark
<1>1. OneCallInv => AnsweredCallsPark
  BY DEF OneCallInv, CallInv, AnsweredCallsPark
<1> QED  BY <1>1, OneCallInvariance, PTL

(* The artifacts every agent is handed belong to the work it judges or     *)
(* has to redo, also after crashes and retries.                            *)
THEOREM AgentsAreUpToDate ==
    ASSUME OneCaller
    PROVE  Spec => []AgentsSeeCurrentWork
<1>1. OneCallInv => AgentsSeeCurrentWork
  BY DEF OneCallInv, CallInv, FailedRefsGiven, AgentsSeeCurrentWork
<1> QED  BY <1>1, OneCallInvariance, PTL
=============================================================================
