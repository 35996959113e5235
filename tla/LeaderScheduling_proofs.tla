---------------------- MODULE LeaderScheduling_proofs ----------------------
(***************************************************************************)
(* Theorems about LeaderScheduling for any callers, sprints, tasks and     *)
(* dependencies: type correctness, that starts take no sprint back, that a *)
(* start is recorded once and in order and, while no sync adds to the      *)
(* projection, that tasks start in order and one at a time.                *)
(***************************************************************************)
EXTENDS LeaderScheduling, TLAPS

(* A call beyond its start names a sprint, and a task once it has one.     *)
Chosen == {"lock", "prepare", "prepared", "relock", "start"}

NamesItsWork(me) ==
    /\ me.pc # "idle" => me.sprint \in Sprints
    /\ me.pc \in Chosen => me.task \in Tasks

TInv ==
    /\ TypeOK
    /\ \A l \in Leaders : NamesItsWork(call[l])

(* Rows without a task behind them are rows.                               *)
LEMMA EmptyRows ==
    /\ \A status \in {"absent", "todo", "done"} : Projected(status) \in TaskRow
    /\ Absent \in TaskRow
    /\ NoTaskRows \in [Tasks -> TaskRow]
    /\ NoSprintRow \in SprintRow
    /\ Idle \in CallRecord
<1>1. \A status \in {"absent", "todo", "done"} : Projected(status) \in TaskRow
  BY DEF Projected, TaskRow
<1>2. Absent \in TaskRow
  BY <1>1 DEF Absent
<1>3. NoTaskRows \in [Tasks -> TaskRow]
  BY <1>2 DEF NoTaskRows
<1>4. NoSprintRow \in SprintRow
  BY DEF NoSprintRow, SprintRow
<1>5. Idle \in CallRecord
  BY <1>3, <1>4 DEF Idle, CallRecord, Steps
<1> QED  BY <1>1, <1>2, <1>3, <1>4, <1>5

(* AppendEvent keeps the log a sequence of events.                         *)
LEMMA AppendEventType ==
    ASSUME NEW events \in Seq(EventRecord), NEW e \in EventRecord
    PROVE  AppendEvent(events, e) \in Seq(EventRecord)
BY DEF AppendEvent

(* The writes of a start are well typed.                                   *)
LEMMA StartWritesType ==
    ASSUME TypeOK, NEW s \in Sprints, NEW t \in Tasks, StartWrites(s, t)
    PROVE  /\ tasks' \in [Tasks -> TaskRow]
           /\ sprints' \in [Sprints -> SprintRow]
           /\ log' \in Seq(EventRecord)
<1> DEFINE attempt == StartupAttempt(tasks[t])
<1>1. tasks[t] \in TaskRow /\ sprints[s] \in SprintRow
  BY DEF TypeOK
<1>2. attempt \in Nat
  BY <1>1 DEF StartupAttempt, TaskRow
<1>3. \A type \in {"task_selected", "sprint_initialized", "task_started"} :
        Event(type, s, t, attempt) \in EventRecord
  BY <1>2 DEF Event, EventRecord
<1>4. log' \in Seq(EventRecord)
  <2> DEFINE selected == AppendEvent(log, Event("task_selected", s, t, attempt))
             initialized == IF sprints[s].status = "todo"
                            THEN AppendEvent(selected,
                                     Event("sprint_initialized", s, t, attempt))
                            ELSE selected
  <2>1. log \in Seq(EventRecord)
    BY DEF TypeOK
  <2>2. selected \in Seq(EventRecord)
    BY <2>1, <1>3, AppendEventType
  <2>3. initialized \in Seq(EventRecord)
    BY <2>2, <1>3, AppendEventType
  <2>4. AppendEvent(initialized, Event("task_started", s, t, attempt)) \in Seq(EventRecord)
    BY <2>3, <1>3, AppendEventType
  <2>5. log' = AppendEvent(initialized, Event("task_started", s, t, attempt))
    BY DEF StartWrites
  <2> QED  BY <2>4, <2>5
<1>5. tasks' \in [Tasks -> TaskRow]
  <2>1. tasks' = [tasks EXCEPT ![t].status = "in_progress", ![t].attempt = attempt]
    BY DEF StartWrites
  <2> HIDE DEF attempt
  <2> QED  BY <1>2, <2>1 DEF TypeOK, TaskRow
<1>6. sprints' \in [Sprints -> SprintRow]
  <2>1. sprints' = [sprints EXCEPT ![s].status = StartedSprintStatus(@)]
    BY DEF StartWrites
  <2>2. StartedSprintStatus(sprints[s].status) \in Open \cup {"canceled"}
    BY <1>1 DEF StartedSprintStatus, SprintRow, Open
  <2> QED  BY <2>1, <2>2 DEF TypeOK, SprintRow
<1> QED  BY <1>4, <1>5, <1>6

(* The steps of one call keep the invariant.                               *)
LEMMA CallStepTypes ==
    ASSUME TInv, NEW l \in Leaders,
           PickSprint(l) \/ Locking(l) \/ Working(l) \/ StartPrepared(l)
    PROVE  TInv'
<1> DEFINE me == call[l]
<1>1. me \in CallRecord /\ NamesItsWork(me)
  BY DEF TInv, TypeOK
<1>2. ASSUME NEW new \in CallRecord, NamesItsWork(new), call' = [call EXCEPT ![l] = new]
      PROVE  /\ call' \in [Leaders -> CallRecord]
             /\ \A k \in Leaders : NamesItsWork(call'[k])
  BY <1>2 DEF TInv, TypeOK
<1>3. ASSUME NEW pc \in Steps, pc \in Chosen => me.pc \in Chosen, me.pc # "idle", Move(l, pc)
      PROVE  /\ call' \in [Leaders -> CallRecord]
             /\ \A k \in Leaders : NamesItsWork(call'[k])
  <2> DEFINE new == [me EXCEPT !.pc = pc]
  <2>1. new \in CallRecord /\ NamesItsWork(new)
    BY <1>1, <1>3 DEF CallRecord, NamesItsWork
  <2>2. call' = [call EXCEPT ![l] = new]
    BY <1>3 DEF Move
  <2> QED  BY <1>2, <2>1, <2>2
<1>4. ASSUME Return(l)
      PROVE  /\ call' \in [Leaders -> CallRecord]
             /\ \A k \in Leaders : NamesItsWork(call'[k])
  <2>1. NamesItsWork(Idle)
    BY DEF NamesItsWork, Idle, Chosen
  <2> QED  BY <1>2, <1>4, <2>1, EmptyRows DEF Return
<1>5. ASSUME Unlocks(l)
      PROVE  lock' \in [Tasks -> Leaders \cup {Nobody}]
  BY <1>5 DEF Unlocks, TInv, TypeOK
<1>6. ASSUME Locks(l)
      PROVE  lock' \in [Tasks -> Leaders \cup {Nobody}]
  BY <1>6 DEF Locks, TInv, TypeOK
<1>7. ASSUME UNCHANGED <<database, labels, crashes>>,
             lock' \in [Tasks -> Leaders \cup {Nobody}],
             call' \in [Leaders -> CallRecord],
             \A k \in Leaders : NamesItsWork(call'[k])
      PROVE  TInv'
  BY <1>7 DEF TInv, TypeOK, database
<1>8. ASSUME UNCHANGED lock
      PROVE  lock' \in [Tasks -> Leaders \cup {Nobody}]
  BY <1>8 DEF TInv, TypeOK
<1>9. CASE PickSprint(l)
  <2>1. PICK s \in Sprints, split \in BOOLEAN :
          call' = [call EXCEPT ![l] =
              [Idle EXCEPT !.pc = "sprint", !.split = split, !.sprint = s]]
    BY <1>9 DEF PickSprint
  <2> DEFINE new == [Idle EXCEPT !.pc = "sprint", !.split = split, !.sprint = s]
  <2>2. new \in CallRecord
    BY EmptyRows DEF CallRecord, Steps
  <2>3. new.pc = "sprint" /\ new.sprint = s
    BY DEF Idle
  <2>4. NamesItsWork(new)
    BY <2>3 DEF NamesItsWork, Chosen
  <2> QED  BY <1>2, <1>7, <1>8, <1>9, <2>1, <2>2, <2>4 DEF PickSprint
<1>10. CASE ReadSprint(l)
  <2> DEFINE new == [me EXCEPT !.pc = "tasks", !.sprintRow = sprints[me.sprint]]
  <2>1. me.pc = "sprint" /\ me.sprint \in Sprints
    BY <1>1, <1>10 DEF ReadSprint, NamesItsWork
  <2>2. sprints[me.sprint] \in SprintRow
    BY <2>1 DEF TInv, TypeOK
  <2>3. new \in CallRecord /\ NamesItsWork(new)
    BY <1>1, <2>1, <2>2 DEF CallRecord, NamesItsWork, Steps, Chosen
  <2>4. call' = [call EXCEPT ![l] = new]
    BY <1>10 DEF ReadSprint
  <2> QED  BY <1>2, <1>7, <1>8, <1>10, <2>3, <2>4 DEF ReadSprint
<1>11. CASE ReadTasks(l)
  <2> DEFINE new == [me EXCEPT !.pc = "deps", !.taskRows = RowsOf(me.sprint)]
  <2>1. me.pc = "tasks" /\ me.sprint \in Sprints
    BY <1>1, <1>11 DEF ReadTasks, NamesItsWork
  <2>2. RowsOf(me.sprint) \in [Tasks -> TaskRow]
    BY EmptyRows DEF RowsOf, TInv, TypeOK
  <2>3. new \in CallRecord /\ NamesItsWork(new)
    BY <1>1, <2>1, <2>2 DEF CallRecord, NamesItsWork, Steps, Chosen
  <2>4. call' = [call EXCEPT ![l] = new]
    BY <1>11 DEF ReadTasks
  <2> QED  BY <1>2, <1>7, <1>8, <1>11, <2>3, <2>4 DEF ReadTasks
<1>12. CASE SelectTask(l)
  <2>1. CASE Return(l)
    BY <1>4, <1>7, <1>8, <1>12, <2>1 DEF SelectTask
  <2>2. CASE ~Return(l)
    <3>1. PICK t \in Tasks : call' = [call EXCEPT ![l] =
              [Idle EXCEPT !.pc = "lock", !.split = me.split, !.sprint = me.sprint,
                           !.task = t]]
      BY <1>12, <2>2 DEF SelectTask
    <3> DEFINE new == [Idle EXCEPT !.pc = "lock", !.split = me.split,
                                   !.sprint = me.sprint, !.task = t]
    <3>2. me.sprint \in Sprints /\ me.split \in BOOLEAN
      BY <1>1, <1>12 DEF SelectTask, NamesItsWork, CallRecord
    <3>3. new \in CallRecord
      BY <3>2, EmptyRows DEF CallRecord, Steps
    <3>4. new.sprint = me.sprint /\ new.task = t
      BY DEF Idle
    <3>5. NamesItsWork(new)
      BY <3>2, <3>4 DEF NamesItsWork
    <3> QED  BY <1>2, <1>7, <1>8, <1>12, <3>1, <3>3, <3>5 DEF SelectTask
  <2> QED  BY <2>1, <2>2
<1>13. CASE LockForPrepare(l)
  BY <1>3, <1>6, <1>7, <1>13 DEF LockForPrepare, Steps, Chosen
<1>14. CASE LockForStart(l)
  BY <1>3, <1>6, <1>7, <1>14 DEF LockForStart, Steps, Chosen
<1>15. CASE Prepare(l)
  <2>1. CASE Move(l, "start") /\ UNCHANGED lock
    BY <1>3, <1>7, <1>8, <1>15, <2>1 DEF Prepare, Steps, Chosen
  <2>2. CASE Move(l, "prepared") /\ Unlocks(l)
    BY <1>3, <1>5, <1>7, <1>15, <2>2 DEF Prepare, Steps, Chosen
  <2> QED  BY <1>15, <2>1, <2>2 DEF Prepare
<1>16. CASE StartPrepared(l)
  BY <1>3, <1>7, <1>8, <1>16 DEF StartPrepared, Steps, Chosen
<1>17. CASE Fail(l)
  BY <1>4, <1>5, <1>7, <1>17 DEF Fail
<1>18. CASE StartTask(l)
  <2>1. me.sprint \in Sprints /\ me.task \in Tasks
    BY <1>1, <1>18 DEF StartTask, NamesItsWork, Chosen
  <2>2. /\ tasks' \in [Tasks -> TaskRow]
        /\ sprints' \in [Sprints -> SprintRow]
        /\ log' \in Seq(EventRecord)
    <3>1. CASE StartWrites(me.sprint, me.task)
      BY <2>1, <3>1, StartWritesType DEF TInv
    <3>2. CASE UNCHANGED <<tasks, sprints, log>>
      BY <3>2 DEF TInv, TypeOK
    <3> QED  BY <1>18, <3>1, <3>2 DEF StartTask
  <2>3. UNCHANGED <<deps, labels, crashes>> /\ Return(l) /\ Unlocks(l)
    BY <1>18 DEF StartTask
  <2> QED  BY <1>4, <1>5, <2>2, <2>3 DEF TInv, TypeOK
<1> QED  BY <1>9, <1>10, <1>11, <1>12, <1>13, <1>14, <1>15, <1>16, <1>17, <1>18
         DEF Locking, Working
(* The steps of the rest of the system keep it as well.                    *)
LEMMA OtherStepTypes ==
    ASSUME TInv,
           \/ Crash \/ LabelNeedsHuman \/ Arrive
           \/ \E t \in Tasks : TaskProgresses(t)
           \/ \E s \in Sprints : SprintProgresses(s)
    PROVE  TInv'
<1>1. CASE Crash
  <2>1. NamesItsWork(Idle)
    BY DEF NamesItsWork, Idle, Chosen
  <2>2. /\ lock' \in [Tasks -> Leaders \cup {Nobody}]
        /\ call' \in [Leaders -> CallRecord]
        /\ \A l \in Leaders : NamesItsWork(call'[l])
    BY <1>1, <2>1, EmptyRows DEF Crash
  <2>3. crashes' \in 0 .. MaxCrashes
    BY <1>1, ConstantsAssumption DEF Crash, TInv, TypeOK
  <2> QED  BY <1>1, <2>2, <2>3 DEF Crash, TInv, TypeOK, database
<1>2. CASE LabelNeedsHuman
  <2>1. labels' \in 0 .. MaxLabels
    BY <1>2, ConstantsAssumption DEF LabelNeedsHuman, TInv, TypeOK
  <2>2. tasks' \in [Tasks -> TaskRow] /\ sprints' \in [Sprints -> SprintRow]
    <3>1. ASSUME UNCHANGED sprints,
                 \E t \in Tasks : tasks' = [tasks EXCEPT ![t].needsHuman = TRUE]
          PROVE  tasks' \in [Tasks -> TaskRow] /\ sprints' \in [Sprints -> SprintRow]
      <4>1. PICK t \in Tasks : tasks' = [tasks EXCEPT ![t].needsHuman = TRUE]
        BY <3>1
      <4>2. [tasks[t] EXCEPT !.needsHuman = TRUE] \in TaskRow
        BY DEF TInv, TypeOK, TaskRow
      <4> QED  BY <3>1, <4>1, <4>2 DEF TInv, TypeOK
    <3>2. ASSUME UNCHANGED tasks,
                 \E s \in Sprints : sprints' = [sprints EXCEPT ![s].needsHuman = TRUE]
          PROVE  tasks' \in [Tasks -> TaskRow] /\ sprints' \in [Sprints -> SprintRow]
      <4>1. PICK s \in Sprints : sprints' = [sprints EXCEPT ![s].needsHuman = TRUE]
        BY <3>2
      <4>2. [sprints[s] EXCEPT !.needsHuman = TRUE] \in SprintRow
        BY DEF TInv, TypeOK, SprintRow
      <4> QED  BY <3>2, <4>1, <4>2 DEF TInv, TypeOK
    <3> QED  BY <1>2, <3>1, <3>2 DEF LabelNeedsHuman
  <2> QED  BY <1>2, <2>1, <2>2 DEF LabelNeedsHuman, TInv, TypeOK
<1>3. CASE Arrive
  <2>1. PICK rows \in [Tasks -> {Absent, Projected("todo"), Projected("done")}],
             new \in SUBSET (Dependencies \ deps) :
          /\ tasks' = [t \in Tasks |->
                IF tasks[t].status = "absent" THEN rows[t] ELSE tasks[t]]
          /\ deps' = deps \cup new
    BY <1>3 DEF Arrive
  <2>2. \A t \in Tasks : rows[t] \in TaskRow
    BY EmptyRows
  <2>3. tasks' \in [Tasks -> TaskRow]
    BY <2>1, <2>2 DEF TInv, TypeOK
  <2>4. deps' \subseteq Dependencies
    BY <2>1 DEF TInv, TypeOK
  <2> QED  BY <1>3, <2>3, <2>4 DEF Arrive, TInv, TypeOK
<1>4. CASE \E t \in Tasks : TaskProgresses(t)
  <2>1. tasks' \in [Tasks -> TaskRow]
    <3>1. PICK t \in Tasks, status \in {"dev_in_progress", "done", "blocked"} :
            tasks' = [tasks EXCEPT ![t].status = status]
      BY <1>4 DEF TaskProgresses
    <3>2. [tasks[t] EXCEPT !.status = status] \in TaskRow
      BY DEF TInv, TypeOK, TaskRow
    <3> QED  BY <3>1, <3>2 DEF TInv, TypeOK
  <2> QED  BY <1>4, <2>1 DEF TaskProgresses, TInv, TypeOK
<1>5. CASE \E s \in Sprints : SprintProgresses(s)
  <2>1. sprints' \in [Sprints -> SprintRow]
    <3>1. PICK s \in Sprints, status \in {"partially_done", "canceled"} :
            sprints' = [sprints EXCEPT ![s].status = status]
      BY <1>5 DEF SprintProgresses
    <3>2. [sprints[s] EXCEPT !.status = status] \in SprintRow
      BY DEF TInv, TypeOK, SprintRow, Open
    <3> QED  BY <3>1, <3>2 DEF TInv, TypeOK
  <2> QED  BY <1>5, <2>1 DEF SprintProgresses, TInv, TypeOK
<1> QED  BY <1>1, <1>2, <1>3, <1>4, <1>5

(* The invariant holds initially.                                          *)
LEMMA TypeInit == Init => TInv
<1> SUFFICES ASSUME Init PROVE TInv
  OBVIOUS
<1>1. /\ tasks \in [Tasks -> TaskRow]
      /\ call \in [Leaders -> CallRecord]
  BY EmptyRows DEF Init
<1>2. sprints \in [Sprints -> SprintRow]
  BY DEF Init, SprintRow, Open
<1>3. log \in Seq(EventRecord) /\ lock \in [Tasks -> Leaders \cup {Nobody}]
  BY DEF Init
<1>4. labels \in 0 .. MaxLabels /\ crashes \in 0 .. MaxCrashes
  BY ConstantsAssumption DEF Init
<1>5. deps \subseteq Dependencies
  BY DEF Init
<1>6. \A l \in Leaders : NamesItsWork(call[l])
  BY DEF Init, NamesItsWork, Idle, Chosen
<1> QED  BY <1>1, <1>2, <1>3, <1>4, <1>5, <1>6 DEF TInv, TypeOK

(* Rows, events, locks and calls keep their types, and a call always names *)
(* a task and a sprint that exist when it prepares or starts one.          *)
THEOREM TypeInvariance == Spec => []TInv
<1>1. TInv /\ [Next]_vars => TInv'
  <2> SUFFICES ASSUME TInv, [Next]_vars PROVE TInv'
    OBVIOUS
  <2>1. CASE UNCHANGED vars
    BY <2>1 DEF TInv, TypeOK, vars
  <2>2. CASE Next
    BY <2>2, CallStepTypes, OtherStepTypes DEF Next
  <2> QED  BY <2>1, <2>2
<1> QED  BY <1>1, TypeInit, PTL DEF Spec

(* TypeOK, for any constants.                                              *)
THEOREM TypeCorrect == Spec => []TypeOK
<1>1. TInv => TypeOK
  BY DEF TInv
<1> QED  BY <1>1, TypeInvariance, PTL

----------------------------------------------------------------------------
(* Sprints.                                                                *)

(* What a step does to the status of a sprint.                             *)
LEMMA SprintSteps ==
    ASSUME TInv, Next, NEW s \in Sprints
    PROVE  \/ sprints'[s].status = sprints[s].status
           \/ sprints[s].status = "todo" /\ sprints'[s].status = "in_progress"
           \/ sprints[s].status = "in_progress" /\ sprints'[s].status = "partially_done"
           \/ sprints[s].status \in Open /\ sprints'[s].status = "canceled"
<1>1. \A q \in Sprints : sprints[q] \in SprintRow
  BY DEF TInv, TypeOK
<1>2. ASSUME NEW q \in Sprints, NEW row, sprints' = [sprints EXCEPT ![q] = row]
      PROVE  sprints'[s] = sprints[s] \/ (s = q /\ sprints'[s] = row)
  BY <1>2 DEF TInv, TypeOK
<1>3. CASE LabelNeedsHuman
  <2>1. CASE UNCHANGED sprints
    BY <2>1
  <2>2. CASE ~UNCHANGED sprints
    <3>1. PICK q \in Sprints : sprints' = [sprints EXCEPT ![q].needsHuman = TRUE]
      BY <1>3, <2>2 DEF LabelNeedsHuman
    <3>2. [sprints[q] EXCEPT !.needsHuman = TRUE].status = sprints[q].status
      BY <1>1 DEF SprintRow
    <3> QED  BY <1>2, <3>1, <3>2
  <2> QED  BY <2>1, <2>2
<1>4. CASE \E q \in Sprints : SprintProgresses(q)
  <2>1. PICK q \in Sprints, status \in {"partially_done", "canceled"} :
          /\ sprints' = [sprints EXCEPT ![q].status = status]
          /\ \/ sprints[q].status = "in_progress" /\ status = "partially_done"
             \/ sprints[q].status \in Open /\ status = "canceled"
    BY <1>4 DEF SprintProgresses
  <2>2. [sprints[q] EXCEPT !.status = status].status = status
    BY <1>1 DEF SprintRow
  <2> QED  BY <1>2, <2>1, <2>2
<1>5. CASE \E l \in Leaders : StartTask(l)
  <2>1. PICK q \in Sprints : \/ sprints' = [sprints EXCEPT ![q].status = StartedSprintStatus(@)]
                            \/ UNCHANGED sprints
    BY <1>5 DEF StartTask, StartWrites, TInv, NamesItsWork, Chosen
  <2>2. CASE sprints' = [sprints EXCEPT ![q].status = StartedSprintStatus(@)]
    <3>1. [sprints[q] EXCEPT !.status = StartedSprintStatus(@)].status
            = StartedSprintStatus(sprints[q].status)
      BY <1>1 DEF SprintRow
    <3> QED  BY <1>2, <2>2, <3>1 DEF StartedSprintStatus
  <2> QED  BY <2>1, <2>2
<1>6. Crash \/ Arrive \/ (\E t \in Tasks : TaskProgresses(t)) => UNCHANGED sprints
  BY DEF Crash, Arrive, TaskProgresses, database
<1>7. \A l \in Leaders :
        PickSprint(l) \/ Locking(l) \/ StartPrepared(l) \/ ReadSprint(l) \/ ReadTasks(l)
        \/ SelectTask(l) \/ Prepare(l) \/ Fail(l)
        => UNCHANGED sprints
  BY DEF PickSprint, Locking, LockForPrepare, LockForStart, StartPrepared, ReadSprint,
         ReadTasks, SelectTask, Prepare, Fail, database
<1> QED  BY <1>3, <1>4, <1>5, <1>6, <1>7 DEF Next, Working

(* A start takes no sprint back, whatever happened to it since it was      *)
(* selected, and whatever a sync brings.                                   *)
THEOREM SprintsOnlyMoveForward == Spec => SprintsMoveForward
<1>1. TInv /\ [Next]_vars
      => [\A s \in Sprints : Rank[sprints[s].status] <= Rank[sprints'[s].status]]_vars
  <2> SUFFICES ASSUME TInv, Next, NEW s \in Sprints
               PROVE  Rank[sprints[s].status] <= Rank[sprints'[s].status]
    OBVIOUS
  <2>1. sprints[s].status \in Open \cup {"canceled"}
    BY DEF TInv, TypeOK, SprintRow
  <2>2. /\ Rank["todo"] = 0 /\ Rank["in_progress"] = 1
        /\ Rank["partially_done"] = 2 /\ Rank["canceled"] = 3
    BY DEF Rank, Open
  <2> QED  BY <2>1, <2>2, SprintSteps DEF Open
<1> QED  BY <1>1, TypeInvariance, PTL DEF Spec, SprintsMoveForward

----------------------------------------------------------------------------
(* Order, while nothing arrives.  A selection is old by the time it is     *)
(* used, yet what it relied on stays true: tasks that are done, or not     *)
(* there, never come back.                                                 *)

Settled == {"absent", "done"}

ItsTurn(t) ==
    \A u \in Tasks :
        Before(u, t) \/ <<t, u>> \in deps => tasks[u].status \in Settled

(* The rows a call has read show no task as settled that is not.           *)
RowsHold(me) ==
    me.pc = "deps" =>
        \A t \in Tasks :
            /\ SprintOf[t] # me.sprint => me.taskRows[t].status = "absent"
            /\ /\ SprintOf[t] = me.sprint
               /\ me.taskRows[t].status \in Settled
               => tasks[t].status \in Settled

HasItsTurn(me) == me.pc \in Chosen => ItsTurn(me.task)

OrderInv ==
    /\ \A l \in Leaders : RowsHold(call[l]) /\ HasItsTurn(call[l])
    /\ \A t \in Tasks : tasks[t].status \in InWork => ItsTurn(t)

Starts(t) == \E l \in Leaders : call[l].pc = "start" /\ call[l].task = t

(* A start changes the status of its own task only.                        *)
LEMMA StartStatuses ==
    ASSUME TInv, NEW l \in Leaders, StartTask(l)
    PROVE  /\ deps' = deps
           /\ \A t \in Tasks : \/ tasks'[t].status = tasks[t].status
                               \/ /\ tasks[t].status \in Startable
                                  /\ tasks'[t].status = "in_progress"
                                  /\ Starts(t)
<1>1. CASE StartAllowed(call[l].sprint, call[l].task)
  <2>1. call[l].task \in Tasks
    BY DEF StartTask, TInv, NamesItsWork, Chosen
  <2>2. tasks[call[l].task].status \in Startable
    BY <1>1 DEF StartAllowed
  <2>3. tasks' = [tasks EXCEPT ![call[l].task].status = "in_progress",
                               ![call[l].task].attempt = StartupAttempt(tasks[call[l].task])]
    BY <1>1 DEF StartTask, StartWrites
  <2>4. \A t \in Tasks : t # call[l].task => tasks'[t] = tasks[t]
    BY <2>3 DEF TInv, TypeOK
  <2>5. tasks'[call[l].task].status = "in_progress"
    BY <2>1, <2>3 DEF TInv, TypeOK, TaskRow
  <2> QED  BY <2>2, <2>4, <2>5 DEF StartTask, Starts
<1>2. CASE ~StartAllowed(call[l].sprint, call[l].task)
  BY <1>2 DEF StartTask
<1> QED  BY <1>1, <1>2

(* What a step does to statuses and dependencies: settled tasks stay       *)
(* settled, and only a start puts a task to work.                          *)
LEMMA StatusSteps ==
    ASSUME ~ArrivalsAllowed, TInv, Next
    PROVE  /\ deps' = deps
           /\ \A t \in Tasks : \/ tasks'[t].status = tasks[t].status
                               \/ /\ tasks[t].status \in Startable
                                  /\ tasks'[t].status = "in_progress"
                                  /\ Starts(t)
                               \/ /\ tasks[t].status \in InWork
                                  /\ tasks'[t].status \in {"dev_in_progress", "done", "blocked"}
<1>1. CASE \E t \in Tasks : TaskProgresses(t)
  BY <1>1 DEF TaskProgresses, TInv, TypeOK, TaskRow, InWork
<1>2. CASE LabelNeedsHuman
  <2>1. ASSUME NEW u \in Tasks, tasks' = [tasks EXCEPT ![u].needsHuman = TRUE]
        PROVE  \A t \in Tasks : tasks'[t].status = tasks[t].status
    <3>1. \A t \in Tasks : tasks[t] \in TaskRow
      BY DEF TInv, TypeOK
    <3>2. [tasks[u] EXCEPT !.needsHuman = TRUE].status = tasks[u].status
      BY <3>1 DEF TaskRow
    <3>3. \A t \in Tasks \ {u} : tasks'[t] = tasks[t]
      BY <2>1 DEF TInv, TypeOK
    <3>4. tasks'[u] = [tasks[u] EXCEPT !.needsHuman = TRUE]
      BY <2>1 DEF TInv, TypeOK
    <3> QED  BY <3>2, <3>3, <3>4
  <2> QED  BY <1>2, <2>1 DEF LabelNeedsHuman
<1>3. CASE \E l \in Leaders : StartTask(l)
  BY <1>3, StartStatuses
<1>4. CASE UNCHANGED <<tasks, deps>>
  BY <1>4
<1>5. Crash \/ (\E s \in Sprints : SprintProgresses(s)) => UNCHANGED <<tasks, deps>>
  BY DEF Crash, SprintProgresses, database
<1>6. \A l \in Leaders :
        PickSprint(l) \/ Locking(l) \/ StartPrepared(l) \/ ReadSprint(l) \/ ReadTasks(l)
        \/ SelectTask(l) \/ Prepare(l) \/ Fail(l)
        => UNCHANGED <<tasks, deps>>
  BY DEF PickSprint, Locking, LockForPrepare, LockForStart, StartPrepared, ReadSprint,
         ReadTasks, SelectTask, Prepare, Fail, database
<1>7. ~Arrive
  BY DEF Arrive
<1> QED  BY <1>1, <1>2, <1>3, <1>4, <1>5, <1>6, <1>7 DEF Next, Working

(* So a task's turn, once it has come, does not pass.                      *)
LEMMA TurnsLast ==
    ASSUME ~ArrivalsAllowed, TInv, Next, NEW t
    PROVE  ItsTurn(t) => ItsTurn(t)'
<1>1. \A u \in Tasks : tasks[u].status \in Settled => tasks'[u].status \in Settled
  BY StatusSteps DEF Settled, Startable, InWork
<1> QED  BY <1>1, StatusSteps DEF ItsTurn, Before

(* A selection from rows that hold picks a task whose turn it is.          *)
LEMMA SelectionHasItsTurn ==
    ASSUME NEW me, me.pc = "deps", RowsHold(me), NEW t \in Tasks,
           Unblocked(me.sprintRow, me.taskRows, deps, t)
    PROVE  ItsTurn(t)
<1>1. SprintOf[t] = me.sprint
  BY DEF Unblocked, RowsHold, Startable
<1>2. ASSUME NEW u \in Tasks, Before(u, t)
      PROVE  tasks[u].status \in Settled
  <2>1. SprintOf[u] = me.sprint /\ me.taskRows[u].status \in Settled
    BY <1>1, <1>2 DEF Before, Unblocked, WaitsForPrior, Settled
  <2> QED  BY <2>1 DEF RowsHold
<1>3. ASSUME NEW u \in Tasks, <<t, u>> \in deps
      PROVE  tasks[u].status \in Settled
  <2>1. SprintOf[u] = me.sprint /\ me.taskRows[u].status = "done"
    BY <1>1, <1>3 DEF Unblocked, WaitsForDependency
  <2> QED  BY <2>1 DEF RowsHold, Settled
<1> QED  BY <1>2, <1>3 DEF ItsTurn

(* A step of a call leaves rows that hold, and a task whose turn it is.    *)
LEMMA CallStepOrder ==
    ASSUME ~ArrivalsAllowed, TInv, OrderInv, Next, NEW l \in Leaders
    PROVE  RowsHold(call[l])' /\ HasItsTurn(call[l])'
<1>1. \A u \in Tasks : tasks[u].status \in Settled => tasks'[u].status \in Settled
  BY StatusSteps DEF Settled, Startable, InWork
<1>2. ASSUME call'[l] = call[l]
      PROVE  RowsHold(call[l])' /\ HasItsTurn(call[l])'
  <2>1. RowsHold(call[l])'
    BY <1>1, <1>2 DEF OrderInv, RowsHold
  <2>2. ASSUME call[l].pc \in Chosen
        PROVE  HasItsTurn(call[l])'
    <3>1. PICK t \in Tasks : t = call[l].task /\ ItsTurn(t)
      BY <2>2 DEF TInv, NamesItsWork, OrderInv, HasItsTurn
    <3>2. ItsTurn(t)'
      BY <3>1, TurnsLast
    <3> QED  BY <1>2, <3>1, <3>2 DEF HasItsTurn, ItsTurn, Before
  <2> QED  BY <1>2, <2>1, <2>2 DEF HasItsTurn
<1>3. ASSUME call'[l].pc \notin Chosen \cup {"deps"}
      PROVE  RowsHold(call[l])' /\ HasItsTurn(call[l])'
  BY <1>3 DEF RowsHold, HasItsTurn
<1>4. ASSUME NEW t \in Tasks, ItsTurn(t), call'[l].task = t, call'[l].pc \in Chosen
      PROVE  RowsHold(call[l])' /\ HasItsTurn(call[l])'
  <2>1. ItsTurn(t)'
    BY <1>4, TurnsLast
  <2> QED  BY <1>4, <2>1 DEF RowsHold, HasItsTurn, ItsTurn, Before, Chosen
<1>5. call \in [Leaders -> CallRecord]
  BY DEF TInv, TypeOK
<1>6. \A k \in Leaders : NamesItsWork(call[k])
  BY DEF TInv
<1>7. ASSUME NEW k \in Leaders, NEW pc, Move(k, pc),
             pc \in Chosen, call[k].pc \in Chosen
      PROVE  RowsHold(call[l])' /\ HasItsTurn(call[l])'
  <2>1. CASE k # l
    BY <1>2, <1>7, <2>1 DEF Move
  <2>2. CASE k = l
    <3>1. call'[l].task = call[l].task /\ call'[l].pc = pc
      BY <1>5, <1>7, <2>2 DEF Move, CallRecord
    <3>2. call[l].task \in Tasks /\ ItsTurn(call[l].task)
      BY <1>6, <1>7, <2>2 DEF OrderInv, HasItsTurn, NamesItsWork
    <3> QED  BY <1>4, <1>7, <3>1, <3>2
  <2> QED  BY <2>1, <2>2
<1>8. ASSUME NEW k \in Leaders, Return(k)
      PROVE  RowsHold(call[l])' /\ HasItsTurn(call[l])'
  <2>1. CASE k # l
    BY <1>2, <1>8, <2>1 DEF Return
  <2>2. CASE k = l
    BY <1>3, <1>5, <1>8, <2>2 DEF Return, Idle, Chosen
  <2> QED  BY <2>1, <2>2
<1>9. ASSUME NEW k \in Leaders, PickSprint(k) \/ ReadSprint(k)
      PROVE  RowsHold(call[l])' /\ HasItsTurn(call[l])'
  <2>1. CASE k # l
    BY <1>2, <1>5, <1>9, <2>1 DEF PickSprint, ReadSprint
  <2>2. CASE k = l /\ PickSprint(k)
    BY <1>3, <1>5, <2>2 DEF PickSprint, Idle, Chosen
  <2>3. CASE k = l /\ ReadSprint(k)
    <3>1. call'[l].pc = "tasks"
      BY <1>5, <2>3 DEF ReadSprint, CallRecord
    <3> QED  BY <1>3, <3>1 DEF Chosen
  <2> QED  BY <1>9, <2>1, <2>2, <2>3
<1>10. ASSUME NEW k \in Leaders, ReadTasks(k)
       PROVE  RowsHold(call[l])' /\ HasItsTurn(call[l])'
  <2>1. CASE k # l
    BY <1>2, <1>5, <1>10, <2>1 DEF ReadTasks
  <2>2. CASE k = l
    <3>1. /\ call'[l].pc = "deps"
          /\ call'[l].sprint = call[l].sprint
          /\ call'[l].taskRows = RowsOf(call[l].sprint)
      BY <1>5, <1>10, <2>2 DEF ReadTasks, CallRecord
    <3>2. \A t \in Tasks : RowsOf(call[l].sprint)[t] =
            IF SprintOf[t] = call[l].sprint THEN tasks[t] ELSE Absent
      BY DEF RowsOf
    <3>3. Absent.status = "absent"
      BY DEF Absent, Projected
    <3>4. RowsHold(call[l])'
      BY <1>1, <3>1, <3>2, <3>3 DEF RowsHold
    <3> QED  BY <3>1, <3>4 DEF HasItsTurn, Chosen
  <2> QED  BY <2>1, <2>2
<1>11. ASSUME NEW k \in Leaders, SelectTask(k), ~Return(k)
       PROVE  RowsHold(call[l])' /\ HasItsTurn(call[l])'
  <2>1. PICK t \in Tasks :
          /\ Unblocked(call[k].sprintRow, call[k].taskRows, deps, t)
          /\ call' = [call EXCEPT ![k] =
                [Idle EXCEPT !.pc = "lock", !.split = call[k].split,
                             !.sprint = call[k].sprint, !.task = t]]
    BY <1>11 DEF SelectTask
  <2>2. CASE k # l
    BY <1>2, <1>5, <2>1, <2>2
  <2>3. CASE k = l
    <3>1. ItsTurn(t)
      BY <1>11, <2>1, <2>3, SelectionHasItsTurn DEF SelectTask, OrderInv
    <3>2. call'[l].pc = "lock" /\ call'[l].task = t
      BY <1>5, <2>1, <2>3 DEF Idle
    <3> QED  BY <1>4, <3>1, <3>2 DEF Chosen
  <2> QED  BY <2>2, <2>3
<1>12. ASSUME NEW k \in Leaders, PickSprint(k) \/ Locking(k) \/ Working(k) \/ StartPrepared(k)
       PROVE  RowsHold(call[l])' /\ HasItsTurn(call[l])'
  <2>1. CASE Locking(k) \/ StartPrepared(k) \/ Prepare(k)
    BY <1>7, <2>1 DEF Locking, LockForPrepare, LockForStart, StartPrepared, Prepare, Chosen
  <2>2. CASE StartTask(k) \/ Fail(k)
    BY <1>8, <2>2 DEF StartTask, Fail
  <2>3. CASE SelectTask(k)
    BY <1>8, <1>11, <2>3
  <2> QED  BY <1>9, <1>10, <1>12, <2>1, <2>2, <2>3 DEF Working
<1>13. CASE Crash
  BY <1>3, <1>13 DEF Crash, Idle, Chosen
<1>14. LabelNeedsHuman \/ Arrive \/ (\E t \in Tasks : TaskProgresses(t))
       \/ (\E s \in Sprints : SprintProgresses(s)) => call'[l] = call[l]
  BY DEF LabelNeedsHuman, Arrive, TaskProgresses, SprintProgresses
<1> QED  BY <1>2, <1>12, <1>13, <1>14 DEF Next

(* Every selection is of a task whose turn it is, and so is every task in  *)
(* work, as long as no sync adds tasks or dependencies.                    *)
THEOREM OrderInvariance ==
    ASSUME ~ArrivalsAllowed
    PROVE  Spec => [](TInv /\ OrderInv)
<1>1. Init => OrderInv
  BY DEF Init, OrderInv, RowsHold, HasItsTurn, Idle, Chosen, InWork, Absent, Projected
<1>2. TInv /\ OrderInv /\ [Next]_vars => OrderInv'
  <2> SUFFICES ASSUME TInv, OrderInv, [Next]_vars PROVE OrderInv'
    OBVIOUS
  <2>1. CASE UNCHANGED vars
    BY <2>1 DEF OrderInv, RowsHold, HasItsTurn, ItsTurn, vars
  <2>2. CASE Next
    <3>1. ASSUME NEW t \in Tasks, tasks'[t].status \in InWork
          PROVE  ItsTurn(t)'
      <4>1. tasks[t].status \in InWork \/ Starts(t)
        BY <2>2, <3>1, StatusSteps
      <4>2. Starts(t) => ItsTurn(t)
        BY DEF Starts, OrderInv, HasItsTurn, Chosen
      <4> QED  BY <2>2, <4>1, <4>2, TurnsLast DEF OrderInv
    <3> QED  BY <2>2, <3>1, CallStepOrder DEF OrderInv
  <2> QED  BY <2>1, <2>2
<1> QED  BY <1>1, <1>2, TypeInvariance, PTL DEF Spec

(* Never two tasks of a sprint in work, however many callers select at the *)
(* same time.                                                              *)
THEOREM OneAtATime ==
    ASSUME ~ArrivalsAllowed
    PROVE  Spec => []OneTaskPerSprint
<1>1. OrderInv => OneTaskPerSprint
  <2> SUFFICES ASSUME OrderInv, NEW t \in Tasks, NEW u \in Tasks,
                      tasks[t].status \in InWork, tasks[u].status \in InWork,
                      SprintOf[t] = SprintOf[u], t # u
               PROVE  FALSE
    BY DEF OneTaskPerSprint
  <2>1. Before(t, u) \/ Before(u, t)
    BY ConstantsAssumption DEF Before
  <2>2. tasks[t].status \in Settled \/ tasks[u].status \in Settled
    BY <2>1 DEF OrderInv, ItsTurn
  <2> QED  BY <2>2 DEF Settled, InWork
<1> QED  BY <1>1, OrderInvariance, PTL

(* A task starts only when the earlier tasks of its sprint, and those it   *)
(* depends on, are done.                                                   *)
THEOREM InOrder ==
    ASSUME ~ArrivalsAllowed
    PROVE  Spec => StartsInOrder
<1>1. TInv /\ OrderInv /\ [Next]_vars
      => [\A t, u \in Tasks :
            /\ tasks[t].status = "todo"
            /\ tasks'[t].status = "in_progress"
            /\ \/ SprintOf[u] = SprintOf[t] /\ SeqNo[u] < SeqNo[t]
               \/ <<t, u>> \in deps
            => tasks[u].status \in {"absent", "done"}]_vars
  <2> SUFFICES ASSUME TInv, OrderInv, Next, NEW t \in Tasks, NEW u \in Tasks,
                      tasks[t].status = "todo", tasks'[t].status = "in_progress",
                      \/ SprintOf[u] = SprintOf[t] /\ SeqNo[u] < SeqNo[t]
                      \/ <<t, u>> \in deps
               PROVE  tasks[u].status \in {"absent", "done"}
    OBVIOUS
  <2>1. Starts(t)
    BY StatusSteps DEF InWork
  <2>2. ItsTurn(t)
    BY <2>1 DEF Starts, OrderInv, HasItsTurn, Chosen
  <2> QED  BY <2>2 DEF ItsTurn, Before, Settled
<1> QED  BY <1>1, OrderInvariance, PTL DEF Spec, StartsInOrder

----------------------------------------------------------------------------
(* The record of starts.                                                   *)

(* Among the first n events, the selection of t, the initialisation of s.  *)
Selected(events, t, n) ==
    \E j \in 1 .. n : events[j].type = "task_selected" /\ events[j].task = t
Initialized(events, s, n) ==
    \E j \in 1 .. n : events[j].type = "sprint_initialized" /\ events[j].sprint = s

(* The positions of the starts of t.                                       *)
StartsIn(events, t) ==
    {i \in DOMAIN events : events[i].type = "task_started" /\ events[i].task = t}

(* Every attempt is the first; a start is recorded once, after the         *)
(* selection of its task and the initialisation of its sprint.             *)
StartsOrdered(events) ==
    \A i \in DOMAIN events :
        /\ events[i].attempt = 1
        /\ events[i].type = "task_started" =>
             /\ \A k \in DOMAIN events :
                   events[k].type = "task_started" /\ events[k].task = events[i].task
                   => k = i
             /\ Selected(events, events[i].task, i - 1)
             /\ Initialized(events, SprintOf[events[i].task], i - 1)

(* A task that was never started has no attempt, all others one; a task    *)
(* that is done may have been so when it was projected.                    *)
AttemptFits(taskRow) ==
    /\ taskRow.status \in {"absent", "todo"} => taskRow.attempt = 0
    /\ taskRow.status \in InWork \cup {"blocked"} => taskRow.attempt = 1
    /\ taskRow.status = "done" => taskRow.attempt \in {0, 1}

RecordInv ==
    /\ StartsOrdered(log)
    /\ \A t \in Tasks :
          /\ AttemptFits(tasks[t])
          /\ tasks[t].status \in InWork => StartedEvents(t) # {}
          /\ StartedEvents(t) # {} => tasks[t].attempt = 1
    /\ \A s \in Sprints : sprints[s].status \in {"in_progress", "partially_done"}
                          => Initialized(log, s, Len(log))

(* Appending keeps every event in its place.                               *)
LEMMA AppendEventCases ==
    ASSUME NEW events \in Seq(EventRecord), NEW e \in EventRecord
    PROVE  LET after == AppendEvent(events, e)
           IN  /\ after \in Seq(EventRecord)
               /\ DOMAIN events = 1 .. Len(events) /\ Len(events) \in Nat
               /\ DOMAIN after = 1 .. Len(after)
               /\ \/ after = events /\ \E i \in DOMAIN events : SameKey(events[i], e)
                  \/ /\ Len(after) = Len(events) + 1
                     /\ after[Len(events) + 1] = e
                     /\ \A i \in DOMAIN events : ~SameKey(events[i], e)
               /\ \A i \in 1 .. Len(events) : after[i] = events[i]
BY DEF AppendEvent

(* What was recorded stays recorded.                                       *)
LEMMA RecordsLast ==
    ASSUME NEW events \in Seq(EventRecord), NEW e \in EventRecord, NEW t, NEW s
    PROVE  LET after == AppendEvent(events, e)
           IN  /\ \A n \in 0 .. Len(events) :
                     /\ Selected(events, t, n) => Selected(after, t, n)
                     /\ Initialized(events, s, n) => Initialized(after, s, n)
               /\ Selected(events, t, Len(events)) => Selected(after, t, Len(after))
               /\ Initialized(events, s, Len(events)) => Initialized(after, s, Len(after))
<1> DEFINE after == AppendEvent(events, e)
<1>1. /\ Len(events) \in Nat
      /\ after = events \/ Len(after) = Len(events) + 1
      /\ \A i \in 1 .. Len(events) : after[i] = events[i]
  BY AppendEventCases
<1> HIDE DEF after
<1>2. \A n \in 0 .. Len(events) :
         /\ Selected(events, t, n) => Selected(after, t, n)
         /\ Initialized(events, s, n) => Initialized(after, s, n)
  BY <1>1 DEF Selected, Initialized
<1>3. /\ Selected(after, t, Len(events)) => Selected(after, t, Len(after))
      /\ Initialized(after, s, Len(events)) => Initialized(after, s, Len(after))
  BY <1>1 DEF Selected, Initialized
<1> QED  BY <1>1, <1>2, <1>3 DEF after

(* What is appended is recorded.                                           *)
LEMMA AppendRecords ==
    ASSUME NEW events \in Seq(EventRecord), NEW e \in EventRecord
    PROVE  \E i \in DOMAIN AppendEvent(events, e) : SameKey(AppendEvent(events, e)[i], e)
<1> DEFINE after == AppendEvent(events, e)
<1>1. CASE after = events /\ \E i \in DOMAIN events : SameKey(events[i], e)
  BY <1>1
<1>2. CASE Len(after) = Len(events) + 1 /\ after[Len(events) + 1] = e
  <2>1. Len(events) + 1 \in DOMAIN after
    BY <1>2, AppendEventCases
  <2>2. SameKey(e, e)
    BY DEF SameKey
  <2> HIDE DEF after
  <2> QED  BY <1>2, <2>1, <2>2 DEF after
<1> QED  BY <1>1, <1>2, AppendEventCases

(* An event keeps the starts in order, if a start comes after what has to  *)
(* be recorded before it.                                                  *)
LEMMA AppendOrdered ==
    ASSUME NEW events \in Seq(EventRecord), NEW e \in EventRecord,
           StartsOrdered(events), e.attempt = 1,
           e.type = "task_started" => /\ Selected(events, e.task, Len(events))
                                      /\ Initialized(events, SprintOf[e.task], Len(events))
    PROVE  StartsOrdered(AppendEvent(events, e))
<1> DEFINE after == AppendEvent(events, e)
<1>1. CASE after = events
  BY <1>1
<1>2. CASE after # events
  <2>1. /\ Len(after) = Len(events) + 1 /\ after[Len(events) + 1] = e
        /\ \A i \in DOMAIN events : ~SameKey(events[i], e)
        /\ DOMAIN events = 1 .. Len(events) /\ Len(events) \in Nat
        /\ DOMAIN after = 1 .. Len(events) + 1
        /\ \A i \in 1 .. Len(events) : after[i] = events[i]
    BY <1>2, AppendEventCases
  <2>2. \A i \in DOMAIN events : events[i].type = "task_started"
             => ~(e.type = "task_started" /\ e.task = events[i].task)
    BY <2>1 DEF StartsOrdered, SameKey
  <2>3. ASSUME NEW n \in 0 .. Len(events), NEW t, NEW s
        PROVE  /\ Selected(events, t, n) => Selected(after, t, n)
               /\ Initialized(events, s, n) => Initialized(after, s, n)
    BY <2>3, RecordsLast
  <2> HIDE DEF after
  <2>4. SUFFICES ASSUME NEW i \in DOMAIN after
                 PROVE  /\ after[i].attempt = 1
                        /\ after[i].type = "task_started" =>
                             /\ \A k \in DOMAIN after :
                                   /\ after[k].type = "task_started"
                                   /\ after[k].task = after[i].task
                                   => k = i
                             /\ Selected(after, after[i].task, i - 1)
                             /\ Initialized(after, SprintOf[after[i].task], i - 1)
    BY DEF StartsOrdered, after
  <2>5. CASE i = Len(events) + 1
    <3>1. i - 1 = Len(events) /\ after[i] = e
      BY <2>1, <2>5
    <3>2. e.type = "task_started" => /\ Selected(after, e.task, i - 1)
                                     /\ Initialized(after, SprintOf[e.task], i - 1)
      BY <2>1, <2>3, <3>1
    <3> QED  BY <2>1, <2>2, <2>5, <3>1, <3>2
  <2>6. CASE i \in DOMAIN events
    <3>1. after[i] = events[i] /\ i - 1 \in 0 .. Len(events)
      BY <2>1, <2>6
    <3>2. events[i].attempt = 1
      BY <2>6 DEF StartsOrdered
    <3>3. ASSUME events[i].type = "task_started"
          PROVE  /\ \A k \in DOMAIN after :
                       after[k].type = "task_started" /\ after[k].task = events[i].task
                       => k = i
                 /\ Selected(after, events[i].task, i - 1)
                 /\ Initialized(after, SprintOf[events[i].task], i - 1)
      <4>1. \A k \in DOMAIN events :
               events[k].type = "task_started" /\ events[k].task = events[i].task => k = i
        BY <2>6, <3>3 DEF StartsOrdered
      <4>2. /\ Selected(events, events[i].task, i - 1)
            /\ Initialized(events, SprintOf[events[i].task], i - 1)
        BY <2>6, <3>3 DEF StartsOrdered
      <4>3. /\ Selected(after, events[i].task, i - 1)
            /\ Initialized(after, SprintOf[events[i].task], i - 1)
        BY <2>3, <3>1, <4>2
      <4> QED  BY <2>1, <2>2, <2>6, <3>3, <4>1, <4>3
    <3> QED  BY <3>1, <3>2, <3>3
  <2> QED  BY <2>1, <2>5, <2>6
<1> QED  BY <1>1, <1>2

(* An event adds to the starts of its own task only.                       *)
LEMMA StartedEventsGrow ==
    ASSUME NEW events \in Seq(EventRecord), NEW e \in EventRecord, NEW t
    PROVE  /\ StartsIn(events, t) \subseteq StartsIn(AppendEvent(events, e), t)
           /\ ~(e.type = "task_started" /\ e.task = t)
              => StartsIn(AppendEvent(events, e), t) = StartsIn(events, t)
<1> DEFINE after == AppendEvent(events, e)
<1>1. /\ DOMAIN events = 1 .. Len(events) /\ Len(events) \in Nat
      /\ \/ DOMAIN after = 1 .. Len(events)
         \/ DOMAIN after = 1 .. Len(events) + 1 /\ after[Len(events) + 1] = e
      /\ \A i \in 1 .. Len(events) : after[i] = events[i]
  BY AppendEventCases
<1> HIDE DEF after
<1>2. ASSUME NEW i \in StartsIn(events, t)
      PROVE  i \in StartsIn(after, t)
  <2>1. i \in 1 .. Len(events) /\ events[i].type = "task_started" /\ events[i].task = t
    BY <1>1 DEF StartsIn
  <2>2. i \in DOMAIN after /\ after[i] = events[i]
    BY <1>1, <2>1
  <2> QED  BY <2>1, <2>2 DEF StartsIn
<1>3. ASSUME ~(e.type = "task_started" /\ e.task = t), NEW i \in StartsIn(after, t)
      PROVE  i \in StartsIn(events, t)
  <2>1. i \in DOMAIN after /\ after[i].type = "task_started" /\ after[i].task = t
    BY DEF StartsIn
  <2>2. i \in 1 .. Len(events)
    BY <1>1, <1>3, <2>1
  <2> QED  BY <1>1, <2>1, <2>2 DEF StartsIn
<1>4. ~(e.type = "task_started" /\ e.task = t) => StartsIn(after, t) = StartsIn(events, t)
  BY <1>2, <1>3
<1>5. StartsIn(events, t) \subseteq StartsIn(after, t)
  BY <1>2
<1> QED  BY <1>4, <1>5 DEF after

(* A start that is allowed is on attempt 1 and is recorded as required.    *)
LEMMA StartRecords ==
    ASSUME TInv, RecordInv, NEW s \in Sprints, NEW t \in Tasks,
           StartAllowed(s, t), StartWrites(s, t)
    PROVE  RecordInv'
<1> DEFINE attempt     == StartupAttempt(tasks[t])
           sel         == Event("task_selected", s, t, attempt)
           init        == Event("sprint_initialized", s, t, attempt)
           start       == Event("task_started", s, t, attempt)
           selected    == AppendEvent(log, sel)
           initialized == IF sprints[s].status = "todo"
                          THEN AppendEvent(selected, init) ELSE selected
<1>1. /\ log \in Seq(EventRecord) /\ StartsOrdered(log)
      /\ tasks[t] \in TaskRow /\ sprints[s] \in SprintRow
      /\ tasks \in [Tasks -> TaskRow] /\ sprints \in [Sprints -> SprintRow]
      /\ SprintOf[t] = s /\ sprints[s].status \in Open
      /\ tasks[t].status \in Startable
  BY DEF TInv, TypeOK, RecordInv, StartAllowed
<1>2. attempt = 1
  BY <1>1 DEF StartupAttempt, RecordInv, AttemptFits, Startable, InWork
<1>3. /\ log' = AppendEvent(initialized, start)
      /\ sprints' = [sprints EXCEPT ![s].status = StartedSprintStatus(@)]
      /\ tasks' = [tasks EXCEPT ![t].status = "in_progress", ![t].attempt = attempt]
  BY DEF StartWrites
<1> HIDE DEF attempt
<1>4. sel \in EventRecord /\ init \in EventRecord /\ start \in EventRecord
  BY <1>2 DEF Event, EventRecord
<1>5. /\ sel.type = "task_selected" /\ sel.task = t /\ sel.attempt = 1
      /\ init.type = "sprint_initialized" /\ init.sprint = s /\ init.attempt = 1
      /\ start.type = "task_started" /\ start.task = t /\ start.attempt = 1
  BY <1>2 DEF Event
<1> HIDE DEF sel, init, start
<1>6. /\ selected \in Seq(EventRecord) /\ StartsOrdered(selected)
  BY <1>1, <1>4, <1>5, AppendEventCases, AppendOrdered
<1>7. Selected(selected, t, Len(selected))
  <2>1. PICK i \in DOMAIN selected : SameKey(selected[i], sel)
    BY <1>1, <1>4, AppendRecords
  <2>2. DOMAIN selected = 1 .. Len(selected)
    BY <1>1, <1>4, AppendEventCases
  <2> QED  BY <1>5, <2>1, <2>2 DEF SameKey, Selected
<1>8. /\ initialized \in Seq(EventRecord) /\ StartsOrdered(initialized)
      /\ Selected(initialized, t, Len(initialized))
      /\ Initialized(initialized, s, Len(initialized))
  <2> HIDE DEF selected
  <2>1. CASE sprints[s].status = "todo"
    <3> DEFINE after == AppendEvent(selected, init)
    <3>1. /\ after \in Seq(EventRecord) /\ StartsOrdered(after)
          /\ Selected(after, t, Len(after))
      BY <1>4, <1>5, <1>6, <1>7, AppendEventCases, AppendOrdered, RecordsLast
    <3>2. PICK i \in DOMAIN after : SameKey(after[i], init)
      BY <1>4, <1>6, AppendRecords
    <3>3. DOMAIN after = 1 .. Len(after)
      BY <1>4, <1>6, AppendEventCases
    <3> HIDE DEF after
    <3>4. Initialized(after, s, Len(after))
      BY <1>5, <3>2, <3>3 DEF SameKey, Initialized
    <3> QED  BY <2>1, <3>1, <3>4 DEF after
  <2>2. CASE sprints[s].status # "todo"
    <3>1. Initialized(log, s, Len(log))
      BY <1>1, <2>2 DEF RecordInv, Open
    <3>2. Initialized(selected, s, Len(selected))
      BY <1>1, <1>4, <3>1, RecordsLast DEF selected
    <3> QED  BY <1>6, <1>7, <2>2, <3>2
  <2> QED  BY <2>1, <2>2
<1>9. StartsOrdered(log')
  BY <1>1, <1>3, <1>4, <1>5, <1>8, AppendOrdered
<1>10. ASSUME NEW q
       PROVE  Initialized(log, q, Len(log)) => Initialized(log', q, Len(log'))
  <2>1. Initialized(log, q, Len(log)) => Initialized(selected, q, Len(selected))
    BY <1>1, <1>4, RecordsLast
  <2>2. Initialized(selected, q, Len(selected)) => Initialized(initialized, q, Len(initialized))
    BY <1>4, <1>6, RecordsLast
  <2> HIDE DEF selected, initialized
  <2>3. Initialized(initialized, q, Len(initialized)) => Initialized(log', q, Len(log'))
    BY <1>3, <1>4, <1>8, RecordsLast
  <2> QED  BY <2>1, <2>2, <2>3
<1>11. /\ StartedEvents(t)' # {}
       /\ \A u \in Tasks : StartedEvents(u) \subseteq StartedEvents(u)'
       /\ \A u \in Tasks \ {t} : StartedEvents(u)' = StartedEvents(u)
  <2>1. ASSUME NEW u \in Tasks
        PROVE  /\ StartsIn(log, u) \subseteq StartsIn(log', u)
               /\ u # t => StartsIn(log', u) = StartsIn(log, u)
    <3>1. StartsIn(selected, u) = StartsIn(log, u)
      BY <1>1, <1>4, <1>5, StartedEventsGrow
    <3>2. StartsIn(initialized, u) = StartsIn(selected, u)
      BY <1>4, <1>5, <1>6, StartedEventsGrow
    <3> HIDE DEF selected, initialized
    <3>3. /\ StartsIn(initialized, u) \subseteq StartsIn(log', u)
          /\ u # t => StartsIn(log', u) = StartsIn(initialized, u)
      BY <1>3, <1>4, <1>5, <1>8, StartedEventsGrow
    <3> QED  BY <3>1, <3>2, <3>3
  <2>2. PICK i \in DOMAIN log' : SameKey(log'[i], start)
    BY <1>3, <1>4, <1>8, AppendRecords
  <2>3. i \in StartedEvents(t)'
    BY <1>5, <2>2 DEF SameKey, StartedEvents
  <2> QED  BY <2>1, <2>3 DEF StartedEvents, StartsIn
<1>12. /\ tasks'[t].status = "in_progress" /\ tasks'[t].attempt = 1
       /\ \A u \in Tasks \ {t} : tasks'[u] = tasks[u]
  BY <1>1, <1>2, <1>3 DEF TaskRow
<1>13. \A u \in Tasks : /\ AttemptFits(tasks'[u])
                        /\ tasks'[u].status \in InWork => StartedEvents(u)' # {}
                        /\ StartedEvents(u)' # {} => tasks'[u].attempt = 1
  BY <1>11, <1>12 DEF RecordInv, AttemptFits, InWork
<1>14. \A q \in Sprints : sprints'[q].status \in {"in_progress", "partially_done"}
                          => Initialized(log', q, Len(log'))
  <2>1. CASE TRUE
    <3>1. Initialized(log', s, Len(log'))
      <4> HIDE DEF selected, initialized
      <4> QED  BY <1>3, <1>4, <1>8, RecordsLast
    <3>2. \A q \in Sprints \ {s} : sprints'[q] = sprints[q]
      BY <1>1, <1>3
    <3> QED  BY <1>10, <3>1, <3>2 DEF RecordInv
  <2> QED  BY <2>1
<1> QED  BY <1>9, <1>13, <1>14 DEF RecordInv

(* No other step writes the log, an attempt of a row that is there, or the *)
(* status of a sprint that has not started.                                *)
LEMMA OtherStepsRecord ==
    ASSUME TInv, Next, \A l \in Leaders : ~StartTask(l)
    PROVE  /\ log' = log
           /\ \A t \in Tasks :
                 \/ /\ tasks'[t].status = tasks[t].status
                    /\ tasks'[t].attempt = tasks[t].attempt
                 \/ /\ tasks[t].status \in InWork
                    /\ tasks'[t].status \in {"dev_in_progress", "done", "blocked"}
                    /\ tasks'[t].attempt = tasks[t].attempt
                 \/ /\ tasks[t].status = "absent"
                    /\ tasks'[t].status \in {"absent", "todo", "done"}
                    /\ tasks'[t].attempt = 0
           /\ \A s \in Sprints :
                 sprints'[s].status \in {"in_progress", "partially_done"}
                 => sprints[s].status \in {"in_progress", "partially_done"}
<1>1. /\ \A t \in Tasks : tasks[t] \in TaskRow
      /\ \A s \in Sprints : sprints[s] \in SprintRow
      /\ tasks \in [Tasks -> TaskRow] /\ sprints \in [Sprints -> SprintRow]
  BY DEF TInv, TypeOK
<1>2. CASE \E t \in Tasks : TaskProgresses(t)
  BY <1>1, <1>2 DEF TaskProgresses, TaskRow, InWork
<1>3. CASE LabelNeedsHuman
  <2>1. ASSUME NEW u \in Tasks, tasks' = [tasks EXCEPT ![u].needsHuman = TRUE]
        PROVE  \A t \in Tasks : /\ tasks'[t].status = tasks[t].status
                                /\ tasks'[t].attempt = tasks[t].attempt
    BY <1>1, <2>1 DEF TaskRow
  <2>2. ASSUME NEW q \in Sprints, sprints' = [sprints EXCEPT ![q].needsHuman = TRUE]
        PROVE  \A s \in Sprints : sprints'[s].status = sprints[s].status
    BY <1>1, <2>2 DEF SprintRow
  <2> QED  BY <1>3, <2>1, <2>2 DEF LabelNeedsHuman
<1>4. CASE Arrive
  <2>1. PICK rows \in [Tasks -> {Absent, Projected("todo"), Projected("done")}] :
          tasks' = [t \in Tasks |->
                IF tasks[t].status = "absent" THEN rows[t] ELSE tasks[t]]
    BY <1>4 DEF Arrive
  <2>2. \A t \in Tasks : /\ rows[t].status \in {"absent", "todo", "done"}
                         /\ rows[t].attempt = 0
    BY DEF Absent, Projected
  <2> QED  BY <1>4, <2>1, <2>2 DEF Arrive
<1>5. CASE \E s \in Sprints : SprintProgresses(s)
  BY <1>1, <1>5 DEF SprintProgresses, SprintRow, Open
<1>6. CASE UNCHANGED database
  BY <1>6 DEF database
<1>7. Crash => UNCHANGED database
  BY DEF Crash
<1>8. \A l \in Leaders :
        PickSprint(l) \/ Locking(l) \/ StartPrepared(l) \/ ReadSprint(l) \/ ReadTasks(l)
        \/ SelectTask(l) \/ Prepare(l) \/ Fail(l)
        => UNCHANGED database
  BY DEF PickSprint, Locking, LockForPrepare, LockForStart, StartPrepared, ReadSprint,
         ReadTasks, SelectTask, Prepare, Fail
<1> QED  BY <1>2, <1>3, <1>4, <1>5, <1>6, <1>7, <1>8 DEF Next, Working

(* The record is as required in every reachable state, whatever arrives,   *)
(* fails or crashes.                                                       *)
THEOREM RecordInvariance == Spec => [](TInv /\ RecordInv)
<1>1. Init => RecordInv
  <2> SUFFICES ASSUME Init PROVE RecordInv
    OBVIOUS
  <2>1. StartsOrdered(log) /\ \A t \in Tasks : StartedEvents(t) = {}
    BY DEF Init, StartsOrdered, StartedEvents
  <2>2. \A t \in Tasks : /\ tasks[t].status \in {"absent", "todo", "done"}
                         /\ tasks[t].attempt = 0
    BY DEF Init, Absent, Projected
  <2>3. \A s \in Sprints : sprints[s].status = "todo"
    BY DEF Init
  <2> QED  BY <2>1, <2>2, <2>3 DEF RecordInv, AttemptFits, InWork
<1>2. TInv /\ RecordInv /\ [Next]_vars => RecordInv'
  <2> SUFFICES ASSUME TInv, RecordInv, [Next]_vars PROVE RecordInv'
    OBVIOUS
  <2>1. CASE UNCHANGED <<tasks, sprints, log>>
    BY <2>1 DEF RecordInv, StartedEvents
  <2>2. ASSUME NEW l \in Leaders, StartTask(l)
        PROVE  RecordInv'
    <3>1. call[l].sprint \in Sprints /\ call[l].task \in Tasks
      BY <2>2 DEF StartTask, TInv, NamesItsWork, Chosen
    <3> QED  BY <2>1, <2>2, <3>1, StartRecords DEF StartTask
  <2>3. CASE Next /\ \A l \in Leaders : ~StartTask(l)
    <3>1. log' = log /\ \A t \in Tasks : StartedEvents(t)' = StartedEvents(t)
      BY <2>3, OtherStepsRecord DEF StartedEvents
    <3>2. \A t \in Tasks : /\ AttemptFits(tasks'[t])
                           /\ tasks'[t].status \in InWork => tasks[t].status \in InWork
                           /\ tasks[t].attempt = 1 => tasks'[t].attempt = 1
      BY <2>3, OtherStepsRecord DEF RecordInv, AttemptFits, InWork
    <3>3. \A s \in Sprints : sprints'[s].status \in {"in_progress", "partially_done"}
                             => Initialized(log, s, Len(log))
      BY <2>3, OtherStepsRecord DEF RecordInv
    <3> QED  BY <3>1, <3>2, <3>3 DEF RecordInv
  <2> QED  BY <2>1, <2>2, <2>3 DEF vars
<1> QED  BY <1>1, <1>2, TypeInvariance, PTL DEF Spec

(* A task is started once, on attempt 1, after its selection and after the *)
(* initialisation of its sprint were recorded.                             *)
THEOREM StartsRecorded == Spec => []StartsAreRecordedOnce
<1>1. RecordInv => StartsAreRecordedOnce
  BY DEF RecordInv, StartsOrdered, Selected, Initialized, StartedEvents,
         StartsAreRecordedOnce
<1> QED  BY <1>1, RecordInvariance, PTL
=============================================================================
