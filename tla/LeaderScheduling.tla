-------------------------- MODULE LeaderScheduling --------------------------
(***************************************************************************)
(* internal/leader and internal/tasklist: callers of StartNextWorkItem, or *)
(* of PrepareNextWorkItem and then StartPreparedWorkItem, select the next  *)
(* task from the projection, prepare its worktree and start it.            *)
(*                                                                         *)
(* The callers share the database and, within one process, a mutex per     *)
(* task.  A selection is read in several steps, no two of them in one      *)
(* transaction, and the start happens a preparation (git fetch, push,      *)
(* worktree) later.  Meanwhile started tasks progress, sprints move on,    *)
(* people set needs-human and GitHub is synchronised.                      *)
(*                                                                         *)
(* Branch names are functions of the ids here and always match; which      *)
(* worktree a preparation returns is left to the model of worktreeprep, so *)
(* a start refused for its worktree is one of the errors of Fail.          *)
(***************************************************************************)
EXTENDS Naturals, Sequences

CONSTANTS
    Leaders,            \* callers
    Nobody,             \* holds no lock
    Sprints,            \* sprint_id, identified with its sequence_no
    Tasks,
    SprintOf,           \* the sprint_id of a task
    SeqNo,              \* the sequence_no of a task within its sprint
    InitialTasks,       \* tasks that are projected from the start
    Dependencies,       \* <<t, d>>: GitHub may say that t is blocked by d
    ArrivalsAllowed,    \* whether a sync may add tasks and dependencies
    MaxLabels,          \* bound: needs-human labels that are set
    MaxCrashes          \* bound: crashes of the process

ASSUME ConstantsAssumption ==
    /\ Nobody \notin Leaders
    /\ Sprints \subseteq Nat
    /\ SprintOf \in [Tasks -> Sprints]
    /\ SeqNo \in [Tasks -> Nat]
    /\ \A t, u \in Tasks :
          SprintOf[t] = SprintOf[u] /\ SeqNo[t] = SeqNo[u] => t = u
    /\ InitialTasks \subseteq Tasks
    /\ Dependencies \subseteq Tasks \X Tasks
    /\ ArrivalsAllowed \in BOOLEAN
    /\ MaxLabels \in Nat
    /\ MaxCrashes \in Nat

(* Statuses a task and a sprint can be started in.  dev_in_progress stands *)
(* for every later status of a task in work, blocked for every parked one, *)
(* canceled for every sprint status that accepts no task; a task without a *)
(* row is absent.                                                          *)
Startable == {"todo", "in_progress"}
Open      == {"todo", "in_progress", "partially_done"}
InWork    == {"in_progress", "dev_in_progress"}

TaskRow   == [status : {"absent", "todo", "in_progress", "dev_in_progress",
                        "blocked", "done"},
              attempt : Nat, needsHuman : BOOLEAN]
SprintRow == [status : Open \cup {"canceled"}, needsHuman : BOOLEAN]

VARIABLES
    tasks,      \* rows of the tasks table
    sprints,    \* rows of the sprints table
    deps,       \* rows of the task_dependencies table
    log,        \* events of the leader, oldest first
    lock,       \* taskStartMux: who holds the mutex of a task
    call,       \* what each caller keeps in memory
    labels,     \* needs-human labels set so far
    crashes     \* crashes so far

database == <<tasks, sprints, deps, log>>
vars == <<tasks, sprints, deps, log, lock, call, labels, crashes>>

(* A task's row as a sync inserts it, or as if there were none.            *)
Projected(status) == [status |-> status, attempt |-> 0, needsHuman |-> FALSE]
Absent == Projected("absent")

(* pc is where a caller stands; split says it calls PrepareNextWorkItem    *)
(* and StartPreparedWorkItem; sprintRow and taskRows are the results of a  *)
(* selection's queries until the selection is made, and task its result.   *)
NoSprintRow == [status |-> "canceled", needsHuman |-> FALSE]
NoTaskRows  == [t \in Tasks |-> Absent]

Steps == {"idle", "sprint", "tasks", "deps", "lock", "prepare", "prepared",
          "relock", "start"}

CallRecord == [pc : Steps, split : BOOLEAN, sprint : Sprints \cup {0},
               task : Tasks \cup {Nobody}, sprintRow : SprintRow,
               taskRows : [Tasks -> TaskRow]]

Idle == [pc |-> "idle", split |-> FALSE, sprint |-> 0, task |-> Nobody,
         sprintRow |-> NoSprintRow, taskRows |-> NoTaskRows]

EventRecord == [type : {"task_selected", "sprint_initialized", "task_started"},
                sprint : Sprints, task : Tasks, attempt : Nat]

Event(type, sprint, task, attempt) ==
    [type |-> type, sprint |-> sprint, task |-> task, attempt |-> attempt]

Init ==
    /\ tasks \in [Tasks -> {Absent, Projected("todo"), Projected("done")}]
    /\ \A t \in Tasks : tasks[t] = Absent <=> t \notin InitialTasks
    /\ sprints = [s \in Sprints |-> [status |-> "todo", needsHuman |-> FALSE]]
    /\ deps \in SUBSET (Dependencies \cap (InitialTasks \X InitialTasks))
    /\ log = <<>>
    /\ lock = [t \in Tasks |-> Nobody]
    /\ call = [l \in Leaders |-> Idle]
    /\ labels = 0
    /\ crashes = 0

----------------------------------------------------------------------------
(* tasklist: what blocks a task, given the rows a request has loaded.  A   *)
(* targeted request loads the rows of one sprint only.                     *)

Before(p, t) == SprintOf[p] = SprintOf[t] /\ SeqNo[p] < SeqNo[t]

(* Mutant: a prior task in work counts as finished.                        *)
WaitsForTodo(rows, t) ==
    \E p \in Tasks : Before(p, t) /\ rows[p].status = "todo"

WaitsForPrior(rows, t) ==
    \E p \in Tasks : Before(p, t) /\ rows[p].status \notin {"absent", "done"}

(* A dependency outside the loaded rows, or of another sprint, never lifts.*)
WaitsForDependency(rows, dependencies, t) ==
    \E d \in Tasks :
        /\ <<t, d>> \in dependencies
        /\ \/ rows[d].status # "done"
           \/ SprintOf[d] # SprintOf[t]

Unblocked(sprintRow, rows, dependencies, t) ==
    /\ ~sprintRow.needsHuman
    /\ sprintRow.status \in Open
    /\ ~rows[t].needsHuman
    /\ rows[t].status \in Startable
    /\ ~WaitsForPrior(rows, t)
    /\ ~WaitsForDependency(rows, dependencies, t)

RowsOf(s) == [t \in Tasks |-> IF SprintOf[t] = s THEN tasks[t] ELSE Absent]

----------------------------------------------------------------------------
(* Selection *)

Move(l, pc) == call' = [call EXCEPT ![l].pc = pc]
Return(l)   == call' = [call EXCEPT ![l] = Idle]

(* SelectNextSprint: the first sprint that accepts tasks, whether or not   *)
(* any of its tasks can be started; without one the call returns.          *)
PickSprint(l) ==
    /\ call[l].pc = "idle"
    /\ \E s \in Sprints, split \in BOOLEAN :
          /\ sprints[s].status \in Open
          /\ \A q \in Sprints : q < s => sprints[q].status \notin Open
          /\ call' = [call EXCEPT ![l] =
                [Idle EXCEPT !.pc = "sprint", !.split = split, !.sprint = s]]
    /\ UNCHANGED <<database, lock, labels, crashes>>

(* SelectNextTask: three queries, one after the other.                     *)
ReadSprint(l) ==
    /\ call[l].pc = "sprint"
    /\ call' = [call EXCEPT ![l].pc = "tasks",
                            ![l].sprintRow = sprints[call[l].sprint]]
    /\ UNCHANGED <<database, lock, labels, crashes>>

ReadTasks(l) ==
    /\ call[l].pc = "tasks"
    /\ call' = [call EXCEPT ![l].pc = "deps",
                            ![l].taskRows = RowsOf(call[l].sprint)]
    /\ UNCHANGED <<database, lock, labels, crashes>>

(* The earliest unblocked task; without one the call returns, and no later *)
(* sprint is tried.                                                        *)
SelectTask(l) ==
    LET me    == call[l]
        Ready == {t \in Tasks : Unblocked(me.sprintRow, me.taskRows, deps, t)}
    IN  /\ me.pc = "deps"
        /\ \/ Ready = {} /\ Return(l)
           \/ \E t \in Ready :
                 /\ \A u \in Ready : SeqNo[t] <= SeqNo[u]
                 /\ call' = [call EXCEPT ![l] =
                       [Idle EXCEPT !.pc = "lock", !.split = me.split,
                                    !.sprint = me.sprint, !.task = t]]
        /\ UNCHANGED <<database, lock, labels, crashes>>

----------------------------------------------------------------------------
(* Preparation and start *)

Locks(l) ==
    /\ lock[call[l].task] = Nobody
    /\ lock' = [lock EXCEPT ![call[l].task] = l]

(* Mutant: an error return that forgets the mutex.                         *)
KeepsLock(l) == lock' = lock

(* The deferred unlock of a call that returns, or nothing if it holds none.*)
Unlocks(l) == lock' = [t \in Tasks |-> IF lock[t] = l THEN Nobody ELSE lock[t]]

LockForPrepare(l) ==
    /\ call[l].pc = "lock"
    /\ Locks(l)
    /\ Move(l, "prepare")
    /\ UNCHANGED <<database, labels, crashes>>

(* The worktree is ready.  StartNextWorkItem keeps the mutex for the start.*)
Prepare(l) ==
    /\ call[l].pc = "prepare"
    /\ \/ ~call[l].split /\ Move(l, "start") /\ lock' = lock
       \/ call[l].split /\ Move(l, "prepared") /\ Unlocks(l)
    /\ UNCHANGED <<database, labels, crashes>>

(* A prepared item is started by a second call, or dropped.                *)
StartPrepared(l) ==
    /\ call[l].pc = "prepared"
    /\ Move(l, "relock")
    /\ UNCHANGED <<database, lock, labels, crashes>>

LockForStart(l) ==
    /\ call[l].pc = "relock"
    /\ Locks(l)
    /\ Move(l, "start")
    /\ UNCHANGED <<database, labels, crashes>>

(* ON CONFLICT (idempotency_key) DO NOTHING; the key of sprint_initialized *)
(* has no attempt.                                                         *)
SameKey(e, f) ==
    /\ e.type = f.type
    /\ \/ e.type = "sprint_initialized" /\ e.sprint = f.sprint
       \/ e.type # "sprint_initialized" /\ e.task = f.task /\ e.attempt = f.attempt

AppendEvent(events, e) ==
    IF \E i \in DOMAIN events : SameKey(events[i], e)
    THEN events
    ELSE Append(events, e)

(* Mutant: every start is a new attempt.                                   *)
NextAttempt(row) == row.attempt + 1

StartupAttempt(row) ==
    IF row.status = "todo" THEN row.attempt + 1
    ELSE IF row.attempt > 0 THEN row.attempt
    ELSE 1

(* Mutant: a started sprint is in progress, whatever it was.               *)
AlwaysInProgress(status) == "in_progress"

(* Mutant: a status that no other part knows.                              *)
UnknownStatus(status) == IF status = "todo" THEN "started" ELSE status

StartedSprintStatus(status) == IF status = "todo" THEN "in_progress" ELSE status

StartAllowed(s, t) ==
    /\ sprints[s].status \in Open
    /\ tasks[t].status \in Startable
    /\ SprintOf[t] = s

StartWrites(s, t) ==
    LET attempt     == StartupAttempt(tasks[t])
        selected    == AppendEvent(log, Event("task_selected", s, t, attempt))
        initialized == IF sprints[s].status = "todo"
                       THEN AppendEvent(selected,
                                Event("sprint_initialized", s, t, attempt))
                       ELSE selected
    IN  /\ log' = AppendEvent(initialized, Event("task_started", s, t, attempt))
        /\ sprints' = [sprints EXCEPT ![s].status = StartedSprintStatus(@)]
        /\ tasks' = [tasks EXCEPT ![t].status = "in_progress",
                                  ![t].attempt = attempt]

(* startPreparedWorkItem: the transaction checks the statuses again, but   *)
(* nothing else of what the selection relied on.                           *)
StartTask(l) ==
    /\ call[l].pc = "start"
    /\ \/ /\ StartAllowed(call[l].sprint, call[l].task)
          /\ StartWrites(call[l].sprint, call[l].task)
       \/ /\ ~StartAllowed(call[l].sprint, call[l].task)
          /\ UNCHANGED <<tasks, sprints, log>>
    /\ Unlocks(l)
    /\ Return(l)
    /\ UNCHANGED <<deps, labels, crashes>>

(* A query, the preparation or the transaction fails.  Nothing interrupts  *)
(* a call that waits for a mutex.                                          *)
Fail(l) ==
    /\ call[l].pc \in {"sprint", "tasks", "deps", "prepare", "prepared", "start"}
    /\ Unlocks(l)
    /\ Return(l)
    /\ UNCHANGED <<database, labels, crashes>>

(* The process dies; mutexes and calls are gone, transactions are not half *)
(* done.                                                                   *)
Crash ==
    /\ crashes < MaxCrashes
    /\ crashes' = crashes + 1
    /\ lock' = [t \in Tasks |-> Nobody]
    /\ call' = [l \in Leaders |-> Idle]
    /\ UNCHANGED <<database, labels>>

----------------------------------------------------------------------------
(* The rest of the system *)

(* RunTask, and what finishes a task after it.                             *)
TaskProgresses(t) ==
    /\ \/ /\ tasks[t].status = "in_progress"
          /\ tasks' = [tasks EXCEPT ![t].status = "dev_in_progress"]
       \/ /\ tasks[t].status = "dev_in_progress"
          /\ \E status \in {"done", "blocked"} :
                tasks' = [tasks EXCEPT ![t].status = status]
    /\ UNCHANGED <<sprints, deps, log, lock, call, labels, crashes>>

SprintProgresses(s) ==
    /\ \/ /\ sprints[s].status = "in_progress"
          /\ sprints' = [sprints EXCEPT ![s].status = "partially_done"]
       \/ /\ sprints[s].status \in Open
          /\ sprints' = [sprints EXCEPT ![s].status = "canceled"]
    /\ UNCHANGED <<tasks, deps, log, lock, call, labels, crashes>>

(* A sync only ever sets needs_human.                                      *)
LabelNeedsHuman ==
    /\ labels < MaxLabels
    /\ labels' = labels + 1
    /\ \/ \E t \in Tasks :
             /\ tasks[t].status # "absent"
             /\ tasks' = [tasks EXCEPT ![t].needsHuman = TRUE]
             /\ UNCHANGED sprints
       \/ \E s \in Sprints :
             /\ sprints' = [sprints EXCEPT ![s].needsHuman = TRUE]
             /\ UNCHANGED tasks
    /\ UNCHANGED <<deps, log, lock, call, crashes>>

(* ApplyGitHubProjection, one transaction: GitHub shows tasks that had no  *)
(* row yet, open or closed, and dependencies between tasks.  What a sync   *)
(* takes away belongs to the projection's own model; a start whose rows    *)
(* are gone fails as in Fail.                                              *)
Arrive ==
    /\ ArrivalsAllowed
    /\ \E rows \in [Tasks -> {Absent, Projected("todo"), Projected("done")}],
          new \in SUBSET (Dependencies \ deps) :
          /\ tasks' = [t \in Tasks |->
                IF tasks[t].status = "absent" THEN rows[t] ELSE tasks[t]]
          /\ \A d \in new, n \in {1, 2} : tasks'[d[n]].status # "absent"
          /\ deps' = deps \cup new
    /\ UNCHANGED <<sprints, log, lock, call, labels, crashes>>

Locking(l) == LockForPrepare(l) \/ LockForStart(l)

Working(l) ==
    \/ ReadSprint(l) \/ ReadTasks(l) \/ SelectTask(l)
    \/ Prepare(l) \/ StartTask(l) \/ Fail(l)

Next ==
    \/ \E l \in Leaders : PickSprint(l) \/ Locking(l) \/ Working(l) \/ StartPrepared(l)
    \/ Crash
    \/ \E t \in Tasks : TaskProgresses(t)
    \/ \E s \in Sprints : SprintProgresses(s)
    \/ LabelNeedsHuman
    \/ Arrive

Spec == Init /\ [][Next]_vars

(* Every query, git command and transaction ends, with an error if need    *)
(* be, and Go's mutexes serve every waiter in the end.  Nothing else has   *)
(* to happen, a prepared item need not be started.                         *)
FairSpec ==
    /\ Spec
    /\ \A l \in Leaders : WF_vars(Working(l)) /\ SF_vars(Locking(l))

----------------------------------------------------------------------------
(* Properties *)

TypeOK ==
    /\ tasks \in [Tasks -> TaskRow]
    /\ sprints \in [Sprints -> SprintRow]
    /\ deps \subseteq Dependencies
    /\ log \in Seq(EventRecord)
    /\ lock \in [Tasks -> Leaders \cup {Nobody}]
    /\ call \in [Leaders -> CallRecord]
    /\ labels \in 0 .. MaxLabels
    /\ crashes \in 0 .. MaxCrashes

(* The tasks of a sprint run one after the other: two callers that select  *)
(* at the same time, from rows read at different times, never put two      *)
(* tasks of a sprint to work.                                              *)
OneTaskPerSprint ==
    \A t, u \in Tasks :
        /\ tasks[t].status \in InWork
        /\ tasks[u].status \in InWork
        /\ SprintOf[t] = SprintOf[u]
        => t = u

(* SPEC-V1.md:209: a task is started only when it is the first unfinished  *)
(* task of its sprint and every task it depends on is done.                *)
StartsInOrder ==
    [][\A t, u \in Tasks :
          /\ tasks[t].status = "todo"
          /\ tasks'[t].status = "in_progress"
          /\ \/ SprintOf[u] = SprintOf[t] /\ SeqNo[u] < SeqNo[t]
             \/ <<t, u>> \in deps
          => tasks[u].status \in {"absent", "done"}]_vars

StartedEvents(t) ==
    {i \in DOMAIN log : log[i].type = "task_started" /\ log[i].task = t}

(* However many callers start a task, and whatever crashes between them,   *)
(* the task is started once, on attempt 1, after its selection and after   *)
(* the initialisation of its sprint were recorded.                         *)
StartsAreRecordedOnce ==
    \A t \in Tasks :
        /\ tasks[t].status \in InWork => StartedEvents(t) # {}
        /\ \A i \in StartedEvents(t) :
              /\ StartedEvents(t) = {i}
              /\ log[i].attempt = tasks[t].attempt
              /\ \E j \in 1 .. i - 1 :
                    log[j].type = "task_selected" /\ log[j].task = t
              /\ \E j \in 1 .. i - 1 :
                    log[j].type = "sprint_initialized" /\ log[j].sprint = SprintOf[t]

Rank == [status \in Open \cup {"canceled"} |->
           CASE status = "todo" -> 0
             [] status = "in_progress" -> 1
             [] status = "partially_done" -> 2
             [] OTHER -> 3]

(* A start never takes a sprint back: a caller that selected it before it  *)
(* was partially done, or closed, does not reopen it.                      *)
SprintsMoveForward ==
    [][\A s \in Sprints : Rank[sprints[s].status] <= Rank[sprints'[s].status]]_vars

(* Every call comes back, also when another caller's preparation of the    *)
(* same task failed or crashed.                                            *)
CallsReturn ==
    \A l \in Leaders :
        call[l].pc \notin {"idle", "prepared"} ~> call[l].pc \in {"idle", "prepared"}
=============================================================================
