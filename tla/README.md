# Toolhub: formal model

Toolhub drives a plan of sprints and tasks from GitHub issues to task pull
requests. A SQLite database is both a *projection* of GitHub (repo, sprints,
tasks, dependencies, pull requests, CI runs) and the record of the automation
itself (an append-only `events` table, the statuses and counters of tasks, review
findings, an outbox). Go services around it select a task, prepare its worktree,
run agent CLIs (Developer, QA, Reviewer) and turn their answers into the task's
next status.

This directory models the services that decide what happens to a task, and those
that move the plan to GitHub and GitHub into the database:

* the **orchestrator**, **agentrun** and **reviewagg**: what an agent's answer does
  to a task;
* **agentrun** and the **command** executor: how an agent's process comes to its end,
  and what its caller is told of it;
* the **leader** and **tasklist**: which task is started, when, and how often;
* **worktreeprep**: the branches and worktrees of a task, over preparations that
  overlap and are cut off;
* **issuesync**: how the plan becomes issues, over runs that fail;
* **githubsync**: how GitHub's issues and pull requests become rows, over
  synchronisations that overlap.

TLC checks the modules on small instances (`*.cfg`); TLAPS proves the theorems of
the `*_proofs` modules for every instance.

## Inventory

| Component (under `src/internal`) | State | Operations | Uses | Hard part | What makes it correct |
|---|---|---|---|---|---|
| `orchestrator` | none of its own; a snapshot of the task's row and the last artifact refs per call | `RunTask`, its stage handlers, budget and escalation | store, agentrun, reviewagg | concurrent calls and human takeovers while an agent works for up to an hour; crash between entering and deciding a stage; retries | each stage of an attempt decided once, in order; verdicts booked on the attempt they judge; parked tasks stay parked; calls end |
| `agentrun` | none (log files, artifacts on disk) | `RunTask`: run a CLI under a deadline, log its output, watch it for a rate limit, validate its payload, normalise the reviewer's status | command | a process that hangs, is killed or fails after it wrote a passing payload; a message that arrives in pieces; several validators in a row | runner failures are retried, never verdicts; only sound work advances; nothing that was cut off is believed |
| `reviewagg` | none | `Execute`: findings and statuses to a decision | – | disagreement with the reviewer it sums up | the decision is the reviewer's |
| `store` | the database | `AppendEvent`, `UpdateTaskState`, `UpdateSprintState`, `ApplyGitHubProjection`, outbox, loads | SQLite | silent deduplication of events; upserts that keep some columns; foreign keys | the row can be rebuilt from the log |
| `leader` | a mutex per task | `SelectNextSprint/Task/WorkItem`, `PrepareNextWorkItem`, `StartNextWorkItem`, `StartPreparedWorkItem` | tasklist, worktreeprep, store | selections that are stale when started; two callers; crash after a start | tasks start in order, one at a time, once |
| `tasklist` | none | `Execute`: rows to tasks with block reasons | store | one answer made of several queries | a task is offered only when nothing blocks it |
| `githubsync` | none (writes the projection) | full reconcile, targeted reconciles, webhooks | github, store | late, repeated, reordered webhooks; GitHub read long before the snapshot is applied, for a webhook inside the open transaction; rows that must go but are referred to | no webhook goes back in time; a synchronisation that nothing disturbs leaves GitHub's tasks; the tables agree |
| `issuesync` | a manifest file | `Sync`: labels, sprint and task issues, sub-issues, dependencies | `gh` | crash between creating an issue and saving the manifest; retry of a create that succeeded; a torn manifest | one issue per sprint and task; a run without an error has done everything; a rerun gets through |
| `worktreeprep` | none (git refs, worktrees) | `Execute`: fetch, sprint branch, push, task branch, worktree | git | overlapping calls; a crash between the git steps; branches compared in one command and forced in another; a removal by path after a listing that is stale | no branch goes back, bases are published, new branches are current, no work is lost, retries get through |
| `command` | one process, its pipe and its context | `Run` | os/exec | a process that outlives its deadline through a child that holds its pipe; a log that cannot be written | what the caller is told is true; the run ends |
| `git`, `github` | none | one external command per call | command | timeouts | environment of the others |
| `config`, `logging`, `timeline`, `app`, `cmd/toolhub` | configuration | wiring, flags, the HTTP server for webhooks | all | – | – |

`app.New` builds the leader and the orchestrator; at this commit no command and no
HTTP route calls them in a loop. The models therefore take *any* number of callers
of their public methods, in any order, which is what such a loop, or several
processes on one database, would be.

`PROJECT.json` lists the hazards at their lines, and which property covers each.

## Modules

| Module | Models | Role |
|---|---|---|
| `TaskLifecycle` | what the orchestrator promises about one task | abstract specification |
| `AgentRunner` | `agentrun` `Executor.RunTask` after the process has ended: exit, payload, validation, reviewer aliases | operators |
| `StageDecision` | `reviewagg`, and the handlers' decisions and fingerprints in `orchestrator/run.go` | operators |
| `DecisionTable` | one execution of an agent CLI, from its end to the verdict: the two modules above composed | abstract specification, state machine of three steps |
| `AgentProcess` | the process, its children, its output, the copying, the watcher, the deadline, and the run around them | state machine, refines `DecisionTable` |
| `TaskStageMachine` | `RunTask` with every handler, the event log and the row, concurrent calls, aborts, takeovers | state machine, refines `TaskLifecycle` |
| `LeaderScheduling` | `leader` and `tasklist` with concurrent callers, syncs, crashes | state machine |
| `WorktreePrep` | `prepare-worktree-tool`, git command by git command, over overlapping calls | state machine |
| `IssueSync` | `toolhub sync-issues --apply`, call by call, its manifest, the plan's edits | state machine |
| `GitHubSync` | `githubsync` and `ApplyGitHubProjection`: full reconciles, webhooks, reconciles of one thing; GitHub | state machine |
| `MC*` | instances for TLC | constants |
| `*_proofs` | theorems | proofs |

### State and actions of `TaskStageMachine`

`row` is the task's row (`tasks` table), `log` its events, `run[r]` what the r-th
caller keeps in memory (`snap` is the projection it last loaded, `refs` the artifact
refs read when the call began, `transitions` its budget). A transaction is one
action; between two actions of a call other callers and people act.

`Start` and `Load` are the beginning of a call and of an iteration (`service.go`);
`EnterDeveloperStage` and `MarkReviewStarted` the transactions that enter a stage;
`Reload` the read after them; `DeveloperStage`, `QAStage`, `ReviewStage` an agent's
answer together with the transaction that records it (guarded by the
compare-and-set on status and attempt, `WriteAllowed`); `Settle` the read after the
outcome; `BudgetExceeded` and `Escalate` the end of the transition budget; `Abort`
every error return, cancellation or crash of a call; `HumanTakeover` a write through
the task state store. Texts (summaries, human reasons, artifact paths) are left out;
an artifact is named by the attempt it belongs to, and a fingerprint is the set of
words it is built from.

### State and actions of `AgentProcess`

`agent` is the CLI's process: whether it runs and how it ended, whether a descendant
`held` on to its pipes, whether it wrote the `file` of its last message or a `hint` of a
rate limit: a marker on its standard error, which the watcher does not read, or the bare
`rate_limit` on either stream, which only the summary at the end looks for. `stdout`
holds the words it wrote; `read` and `watched` say how far the result's buffer and the
rate limit watcher have got, `copier` is the goroutine of `os/exec` that moves them.
`tool` is the call: its place, its context, and what it knows.

`Write`, `WriteFile`, `Hint`, `LeaveChild`, `ChildEnds` and `Exit` are the agent's doing.
`Copy` hands a chunk of any size to the buffer, the log and the watcher, which may end the
context; `CopyBreaks` is a log that cannot be written; `Drain` the end of the output.
`Deadline` ends the context, `Kill` is what `exec.CommandContext` does then.
`StartCommand`, `CannotStart` and `CommandReturns` are `command.Executor.Run`;
`Classify`, `Parse` and `ToolReturns` are what `agentrun` makes of its result;
`ToolFails` is a run without a result because its directory, a log or its report
cannot be written. `Decide` is the orchestrator's step of `DecisionTable`. What belongs to
the run alone starts over at `Classify`. The answer is the word "answer" of the output or
the `file`, whichever the runner's CLI is told to use. The context of the caller is never
cancelled: the program passes `context.Background()`.

### State and actions of `WorktreePrep`

`origin`, `tracking` and `heads` are the branches on the remote, as last fetched, and local;
a branch is the set of commits reachable from it. `trees` are the registered worktrees and
`disk` what their directories hold. `call[c]` is what a preparation has read so far. Each
git command is an action, named after what it is for (`Fetch`, `InspectSprint`, `Compare`,
`CheckCheckedOut`, `ForceBranch`, `Adopt`, `CreateSprint`, `Push`, `InspectTask`,
`CreateTask`, `ListTrees`, `RemoveStale`, `Settle`, `AddTree`, `Finish`). `RemoveStale`
looks at one of the listed trees that matter and removes it if it is stale; each is judged
once (`left`), by the listing and by what is at its path at that moment, and `Settle` comes
when none is left. The checks which branches exist, made one right after the other, are one
step. Git refuses what it refuses: a branch that exists, a branch checked out elsewhere, a
push that is not a fast-forward, the removal of a tree that is locked or has a file or
another directory in its place. `CutOff`, `PushUnanswered` and `AddKilled` are commands and
processes that die; `Retry` is the caller who takes `git_failed` at its word.
`RemoteCommit`, `MergeTask`, `AgentPush`, `LocalCommit`, `Checkout`, `DropBranch`, `Detach`,
`Lose` and `Block` are GitHub, agents and people. `late` (commits a person makes on the
local sprint branch during a preparation) and `alone` (no other preparation of the task at
the same time) are the premises of two properties.

### State and actions of `LeaderScheduling`

`tasks`, `sprints`, `deps` and `log` are tables, `lock` the mutexes of `taskStartMux`,
`call[l]` the memory of a caller. `PickSprint`, `ReadSprint`, `ReadTasks` and
`SelectTask` are the queries behind one selection, each its own step because no
transaction joins them; `LockForPrepare` and `LockForStart` wait for the mutex;
`Prepare` is the whole preparation of the worktree (`WorktreePrep`); `StartTask` is the start's
transaction with its three events and two updates; `Fail` is every error return.
`TaskProgresses` and `SprintProgresses` stand for what happens to started tasks and
to sprints, `LabelNeedsHuman` and `Arrive` for a synchronisation with GitHub. Two
branches that disagree, or a worktree path that does, make a start fail: one of the
errors of `Fail`.

### State and actions of `IssueSync`

`issues` is GitHub, `file` the manifest on disk and `mem` the one in memory, `plan`
what the plan says. `pc` and `at` are the place in `Sync`: the items one by one
(`SyncItem` decides between nothing, an update and a creation; `UpdateIssue`;
`CreateIssue`, and after an error `Recheck` and another attempt; `Save`), then the
sub-issues (`ListSubIssues`, `AddSubIssue`), then the dependencies (`ListBlockedBy`,
`AddBlockedBy`), then `LastSave`. What a task depends on is part of its body and changes
with it; a dependency that the plan lacks in the task's sprint (`Dangling`) ends every run
(`DanglingDependency`). The `Fault` actions are a call cut off with or
without its effect, a torn file, and `Abort`, which is every error return and a crash.
A creation whose answer is lost has happened, has not, or is on its way (`late`);
`CreationLands` is GitHub carrying it out at any later time, in this run or another one.
As `late` is a set that keeps what it has, the model may let one creation land twice,
which is more than GitHub does.
`AddSubIssueMisread` and `AddBlockedByMisread` are a failure taken for "already
linked": `isAlreadyExistsError` looks for the digits 422 anywhere in an error that
contains the whole command line, issue numbers included. `blind`, `retitled` and
`adrift` record the circumstances the properties name as premises, and so does `late`
(`Tardy`).

### State and actions of `GitHubSync`

`sprint`, `issue`, `pull`, `parent` are GitHub, `sprints`, `tasks`, `prs`, `findings`,
`events` are tables, `call[c]` is what a synchronisation has read so far, `lock` the
caller whose transaction has written. `FullReconcile`, `Reconcile` and `Receive` begin
an operation; `Receive` also opens the transaction, because `ingestWebhook` inserts the
event before it reads GitHub. Each call to GitHub is a step (`ListSprints`,
`ListOpenTasks`, `SearchSprint`, `ReadSprint`, `ReadIssue`, `ListPullRequests`; the
issue of a sprint and its sub-issues are read in one). `Apply` is
`ApplyGitHubProjection` with everything it deletes, inserts and updates; `Reject` is
its validation, its foreign keys and its unique numbers; `Abort` every other error.
Numbers on issues (`ver`) tell old states from new ones.

## Runs

| Run | Instance | States | Question |
|---|---|---|---|
| `agent_process` | every way a process can end with up to 3 words of output × complete or cut short payload × every status the code names × 5 next actions × 5 sets of findings, at each stage | 116 004 | Is what the caller is told true, does the run end, and does each answer lead to the right verdict? |
| `two_callers` | 2 callers, 2 calls, 4 transitions, takeover, one answer per verdict, symmetric callers | 300 190 | Is the history of a task consistent under interleaving, and does it refine `TaskLifecycle`? |
| `one_caller` | 1 caller, 3 calls, 5 transitions, 2 aborts, every answer | 33 000 | Do calls end, with the task parked, also after crashes, and do agents get the right artifacts? |
| `leaders_stable` | 2 callers, 2 sprints with 2 and 1 tasks that start open or done, an optional dependency, 1 crash, symmetric callers | 1 567 600 | Do tasks start in order, one per sprint and once, from stale selections? |
| `leaders_return` | 2 callers, one task that a sync brings, 1 label, 1 crash | 151 744 | Does every caller get the mutex and come back? |
| `worktree_prep` | 2 overlapping calls for a task, 6 kinds of clone, 2 faults, 1 change around them | 241 131 | Do preparations keep branches, bases and work, and do retries get through? |
| `issue_sync` | a sprint with two tasks whose dependencies change with their texts, 3 faults (late creations included), 2 edits of the plan, any number of runs | 1 692 124 | Is anything created twice or left out, and does the command get through? |
| `github_sync` | 2 sprints, 2 tasks and 3 ids, 2 operations, 2 changes on GitHub, one task in work, symmetric callers | 1 213 387 | Do the tables follow GitHub, whatever overlaps? |
| `qa_cap` | violation | – | Are QA failures capped, as the README says? No. |
| `canonical_statuses` | violation | – | Are the documented reviewer statuses accepted? No. |
| `stale_selection` | violation | – | Do tasks start in order while GitHub is synchronised? No. |
| `lost_parent` | violation | – | Is a running task that left its sprint kept for a human? No. |

What the properties say is stated above each of them in the module. The bounds:

* *Two callers, two calls, four transitions*: a stale caller needs one other caller
  to overtake it. Four transitions take an attempt through all three stages and
  into a second attempt, so an answer for attempt 1 can meet attempt 2. The
  takeover parks the task at any moment.
* *Five transitions, three calls, two aborts*: a call may crash at every step of an
  attempt, its successor may crash again, and the third one still meets the budget.
* *Two sprints, tasks 1/1 and 1/2 and 2/1*: the least that has a prior task, a
  dependency (1/1 on 1/2, the direction that order alone does not imply) and a
  sprint to move on to.
* *Three words of output*: a rate limit message split in two, at any boundary of chunks,
  before or after an answer. Of a process that failed, only those parts of the payload
  are varied that could turn its failure into a verdict.
* *Two preparations, one task, two faults, one change*: one preparation overtakes the
  other with a change between them, and is cut off, retried and cut off again. Two tasks
  share only the sprint branch, about which two calls for one task race as well. The
  clones have a sprint branch that is new, behind or diverged, a default branch that is
  remote, local or missing, and a task branch from another clone.
* *Three faults, two edits*: the worst the properties name takes a lost answer, a
  failed lookup after it and a crash, or a lost answer, its creation landing in a later
  run, and another lost answer; two edits take a text away and back. The second task
  depends on the first one until its body changes, the first one then on a task the plan
  lacks. Pages hold
  4 issues, so that a fifth one, which duplicates lead to, is off the page.
* *Two operations, two changes, ids 1/1, 1/2 and 2/1*: one synchronisation overtakes
  the other with a change before and a change between; two changes exchange the ids
  of two issues, or move one to the other sprint and rename it. `Known` leaves the
  second sprint to be discovered. `Asked`, `Worked` and `Changing` limit what is
  reconciled on request (task 1/2), worked on (1/2) and changed (both tasks, the first
  sprint, the pull request of 1/2).
* Symmetry is used only where the properties are invariants and action properties.
  Deadlock is not checked: callers stop when their calls are used up, no sprint is
  open, the operations are used up, or the one execution of `AgentProcess` is decided;
  that a *call* does not stop is `CallsReturn`, `RunsEnd` and `GetsThrough`.

Fairness. `TaskStageMachine`: weak fairness of each caller's steps, because every
transaction ends and so does every agent run. Each run has a deadline: where the
orchestrator passes no `Timeout`, `validateOptions` sets 30 minutes
(agentrun/service.go:344). A premise remains, that no descendant of the agent keeps its
pipes open; `RunsEnd` is the property of `AgentProcess` that says so. Nothing forces anybody
to call. `AgentProcess`: weak fairness of the copying goroutine, the timer, the kill and the
tool's own steps; none of what the agent does. `WorktreePrep`: weak fairness of each call's
steps, because git commands end, and of the retry of a retryable answer. `LeaderScheduling`:
weak fairness of the steps of a call, which end in an answer or an error, and strong
fairness of taking a mutex, because a Go mutex that has starved a waiter is handed over to
it. A prepared item need not be started. `IssueSync`: a run that goes on makes its next
call, the command is run again, and somebody removes a manifest that cannot be read; faults
are finitely many. `GitHubSync` states safety only: no fairness.

### What the violations show

* `qa_cap`: README.md:513 and TECH-V1.md:45 stop a task after three QA failures in a
  row. `handleQAResult` counts them and compares the count with nothing; only
  `MaxStageTransitions` ends the loop.
* `canonical_statuses`: `validatePayload` does not know `request_changes` and
  `awaiting_human`, the statuses TECH-V1.md asks reviewers for: such an answer is
  malformed, and the reviewer runs again.
* `stale_selection`: the start's transaction validates the statuses and references
  again, not the prior tasks and dependencies. A sync that projects an earlier task
  while the worktree is prepared does not stop the later task. `leaders_stable` and
  the theorems show that this is the only way: as long as syncs add nothing, the
  missing check is not needed.

* `lost_parent`: SPEC-V1.md:721 wants a running task that left its sprint stopped and
  marked `awaiting_human`. The next synchronisation deletes its row
  (`replaceTasksWithinSprints`). Once findings or pull requests refer to the row, the
  foreign key refuses, and every later synchronisation of the sprint fails
  (`Pinned`, `Reject`).

The passing runs show what the code gets right by a narrow margin. A webhook never
replaces newer rows by older ones (`WebhookNeverGoesBack`, as SPEC-V1.md:643 asks)
only because its transaction has written before it reads: the mutant `OpensLate`
breaks it. A reconcile outside a webhook has no such lock, can write an older state
over a newer one, and the next one repairs it (`QuietSyncIsExact`, which is what
plan/tasks/Sprint-02/Task-03.md:41 says of incremental and full synchronisation). The
premises of `OneIssuePerItem`, `SyncedMeansUpToDate` and `SyncedMeansLinked` are cases in
which `sync-issues` does create an issue twice, leave an old text or leave a link out
without an error. One of them: a creation that lands late, with the text of its time, is
taken by `Recheck` for the one that has had no answer just now.

Each property of a passing run has a mutant in `PROJECT.json`: an operator beside the
real one (marked "Mutant" in the module) with a plausible bug that breaks it.

## Theorems

Every safety property that a passing run checks, invariant, action property or
refinement, is a theorem. All are for any callers, bounds and agent answers, under the
named assumptions on the constants (typing of the answers, `Nat` bounds, distinct
sequence numbers within a sprint, a torn file that is not a manifest; TLC evaluates them
on every run).

`TaskStageMachine_proofs` rests on `IInv`: types, `LogBehindRow` and `RunInv` of each
caller. Neither safety property is inductive by itself. A verdict is booked on the
attempt its agent worked on because a caller that gets as far as writing holds a
snapshot with the row's status and attempt (`RunInv` keeps what each program counter
implies of the snapshot), and a verdict is not decided twice because no event of the
log is ahead of the row's attempt and stage (`LogBehindRow`). From it:
`TypeCorrect`, `VerdictsFollowTheirAttempt`, `ParkedIsFinal` and `Refinement`
(the stage machine implements `TaskLifecycle`). `CallsComeToAnEnd` (`CallsWindDown`,
which no run checks) is the part of `CallsReturn` that needs no fairness: `StepsLeft` is a
variant of the loop of `RunTask`, which every step of a call decreases and no other step
raises, so that a call takes at most `5 * MaxStageTransitions + 2` steps, among any number
of other callers; that it takes them at all is the fairness `CallsReturn` assumes.

`TaskHistory_proofs` is about the same module. `RowRebuilds` (`RowRebuildsFromLog`) needs
`HInv`: `IInv`, that the newest event carries the row's status and attempt (`NewestTells`),
that each counter is the number of failures no success has come after (`CountersTell`), and
what makes this inductive although a counter is written from an old snapshot: of an attempt
the row is still at, a snapshot has the row's counters as long as the stage that counts has
no verdict (`SnapshotCounts`). `AnswersPark` (`AnsweredCallsPark`) and `AgentsAreUpToDate`
(`AgentsSeeCurrentWork`) are for one caller (`OneCaller`, a hypothesis of the theorems and
not of the module), any number of crashed calls, retries and takeovers. The restriction
belongs to the properties, and both are false without it: a call whose write is rejected
answers with the status another call is working on, and its agents may get artifacts that
the other call has superseded. That is why `one_caller` is the run that checks them. The
invariant is `OneCallInv`: a call's snapshot is the row, unless a human has parked the task
since; the refs it carries are those of the log, or, for a stage that is retried, of the
attempt it has still to decide (`RefsFresh`); and attempts only grow along the log, so that
the newest refs of a stage that passed are the current attempt's (`RefsInLog`).

`DecisionTable_proofs` proves the five properties of the decision table for every
payload, not only the enumerated ones.

`AgentProcess_proofs` proves, for any number of words, `TypeCorrect`, `AnswersAreWhole`
(`NothingCutOffIsBelieved`), `FailuresAreToldApart` (`CallersCanTell`) and `Refinement`: the
process implements `DecisionTable`, so that the table's theorems hold however the
execution came to its end. The invariant `IInv` says that the watcher's flag is exactly
what the watched part of the output says (`Watching`), that the watcher lags behind the
buffer only when the copying broke and that an output read to its end is complete
(`Copying`), and that a command which returned without an error is of a process that
ended well and was read to its end (`Returned`). The refinement needs `Unknown` beside it:
no execution is known before the payload was parsed.

`WorktreePrep_proofs`: `TypeCorrect`, `BasesAlwaysPublished`, `SprintAlwaysForward`,
`NewBranchesAlwaysCurrent` and `WorkAlwaysStays`, for any number of calls, tasks, worktree
roots, commits and faults. `TInv` is the types with the fact that a working or retryable
call names its task and root. `Safe` adds that what was fetched of the default and sprint
branches is still on the remote (`Fetched`) and, per place of a call, what its own memory
says of branches others may have moved since (`CallInv`); it is inductive because
branches only evolve (`Evolves`: fetched and remote branches grow, and the local
sprint branch grows but for late commits). `Kept`, for the last theorem, says that a
tree at a task's path is on that task's branch or on none (`OwnBranches`), that
calls for one task that overlap know it (`KnowEachOther`), and that what a call
which is alone has listed as stale still has no files, and that it looks only at trees of
its listing that are its task's or at its path (`ListInv`).

`LeaderScheduling_proofs`: `TypeCorrect` (with the fact that a call beyond selection
names an existing task), `SprintsOnlyMoveForward`, and, assuming that syncs add
nothing (`~ArrivalsAllowed`), `OneAtATime` and `InOrder`. The invariant `OrderInv` says
that the rows a selection has read never show a task as settled that is not
(`RowsHold`), that every task selected by a call (`HasItsTurn`) and every task in work
has its turn: its prior tasks and dependencies are settled. It is inductive because
settled tasks stay settled (`StatusSteps`, `TurnsLast`), which is why reading the rows in
several queries, and starting much later, does no harm. `StartsRecorded`
(`StartsAreRecordedOnce`) holds for every sync, label and crash; its invariant
`RecordInv` says that every start in the log is the task's only one and comes after its
selection and its sprint's initialisation (`StartsOrdered`), and that a task has been
started as far as its status and its attempt say (`AttemptFits`).

`GitHubSync_proofs`: the invariants are layers. `Types` says what each place of a
synchronisation has read (`Progress`). `TablesAlwaysAgree` (`TablesAgree`) is inductive by
itself over `Types`: `Apply` checks or repairs every reference it writes. `LockInvariance`
adds that nothing stored or read is newer than GitHub (`NothingNewer`) and that the caller
whose transaction holds the database has read nothing older than the tables (`LockInv`),
since nobody else can write meanwhile; `WebhooksNeverGoBack` and `DeliveriesTakeEffect`
follow, and they fail for a transaction that opens later, as the mutant `OpensLate`
shows. `QuietSyncsAreExact` needs `QuietInv`: what a call has read while GitHub stood
still is what GitHub holds (`ReadsExactly`); `Apply` then writes exactly that, whatever the
tables held before.

`IssueSync_proofs`: the type invariant `Types` contains that a manifest names an issue of
each of its items, also while others are created (`Growth`: issues are only added, and
keep their item), and that all items before the command's place are recorded as the plan
has them (`Progress`). `SyncsAreUpToDate` rests on `TextInv`: for items that are not
`adrift` or `Tardy`, GitHub shows what the manifests record. `SyncsAreLinked` rests on `LinkInv`: a
parent is an issue of the task's sprint, and the links are made up to the command's place
(`ParentDone`, `BlockersAreDone`). `NoItemTwice` (`OneIssuePerItem`) rests on `OnceInv`:
while the issues of a kind fit on a page the lookup sees all of an item's issues
(`LookupSeesAll`), so a creation begins only when there are none. The invariants speak of
the plan's order through `OrderedTasks`, which flattens a sequence of sequences; that
its elements are exactly the tasks is `OrderFacts`, proved from the definition of the
community modules' recursive function with a least counterexample (`LeastNumber`) in
place of an induction.

Only model-checked: `CallsReturn`, `RunsEnd` and `GetsThrough` of their machines (liveness
under fairness, and the `ENABLED` in it, is out of the prover's reach), and the four
violations, which are counterexamples. No module uses a `RECURSIVE` operator.

## Not modelled

* The outbox, which nothing writes; summaries, reasons and log lines; the wording of
  branch names and paths.
* What the model of `worktreeprep` shows and no property claims. A killed
  `git worktree add` leaves a locked tree with part of its files, which the next
  preparation reuses as it is (service.go:624). When another call moves the sprint
  branch between reading it and computing the merge base, a preparation reports a
  conflict that is none (service.go:189). After a crash between creating the sprint
  branch and pushing it, the old branch is pushed even if the default branch moved on.
  Two overlapping preparations of one task can remove each other's new worktree, because
  the removal goes by path; the leader's lock per task prevents it, the command line
  has none (`alone`). A locked tree whose directory is gone, and something else in
  the place of a tree that is not locked, make every retry fail (`Jammed`); another
  directory in the place of a locked tree is taken for the worktree, because
  `isStaleWorktree` asks only whether it is a directory.
* Lock files that a killed git leaves, malformed requests (refused before anything is
  done), several sprints in one repository (they share the default branch only).
* What becomes of an agent whose toolhub dies (nothing ends it); lines of output beyond
  `bufio.Scanner`'s limit; a rate limit marker that an agent merely quotes, which the
  watcher takes for one on purpose; the search for the artifacts of earlier runs, which
  only adds references to a prompt; prompts, command lines and settings.
* The row of a blocked developer keeps the fingerprint it had before (run.go:590), though
  SPEC-V1.md:405 calls the column the latest failure's. `TaskStageMachine` models the
  write as it is; no run is devoted to it.
* `recordCIFailure`, which nothing calls.
* CI runs in the projection, and the pull requests of sprints: both are projected like
  the pull requests of tasks. Checks on the titles and numbers of sprints.
* The text of issues: how the plan is parsed and rendered. Sprints and tasks that join or
  leave the plan: its set of items is fixed, their texts and dependencies change. (A
  dependency that is dropped stays on GitHub: `syncDependencies` only adds; no property
  of `IssueSync` says otherwise.) An update of an issue that GitHub carries out after
  a later update. A list of issues that lags behind GitHub for an issue whose creation was
  answered.
* Everything listed as `not_modelled` in `PROJECT.json`: commands, configuration,
  logging, wiring; and, for now, the components of the plan below.

## Plan

Done: the stage machine, the agent's process, the leader, the preparation of worktrees, the
two synchronisations. Left, in this order:

1. `LeaderScheduling` with the actions of `GitHubSync` in place of `Arrive`: starts
   while rows are deleted and renumbered under the leader.
2. Leader and stage machine composed: a started task handed to `RunTask`, and what a
   crash in `dev_in_progress` leaves for the leader, which offers `todo` and
   `in_progress` only.
3. An abstract specification of the projection (the rows of a sprint are some state
   GitHub was in, for snapshots nothing disturbs), with `GitHubSync` refining it.
4. Proofs: all safety properties are proved. Next, the abstract specifications of 2 and 3
   and their refinements, from the invariants that are there.
