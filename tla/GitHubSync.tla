----------------------------- MODULE GitHubSync -----------------------------
(***************************************************************************)
(* The projection of GitHub into the database: full reconciles, webhooks   *)
(* and reconciles of one issue or pull request (internal/githubsync, and   *)
(* ApplyGitHubProjection of internal/store).                               *)
(*                                                                         *)
(* Every operation reads GitHub in many calls and writes what it has read  *)
(* in one transaction.  GitHub changes between the calls, and operations   *)
(* overlap.  A webhook makes its calls inside the transaction that has     *)
(* inserted its event: until it ends nobody else can write.                *)
(*                                                                         *)
(* GitHub's issues and pull requests carry the number of the change that   *)
(* made them what they are (ver), so that old and new can be told apart.   *)
(* CI runs, which are projected like pull requests, are left out, and so   *)
(* is the pull request of a sprint.                                        *)
(***************************************************************************)
EXTENDS Naturals, FiniteSets, Functions

CONSTANTS
  Sprints,     \* the sprint issues
  Issues,      \* the task issues, by number
  Ids,         \* the ids a task title can have
  SprintOf,    \* the sprint in a task id
  SequenceNo,  \* the order in which tasks are written: by sprint, then by number
  SprintNo,    \* the order in which sprints are read
  FirstId,     \* the title each issue starts with
  Known,       \* the sprints an earlier synchronisation has projected
  BlockedBy,   \* for each issue, the issues GitHub lists as blocking it
  Callers,     \* the processes and requests that synchronise
  Asked,       \* bound: the things somebody asks to have reconciled
  Worked,      \* bound: the tasks that are worked on meanwhile
  Changing,    \* bound: the things that change on GitHub
  None,        \* no sprint, no caller, no target
  MaxEdits,    \* bound: changes on GitHub
  MaxCalls     \* bound: operations begun

\* What a webhook can be about; a pull request is named by the task id in its
\* branch, and a task has one at most.
Things == Sprints \union Issues \union Ids

ASSUME GitHubAssumption ==
  /\ SprintNo \in [Sprints -> Nat] /\ IsInjective(SprintNo)
  /\ SprintOf \in [Ids -> Sprints] /\ SequenceNo \in [Ids -> Nat] /\ IsInjective(SequenceNo)
  /\ FirstId \in [Issues -> Ids] /\ IsInjective(FirstId)
  /\ BlockedBy \in [Issues -> SUBSET Issues]
  /\ \A k \in Issues : \A b \in BlockedBy[k] : SprintOf[FirstId[b]] = SprintOf[FirstId[k]]
  /\ Sprints \intersect Issues = {} /\ Sprints \intersect Ids = {} /\ Issues \intersect Ids = {}
  /\ None \notin Things \union Callers
  /\ Known \subseteq Sprints /\ Asked \union Changing \subseteq Things /\ Worked \subseteq Ids
  /\ {MaxEdits, MaxCalls} \subseteq Nat

VARIABLES
  sprint, issue, pull,   \* GitHub: the issues of the sprints and tasks, the pull requests
  parent,                \* GitHub: the sprint an issue is a sub-issue of
  sent,                  \* the webhooks GitHub has sent
  sprints, tasks, prs,   \* the tables, as functions from ids to rows
  findings,              \* the tasks that rows of review_findings refer to
  events,                \* the webhooks the events table has
  lock,                  \* the caller whose open transaction has written
  call,                  \* what each caller is doing
  edits, calls

github == <<sprint, issue, pull, parent, sent, edits>>
tables == <<sprints, tasks, prs>>
vars == <<github, tables, findings, events, lock, call, calls>>

Empty == [x \in {} |-> 0]
Put(f, x, v) == [y \in DOMAIN f \union {x} |-> IF y = x THEN v ELSE f[y]]
\* todo: open sprints still to be searched for the target; scope: the sprints
\* read, with found (their issues), kids (their sub-issues), seen (the issues
\* read); quiet: GitHub has not changed since the operation began.
Idle == [op |-> "none", at |-> "idle", target |-> None, ver |-> 0, todo |-> {}, scope |-> {},
         open |-> {}, found |-> Empty, kids |-> Empty, seen |-> Empty, pulls |-> Empty,
         quiet |-> TRUE]

\* The database shows what GitHub was when Known were its open sprints.
Init ==
  /\ sprint = [s \in Sprints |-> [open |-> TRUE, ver |-> 0]]
  /\ issue = [k \in Issues |-> [id |-> FirstId[k], open |-> TRUE, ver |-> 0]]
  /\ parent = [k \in Issues |-> SprintOf[FirstId[k]]]
  /\ pull = [i \in Ids |-> [state |-> "none", ver |-> 0]]
  /\ sent = {} /\ events = {} /\ findings = {} /\ prs = Empty
  /\ sprints = [s \in Known |-> 0]
  /\ tasks = [i \in {j \in Range(FirstId) : SprintOf[j] \in Known} |->
       LET k == CHOOSE n \in Issues : FirstId[n] = i
       IN  [num |-> k, ver |-> 0, status |-> "todo", pr |-> FALSE,
            deps |-> {FirstId[b] : b \in BlockedBy[k]}]]
  /\ lock = None
  /\ call = [c \in Callers |-> Idle]
  /\ edits = 0 /\ calls = 0

-----------------------------------------------------------------------------
(* How an operation begins.                                                *)

\* Mutant: the tables are not asked.
UntrackedSprints(x) == {x} \intersect Sprints

\* Mutant: the query selects the number of the task's issue.
OwnNumber(x) == {x}

\* FindTrackedSprintIssueNumbersForIssue, ...BySprintID: the sprints that the
\* tables know for a target.  A pull request names its sprint in its branch.
TrackedSprints(x) ==
  CASE x \in Sprints -> {x}
    [] x \in Ids     -> {SprintOf[x]} \intersect DOMAIN sprints
    [] OTHER         -> {SprintOf[i] : i \in {j \in DOMAIN tasks : tasks[j].num = x}}

\* A sprint issue, and a pull request whose sprint the tables know, need no
\* search of GitHub's open sprints.
Begin(c, op, x, v) ==
  /\ call[c].at = "idle" /\ calls < MaxCalls
  /\ calls' = calls + 1
  /\ call' = [call EXCEPT ![c] =
       [Idle EXCEPT !.op = op, !.target = x, !.ver = v,
          !.scope = IF x = None THEN {} ELSE TrackedSprints(x),
          !.at = IF x \in Sprints \/ (x \in Ids /\ TrackedSprints(x) # {}) THEN "read" ELSE "list"]]

FullReconcile(c) ==
  /\ Begin(c, "full", None, 0)
  /\ UNCHANGED <<github, tables, findings, events, lock>>

\* reconcile_issue and reconcile_pull_request, outside any transaction.
Reconcile(c, x) ==
  /\ Begin(c, "reconcile", x, 0)
  /\ UNCHANGED <<github, tables, findings, events, lock>>

\* Mutant: the transaction begins when GitHub has been read.
OpensLate(c) == UNCHANGED lock

Opens(c) == lock' = c

\* ingestWebhook: the event is inserted first, in the transaction that stays open
\* while GitHub is read.  A delivery whose event is there is dropped.
Receive(c, d) ==
  /\ lock = None /\ d \notin events
  /\ Begin(c, "webhook", d.target, d.ver)
  /\ Opens(c)
  /\ UNCHANGED <<github, tables, findings, events>>

-----------------------------------------------------------------------------
(* How it reads GitHub.                                                    *)

Read(c) == UNCHANGED <<github, tables, findings, events, lock, calls>>
OpenSprints == {s \in Sprints : sprint[s].open}

\* ListSprintIssues returns the open ones.  A full reconcile takes them all, a
\* pull request its own, an issue goes on to search each of them.
ListSprints(c) ==
  /\ call[c].at = "list"
  /\ LET x == call[c].target IN
     call' = [call EXCEPT ![c] =
       IF x = None
       THEN [@ EXCEPT !.at = "tasks", !.scope = OpenSprints,
                      !.found = [s \in OpenSprints |-> sprint[s].ver]]
       ELSE IF x \in Ids
       THEN [@ EXCEPT !.at = "read", !.scope = {SprintOf[x]} \intersect OpenSprints]
       ELSE [@ EXCEPT !.at = "read", !.todo = OpenSprints]]
  /\ Read(c)

ListOpenTasks(c) ==
  /\ call[c].at = "tasks"
  /\ call' = [call EXCEPT ![c].at = "read", ![c].open = {k \in Issues : issue[k].open}]
  /\ Read(c)

IsNext(s, S) == s \in S /\ \A t \in S : SprintNo[s] <= SprintNo[t]

\* findOpenParentSprintIssueNumbersForTask, one sprint at a time.
SearchSprint(c, s) ==
  /\ call[c].at = "read" /\ IsNext(s, call[c].todo)
  /\ call' = [call EXCEPT ![c].todo = @ \ {s},
                          ![c].scope = IF parent[call[c].target] = s THEN @ \union {s} ELSE @]
  /\ Read(c)

\* loadSprints, loadScopedSprints: the sub-issues of a sprint, and its issue where
\* it was not listed before.
ReadSprint(c, s) ==
  LET r == call[c] IN
  /\ r.at = "read" /\ r.todo = {} /\ IsNext(s, r.scope \ DOMAIN r.kids)
  /\ call' = [call EXCEPT
       ![c].found = IF s \in DOMAIN @ THEN @ ELSE Put(@, s, sprint[s].ver),
       ![c].kids = Put(@, s, {k \in Issues : parent[k] = s})]
  /\ Read(c)

Kids(r) == UNION Range(r.kids)
AllSprintsRead(r) == r.at = "read" /\ r.todo = {} /\ r.scope = DOMAIN r.kids

\* loadTasksAndDependencies.
ReadIssue(c, k) ==
  LET r == call[c] IN
  /\ AllSprintsRead(r) /\ k \in Kids(r) \ DOMAIN r.seen
  /\ call' = [call EXCEPT ![c].seen = Put(@, k, issue[k])]
  /\ Read(c)

\* buildSnapshot: all pull requests, in one call.
ListPullRequests(c) ==
  LET r == call[c] IN
  /\ AllSprintsRead(r) /\ Kids(r) = DOMAIN r.seen
  /\ call' = [call EXCEPT ![c].at = "apply", ![c].pulls = pull]
  /\ Read(c)

-----------------------------------------------------------------------------
(* How it writes.  r is the record of the operation.                       *)

IdsOf(r) == {n.id : n \in Range(r.seen)}
IssueOf(r, i) == CHOOSE k \in DOMAIN r.seen : r.seen[k].id = i

\* What the loaders and projectPullRequests refuse: an issue under two sprints or
\* under the wrong one, two issues with one id, an open task under no open sprint
\* (full reconciles only), a dependency that is not projected in the same sprint,
\* a task branch in a refreshed sprint whose task is not there.
WellFormed(r) ==
  /\ \A s, t \in r.scope : s # t => r.kids[s] \intersect r.kids[t] = {}
  /\ \A s \in r.scope : \A k \in r.kids[s] : SprintOf[r.seen[k].id] = s
  /\ \A k, l \in DOMAIN r.seen : r.seen[k].id = r.seen[l].id => k = l
  /\ r.open \subseteq DOMAIN r.seen
  /\ \A k \in DOMAIN r.seen : \A b \in BlockedBy[k] :
       b \in DOMAIN r.seen /\ SprintOf[r.seen[b].id] = SprintOf[r.seen[k].id]
  /\ \A i \in Ids : r.pulls[i].state # "none" /\ SprintOf[i] \in r.scope => i \in IdsOf(r)

\* Mutant: tasks that left their sprint keep their rows.
NothingStale(r) == {}

\* replaceTasksWithinSprints deletes these rows, unless rows of other tables
\* refer to them (ON DELETE RESTRICT): the pull requests are replaced later.
Stale(r) == {i \in DOMAIN tasks : SprintOf[i] \in r.scope} \ IdsOf(r)
Pinned(r) == Stale(r) \intersect (findings \union DOMAIN prs) # {}

\* An upsert meets UNIQUE (github_issue_number): another row still has the number,
\* because it is written later or belongs to a sprint that is not refreshed.
NumberTaken(r) ==
  \E i \in IdsOf(r), j \in DOMAIN tasks \ Stale(r) :
    /\ i # j /\ tasks[j].num = IssueOf(r, i)
    /\ j \in IdsOf(r) => SequenceNo[j] > SequenceNo[i]

\* defaultProjectedStatus: the status of a row that is inserted.
ProjectedStatus(open) == IF open THEN "todo" ELSE "done"

\* Mutant: the state of the pull request is not looked at.
ActiveInAnyState(r, i) == r.pulls[i].state # "none"

\* updateActivePullRequestRefs
IsActive(r, i) == r.pulls[i].state = "open"

\* upsertTaskDefinition, replaceTaskDependencies.
TaskRow(r, i) ==
  LET k == IssueOf(r, i) IN
  [num |-> k, ver |-> r.seen[k].ver, pr |-> IsActive(r, i),
   status |-> IF i \in DOMAIN tasks THEN tasks[i].status ELSE ProjectedStatus(r.seen[k].open),
   deps |-> {r.seen[b].id : b \in BlockedBy[k]}]

PullsAfter(r) ==
  {i \in Ids : IF SprintOf[i] \in r.scope THEN r.pulls[i].state # "none" ELSE i \in DOMAIN prs}

Delivery(r) == [target |-> r.target, ver |-> r.ver]
Done(c) == call' = [call EXCEPT ![c] = Idle] /\ lock' = IF lock = c THEN None ELSE lock

\* ApplyGitHubProjection, and the commit of a webhook's event.
Apply(c) ==
  LET r == call[c] IN
  /\ r.at = "apply" /\ lock \in {None, c}
  /\ WellFormed(r) /\ ~Pinned(r) /\ ~NumberTaken(r)
  /\ sprints' = [s \in DOMAIN sprints \union r.scope |->
                   IF s \in r.scope THEN r.found[s] ELSE sprints[s]]
  /\ tasks' = [i \in (DOMAIN tasks \ Stale(r)) \union IdsOf(r) |->
                 IF i \in IdsOf(r) THEN TaskRow(r, i) ELSE tasks[i]]
  /\ prs' = [i \in PullsAfter(r) |-> IF SprintOf[i] \in r.scope THEN r.pulls[i] ELSE prs[i]]
  /\ events' = IF r.op = "webhook" THEN events \union {Delivery(r)} ELSE events
  /\ Done(c)
  /\ UNCHANGED <<github, findings, calls>>

\* Nothing is written, and a webhook's event is rolled back.
Reject(c) ==
  LET r == call[c] IN
  /\ r.at = "apply"
  /\ \/ ~WellFormed(r)
     \/ lock \in {None, c} /\ (Pinned(r) \/ NumberTaken(r))
  /\ Done(c)
  /\ UNCHANGED <<github, tables, findings, events, calls>>

\* A call to GitHub fails, the database is busy, the process ends.
Abort(c) ==
  /\ call[c].at # "idle"
  /\ Done(c)
  /\ UNCHANGED <<github, tables, findings, events, calls>>

-----------------------------------------------------------------------------
(* What the leader and the orchestrator do with a task meanwhile.          *)

StartTask(i) ==
  /\ lock = None /\ i \in DOMAIN tasks /\ tasks[i].status = "todo"
  /\ tasks' = [tasks EXCEPT ![i].status = "in_progress"]
  /\ UNCHANGED <<github, sprints, prs, findings, events, lock, call, calls>>

RecordFinding(i) ==
  /\ lock = None /\ i \in DOMAIN tasks \ findings /\ tasks[i].status = "in_progress"
  /\ findings' = findings \union {i}
  /\ UNCHANGED <<github, tables, events, lock, call, calls>>

(* What people, and pushes, do on GitHub.  A change of an issue or a pull  *)
(* request sends a webhook; a change of parent sends one the code ignores. *)

Change ==
  /\ edits < MaxEdits /\ edits' = edits + 1
  /\ call' = [c \in Callers |-> [call[c] EXCEPT !.quiet = call[c].at = "idle"]]
  /\ UNCHANGED <<tables, findings, events, lock, calls>>
Sends(x) == sent' = sent \union {[target |-> x, ver |-> edits + 1]}

EditIssue(k) ==
  /\ Change
  /\ \E i \in Ids, open \in BOOLEAN :
       /\ i = issue[k].id <=> open # issue[k].open
       /\ issue' = [issue EXCEPT ![k] = [id |-> i, open |-> open, ver |-> edits + 1]]
  /\ Sends(k)
  /\ UNCHANGED <<sprint, pull, parent>>

MoveIssue(k) ==
  /\ Change
  /\ \E s \in (Sprints \union {None}) \ {parent[k]} : parent' = [parent EXCEPT ![k] = s]
  /\ UNCHANGED <<sprint, issue, pull, sent>>

CloseOrReopenSprint(s) ==
  /\ Change
  /\ sprint' = [sprint EXCEPT ![s] = [open |-> ~@.open, ver |-> edits + 1]]
  /\ Sends(s)
  /\ UNCHANGED <<issue, pull, parent>>

EditPull(i) ==
  /\ Change
  /\ \E k \in Issues : issue[k].id = i
  /\ \E p \in {"open", "merged"} :
       /\ p = "merged" => pull[i].state = "open"
       /\ pull' = [pull EXCEPT ![i] = [state |-> p, ver |-> edits + 1]]
  /\ pull[i].state # "merged"
  /\ Sends(i)
  /\ UNCHANGED <<sprint, issue, parent>>

Next ==
  \/ \E c \in Callers :
       \/ FullReconcile(c) \/ ListSprints(c) \/ ListOpenTasks(c) \/ ListPullRequests(c)
       \/ Apply(c) \/ Reject(c) \/ Abort(c)
       \/ \E x \in Asked : Reconcile(c, x)
       \/ \E d \in sent : Receive(c, d)
       \/ \E s \in Sprints : SearchSprint(c, s) \/ ReadSprint(c, s)
       \/ \E k \in Issues : ReadIssue(c, k)
  \/ \E i \in Worked : StartTask(i) \/ RecordFinding(i)
  \/ \E i \in Ids \intersect Changing : EditPull(i)
  \/ \E k \in Issues \intersect Changing : EditIssue(k) \/ MoveIssue(k)
  \/ \E s \in Sprints \intersect Changing : CloseOrReopenSprint(s)

Spec == Init /\ [][Next]_vars

-----------------------------------------------------------------------------
Versions == 0..MaxEdits
IssueStates == [id : Ids, open : BOOLEAN, ver : Versions]
PullStates == [state : {"none", "open", "merged"}, ver : Versions]
Targets == [target : Things, ver : Versions]
TaskRows == [num : Issues, ver : Versions, status : {"todo", "in_progress", "done"},
             pr : BOOLEAN, deps : SUBSET Ids]

(* Every variable has its type.                                            *)
TypeOK ==
  /\ sprint \in [Sprints -> [open : BOOLEAN, ver : Versions]]
  /\ issue \in [Issues -> IssueStates] /\ parent \in [Issues -> Sprints \union {None}]
  /\ pull \in [Ids -> PullStates]
  /\ sent \subseteq Targets /\ events \subseteq sent
  /\ DOMAIN sprints \subseteq Sprints /\ Range(sprints) \subseteq Versions
  /\ DOMAIN tasks \subseteq Ids /\ Range(tasks) \subseteq TaskRows
  /\ DOMAIN prs \subseteq Ids /\ Range(prs) \subseteq PullStates
  /\ findings \subseteq Ids /\ lock \in Callers \union {None}
  /\ \A c \in Callers :
       LET r == call[c] IN
       /\ r.op \in {"none", "full", "reconcile", "webhook"}
       /\ r.at \in {"idle", "list", "tasks", "read", "apply"}
       /\ r.target \in Things \union {None} /\ r.ver \in Versions
       /\ r.todo \union r.scope \union DOMAIN r.found \union DOMAIN r.kids \subseteq Sprints
       /\ r.open \union DOMAIN r.seen \subseteq Issues /\ r.quiet \in BOOLEAN
       /\ Range(r.seen) \subseteq IssueStates /\ Range(r.pulls) \subseteq PullStates
  /\ edits \in 0..MaxEdits /\ calls \in 0..MaxCalls

(* The tables agree with each other, whatever snapshots have been written  *)
(* in whatever order: an issue is one task at most, a task's active pull   *)
(* request is the open one in the table, and dependencies, findings, pull  *)
(* requests and tasks refer to rows that exist, dependencies within the    *)
(* sprint.                                                                 *)
TablesAgree ==
  /\ \A i, j \in DOMAIN tasks : tasks[i].num = tasks[j].num => i = j
  /\ \A i \in DOMAIN tasks :
       /\ tasks[i].pr <=> i \in DOMAIN prs /\ prs[i].state = "open"
       /\ SprintOf[i] \in DOMAIN sprints
       /\ \A d \in tasks[i].deps : d \in DOMAIN tasks /\ SprintOf[d] = SprintOf[i]
  /\ findings \union DOMAIN prs \subseteq DOMAIN tasks

\* The versions the tables show of a thing: one, or none.
Shown(x) ==
  {sprints[s] : s \in {x} \intersect DOMAIN sprints}
    \union {tasks[i].ver : i \in {j \in DOMAIN tasks : tasks[j].num = x}}
    \union {prs[i].ver : i \in {x} \intersect DOMAIN prs}

(* A webhook never replaces a newer state of anything by an older one: it  *)
(* reads GitHub when all others that read before have written.  (A full    *)
(* reconcile, or one of a single issue, can, and the next one repairs it.) *)
WebhookNeverGoesBack ==
  [][\A c \in Callers : Apply(c) /\ call[c].op = "webhook" =>
       \A x \in Things : \A v \in Shown(x), w \in Shown(x)' : v <= w]_vars

(* When the event of a webhook is committed, the tables show the change it *)
(* tells of, or a later one, or do not show the thing at all.              *)
DeliveryTakesEffect ==
  [][\A d \in events' \ events : \A v \in Shown(d.target)' : d.ver <= v]_vars

\* The open sprints an operation is about, and the rows their tasks should have.
Due(r) ==
  {s \in OpenSprints : r.op = "full" \/ r.target = s
     \/ (r.target \in Issues /\ parent[r.target] = s)
     \/ (r.target \in Ids /\ SprintOf[r.target] = s)}
Expected(s) ==
  {[id |-> issue[k].id, num |-> k, ver |-> issue[k].ver, pr |-> pull[issue[k].id].state = "open",
    deps |-> {issue[b].id : b \in BlockedBy[k]}] : k \in {n \in Issues : parent[n] = s}}
RowsOf(s) ==
  {[id |-> i, num |-> tasks[i].num, ver |-> tasks[i].ver, pr |-> tasks[i].pr,
    deps |-> tasks[i].deps] : i \in {j \in DOMAIN tasks : SprintOf[j] = s}}

(* An operation during which GitHub stood still leaves, for the sprints it *)
(* is about, exactly GitHub's tasks in the table: a webhook or a reconcile *)
(* of one issue no less than a full one, whatever was written before it    *)
(* and while it read.                                                      *)
QuietSyncIsExact ==
  [][\A c \in Callers : Apply(c) /\ call[c].quiet =>
       \A s \in Due(call[c]) : RowsOf(s)' = Expected(s)]_vars

(* A task that is being worked on and that is moved, renumbered or loses   *)
(* its parent is to be handed to a human (awaiting_human); so its row has  *)
(* to survive the synchronisation that finds this out.                     *)
RunningTasksStay ==
  [][\A i \in DOMAIN tasks : tasks[i].status = "in_progress" => i \in DOMAIN tasks']_vars
=============================================================================
