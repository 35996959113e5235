---------------------------- MODULE WorktreePrep ----------------------------
(***************************************************************************)
(* prepare-worktree-tool (internal/worktreeprep) on the git repository of  *)
(* one sprint: the local branches, what was last fetched, the remote, the  *)
(* registered worktrees and their directories.  A call runs one git        *)
(* command after the other; calls for the same sprint, and for the same    *)
(* task, overlap, because the lock of the leader is per task and the       *)
(* command line takes none.                                                *)
(*                                                                         *)
(* A revision is the set of commits reachable from it: {} is a branch that *)
(* does not exist, \subseteq is "can be fast-forwarded to", and the merge  *)
(* base of two branches is their intersection.                             *)
(***************************************************************************)
EXTENDS Naturals

CONSTANTS
    Calls,            \* invocations that may run at the same time
    Tasks,            \* the tasks of the sprint, which name their branches
    Roots,            \* values of worktree_root
    Default, Sprint,  \* the default branch and the branch of the sprint
    Main,             \* the checkout the repository was cloned into
    None,
    Clones,           \* the branches there may be to start with, remote and local
    MaxEvents,        \* what people, agents and GitHub do meanwhile
    MaxFaults         \* git commands that fail and processes that die

Branches == {Default, Sprint} \cup Tasks
Paths    == Roots \X Tasks
Places   == Paths \cup {Main}
Refs     == [Branches -> SUBSET Nat]
NoRefs   == [b \in Branches |-> {}]
Tree     == [branch : Branches \cup {None}, locked : BOOLEAN]
Listed   == [branch : Branches \cup {None}, prunable : BOOLEAN]

ASSUME WorktreeAssumptions ==
    /\ Default # Sprint
    /\ {Default, Sprint} \cap Tasks = {}
    /\ None \notin Branches \cup Tree \cup Listed
    /\ Main \notin Paths
    /\ Clones \subseteq [origin : Refs, heads : Refs]
    /\ MaxEvents \in Nat
    /\ MaxFaults \in Nat

VARIABLES
    origin,    \* the branches on the remote
    tracking,  \* refs/remotes/origin, as of the last fetch or push
    heads,     \* refs/heads
    trees,     \* the registered worktrees, by path
    disk,      \* what is at the path of each worktree
    call,      \* the calls, with what each has read so far
    late,      \* commits made to the local sprint branch during a call
    events, faults

refs == <<origin, tracking, heads>>
env  == <<late, events>>
vars == <<refs, trees, disk, call, env, faults>>

Working  == {"fetch", "sprint", "compare", "checkedOut", "force", "adopt",
             "fresh", "push", "task", "branch", "list", "stale", "add", "base"}
Answers  == {"ok", "conflict", "git_failed", "invalid"}
Foreign  == {"file", "directory"}   \* something else, where a worktree belongs
Disk     == {"absent", "torn", "full"} \cup Foreign

NoList   == [p \in Places |-> None]

Idle == [pc |-> "idle", task |-> None, root |-> None, seen |-> NoRefs,
         current |-> {}, own |-> FALSE, list |-> NoList, left |-> {},
         removed |-> FALSE, base |-> {}, alone |-> TRUE]

CallRecord ==
    [pc : Working \cup Answers \cup {"idle"}, task : Tasks \cup {None},
     root : Roots \cup {None}, seen : Refs, current : SUBSET Nat,
     own : BOOLEAN, list : [Places -> Listed \cup {None}],
     left : SUBSET Places, removed : BOOLEAN, base : SUBSET Nat, alone : BOOLEAN]

TypeOK ==
    /\ origin \in Refs /\ tracking \in Refs /\ heads \in Refs
    /\ trees \in [Places -> Tree \cup {None}] /\ trees[Main] # None
    /\ disk \in [Places -> Disk]
    /\ call \in [Calls -> CallRecord]
    /\ late \in SUBSET Nat
    /\ events \in 0 .. MaxEvents
    /\ faults \in 0 .. MaxFaults

(* A clone as it was left, with the default branch checked out if it is    *)
(* there; no worktree yet.                                                 *)
Init ==
    /\ \E clone \in Clones : origin = clone.origin /\ heads = clone.heads
    /\ tracking = origin
    /\ trees = [p \in Places |->
          IF p # Main THEN None
          ELSE [branch |-> IF heads[Default] = {} THEN None ELSE Default,
                locked |-> FALSE]]
    /\ disk = [p \in Places |-> IF p = Main THEN "full" ELSE "absent"]
    /\ call = [c \in Calls |-> Idle]
    /\ late = {} /\ events = 0 /\ faults = 0
-----------------------------------------------------------------------------
At(c, pc) == call[c].pc = pc
Busy(c)   == call[c].pc \in Working
TaskOf(c) == call[c].task
Desired(c) == <<call[c].root, call[c].task>>

Become(c, me) == call' = [call EXCEPT ![c] = me]
Goto(c, pc)   == Become(c, [call[c] EXCEPT !.pc = pc])

\* A mutant: asToolError does not know the error.
AnsweredInternal(c, answer) ==
    [Idle EXCEPT !.pc = IF answer = "git_failed" THEN "internal" ELSE answer]

(* An answer without a worktree; what a retry needs is kept.               *)
Answered(c, answer) ==
    IF answer = "git_failed"
    THEN [Idle EXCEPT !.pc = answer, !.task = TaskOf(c), !.root = call[c].root]
    ELSE [Idle EXCEPT !.pc = answer]
Answer(c, answer) == Become(c, Answered(c, answer))

HeldBy(b) == {p \in Places : trees[p] # None /\ trees[p].branch = b}

(* A call for a request; it is alone as long as no other call works on the *)
(* same task.                                                              *)
Entered(c, t, r) ==
    [d \in Calls |->
        IF d = c THEN [Idle EXCEPT !.pc = "fetch", !.task = t, !.root = r,
                          !.alone = \A e \in Calls \ {c} : ~(Busy(e) /\ TaskOf(e) = t)]
        ELSE IF Busy(d) /\ TaskOf(d) = t THEN [call[d] EXCEPT !.alone = FALSE]
        ELSE call[d]]

Begin(c, t, r) ==
    /\ ~Busy(c) /\ ~At(c, "git_failed")
    /\ call' = Entered(c, t, r)
    /\ UNCHANGED <<refs, trees, disk, env, faults>>

(* git_failed is the retryable answer: the same request again.             *)
Retry(c) ==
    /\ At(c, "git_failed")
    /\ call' = Entered(c, TaskOf(c), call[c].root)
    /\ UNCHANGED <<refs, trees, disk, env, faults>>
-----------------------------------------------------------------------------
(* git fetch --prune.                                                      *)
Fetch(c) ==
    /\ At(c, "fetch")
    /\ tracking' = origin
    /\ Become(c, [call[c] EXCEPT !.pc = "sprint", !.seen = origin])
    /\ UNCHANGED <<origin, heads, trees, disk, env, faults>>

\* A mutant: a local sprint branch is taken for a published one.
LocalIsEnough ==
    IF heads[Sprint] = {} THEN (IF tracking[Sprint] = {} THEN "fresh" ELSE "adopt")
    ELSE IF tracking[Sprint] \in {{}, heads[Sprint]} THEN "task" ELSE "compare"

(* What ensureSprintBranch does next, by which of the branches exist.      *)
SprintCase ==
    CASE tracking[Sprint] # {} /\ heads[Sprint] = {} -> "adopt"
      [] tracking[Sprint] # {} /\ heads[Sprint] = tracking[Sprint] -> "task"
      [] tracking[Sprint] # {} /\ heads[Sprint] \notin {{}, tracking[Sprint]} -> "compare"
      [] tracking[Sprint] = {} /\ heads[Sprint] # {} -> "push"
      [] OTHER -> "fresh"

\* A mutant: a sprint branch that exists is used as it is.
UseSprintAsItIs(c) ==
    /\ At(c, "sprint")
    /\ Goto(c, IF SprintCase = "compare" THEN "task" ELSE SprintCase)
    /\ UNCHANGED <<refs, trees, disk, env, faults>>

InspectSprint(c) ==
    /\ At(c, "sprint")
    /\ Become(c, [call[c] EXCEPT
                     !.pc = SprintCase,
                     !.current = IF SprintCase = "compare" THEN heads[Sprint] ELSE {}])
    /\ UNCHANGED <<refs, trees, disk, env, faults>>

(* git merge-base fails on unrelated histories.                            *)
HaveCommonHistory(c) == heads[Sprint] \cap tracking[Sprint] # {}

(* canFastForwardBranch: the merge base is computed from the branches as   *)
(* they are now, and compared with the head read before.                   *)
CanFastForward(c) == heads[Sprint] \cap tracking[Sprint] = call[c].current

Compare(c) ==
    /\ At(c, "compare")
    /\ IF CanFastForward(c)
       THEN Become(c, [call[c] EXCEPT !.pc = "checkedOut", !.current = {}])
       ELSE Answer(c, IF HaveCommonHistory(c) THEN "conflict" ELSE "git_failed")
    /\ UNCHANGED <<refs, trees, disk, env, faults>>

CheckCheckedOut(c) ==
    /\ At(c, "checkedOut")
    /\ IF HeldBy(Sprint) = {} THEN Goto(c, "force") ELSE Answer(c, "conflict")
    /\ UNCHANGED <<refs, trees, disk, env, faults>>

(* git branch --force: git itself refuses a branch that is checked out.    *)
ForceBranch(c) ==
    /\ At(c, "force")
    /\ IF HeldBy(Sprint) = {}
       THEN /\ heads' = [heads EXCEPT ![Sprint] = tracking[Sprint]]
            /\ Goto(c, "task")
       ELSE Answer(c, "git_failed") /\ UNCHANGED heads
    /\ UNCHANGED <<origin, tracking, trees, disk, env, faults>>

(* git branch b start: fails when the branch exists.                       *)
NewBranch(c, b, start, next) ==
    IF heads[b] = {} /\ start # {}
    THEN /\ heads' = [heads EXCEPT ![b] = start]
         /\ Become(c, [call[c] EXCEPT !.pc = next, !.own = FALSE])
    ELSE Answer(c, "git_failed") /\ UNCHANGED heads

Adopt(c) ==
    /\ At(c, "adopt")
    /\ NewBranch(c, Sprint, tracking[Sprint], "task")
    /\ UNCHANGED <<origin, tracking, trees, disk, env, faults>>

StartPoint == IF tracking[Default] # {} THEN tracking[Default] ELSE heads[Default]

CreateSprint(c) ==
    /\ At(c, "fresh")
    /\ IF StartPoint = {} THEN Answer(c, "invalid") /\ UNCHANGED heads
       ELSE NewBranch(c, Sprint, StartPoint, "push")
    /\ UNCHANGED <<origin, tracking, trees, disk, env, faults>>

(* git push: the remote accepts what extends its branch.                   *)
Accepted == origin[Sprint] \subseteq heads[Sprint]

Push(c) ==
    /\ At(c, "push")
    /\ IF Accepted
       THEN /\ origin' = [origin EXCEPT ![Sprint] = heads[Sprint]]
            /\ tracking' = [tracking EXCEPT ![Sprint] = heads[Sprint]]
            /\ Goto(c, "task")
       ELSE Answer(c, "git_failed") /\ UNCHANGED <<origin, tracking>>
    /\ UNCHANGED <<heads, trees, disk, env, faults>>
-----------------------------------------------------------------------------
InspectTask(c) ==
    /\ At(c, "task")
    /\ IF heads[TaskOf(c)] # {}
       THEN Goto(c, "list")
       ELSE Become(c, [call[c] EXCEPT !.pc = "branch", !.own = tracking[TaskOf(c)] # {}])
    /\ UNCHANGED <<refs, trees, disk, env, faults>>

(* From the remote's task branch when there is one, else from the sprint.  *)
CreateTask(c) ==
    /\ At(c, "branch")
    /\ NewBranch(c, TaskOf(c),
                 IF call[c].own THEN tracking[TaskOf(c)] ELSE heads[Sprint], "list")
    /\ UNCHANGED <<origin, tracking, trees, disk, env, faults>>

(* git worktree list: a tree that is not locked is prunable when its       *)
(* directory does not hold it.                                             *)
Listing ==
    [p \in Places |->
        IF trees[p] = None THEN None
        ELSE [branch |-> trees[p].branch,
              prunable |-> ~trees[p].locked /\ disk[p] \in {"absent"} \cup Foreign]]

\* A mutant: the tree of a branch is looked for at the requested path only.
OnBranchHere(c, list) ==
    {p \in {Desired(c)} : list[p] # None /\ list[p].branch = TaskOf(c)}

OnBranch(c, list) == {p \in Places : list[p] # None /\ list[p].branch = TaskOf(c)}

(* The trees of a listing that removeStaleRelevantWorktrees looks at.      *)
Relevant(c, list) == OnBranch(c, list) \cup {p \in {Desired(c)} : list[p] # None}

ListTrees(c) ==
    /\ At(c, "list")
    /\ Become(c, [call[c] EXCEPT !.pc = "stale", !.list = Listing,
                                 !.left = Relevant(c, Listing)])
    /\ UNCHANGED <<refs, trees, disk, env, faults>>

\* A mutant: a tree that is not on the branch is in the way.
IsForeign(c, p) == call[c].list[p].prunable \/ call[c].list[p].branch # TaskOf(c)

(* Prunable when listed, or no directory now.  A directory that is not the *)
(* tree's own is taken for it, where the tree is locked.                   *)
IsStale(c, p) == call[c].list[p].prunable \/ disk[p] \in {"absent", "file"}

(* git worktree remove --force: a locked tree, and a path that holds       *)
(* something else, are refused; the directory goes with the tree.          *)
Removable(p) == p # Main /\ trees[p] # None /\ ~trees[p].locked /\ disk[p] \notin Foreign

(* Each of these trees is looked at once, and removed if it is stale.      *)
RemoveStale(c) ==
    /\ At(c, "stale")
    /\ \E p \in call[c].left :
          \/ /\ ~IsStale(c, p)
             /\ Become(c, [call[c] EXCEPT !.left = @ \ {p}])
             /\ UNCHANGED <<trees, disk>>
          \/ /\ IsStale(c, p) /\ Removable(p)
             /\ trees' = [trees EXCEPT ![p] = None]
             /\ disk' = [disk EXCEPT ![p] = "absent"]
             /\ Become(c, [call[c] EXCEPT !.left = @ \ {p}, !.removed = TRUE])
          \/ /\ IsStale(c, p) /\ ~Removable(p)
             /\ Answer(c, "git_failed")
             /\ UNCHANGED <<trees, disk>>
    /\ UNCHANGED <<refs, env, faults>>

(* The worktrees are listed again when some were removed; then the tree of *)
(* the branch is reused, wherever it is, or a new one is added.            *)
Settle(c) ==
    /\ At(c, "stale")
    /\ call[c].left = {}
    /\ LET list == IF call[c].removed THEN Listing ELSE call[c].list
           mine == OnBranch(c, list)
           next == IF mine # {} THEN "base" ELSE "add"
       IN IF list[Desired(c)] # None /\ Desired(c) \notin mine
          THEN Answer(c, "conflict")
          ELSE Become(c, [call[c] EXCEPT !.pc = next, !.list = NoList, !.removed = FALSE])
    /\ UNCHANGED <<refs, trees, disk, env, faults>>

(* git worktree add: refused when the branch is checked out, or the path   *)
(* registered or in use.                                                   *)
Addable(c) ==
    /\ heads[TaskOf(c)] # {}
    /\ HeldBy(TaskOf(c)) = {}
    /\ trees[Desired(c)] = None
    /\ disk[Desired(c)] = "absent"

AddTree(c) ==
    /\ At(c, "add")
    /\ IF Addable(c)
       THEN /\ trees' = [trees EXCEPT ![Desired(c)] = [branch |-> TaskOf(c), locked |-> FALSE]]
            /\ disk' = [disk EXCEPT ![Desired(c)] = "full"]
            /\ Goto(c, "base")
       ELSE Answer(c, "git_failed") /\ UNCHANGED <<trees, disk>>
    /\ UNCHANGED <<refs, env, faults>>

Finish(c) ==
    /\ At(c, "base")
    /\ IF heads[TaskOf(c)] \cap heads[Sprint] # {}
       THEN Become(c, [Answered(c, "ok") EXCEPT
                          !.base = heads[TaskOf(c)] \cap heads[Sprint]])
       ELSE Answer(c, "git_failed")
    /\ UNCHANGED <<refs, trees, disk, env, faults>>
-----------------------------------------------------------------------------
Fault == faults < MaxFaults /\ faults' = faults + 1

(* A git command fails, or the process is killed, between two steps.       *)
CutOff(c) ==
    /\ Busy(c) /\ Fault
    /\ Answer(c, "git_failed")
    /\ UNCHANGED <<refs, trees, disk, env>>

(* The remote has taken the push, the answer is lost.                      *)
PushUnanswered(c) ==
    /\ At(c, "push") /\ Accepted /\ Fault
    /\ origin' = [origin EXCEPT ![Sprint] = heads[Sprint]]
    /\ Answer(c, "git_failed")
    /\ UNCHANGED <<tracking, heads, trees, disk, env>>

(* git worktree add is killed: the tree is registered and locked           *)
(* ("initializing"), its HEAD written or not, its files not there.         *)
AddKilled(c) ==
    /\ At(c, "add") /\ Addable(c) /\ Fault
    /\ \E b \in {TaskOf(c), None} :
          trees' = [trees EXCEPT ![Desired(c)] = [branch |-> b, locked |-> TRUE]]
    /\ disk' = [disk EXCEPT ![Desired(c)] = "torn"]
    /\ Answer(c, "git_failed")
    /\ UNCHANGED <<refs, env>>
-----------------------------------------------------------------------------
Event  == events < MaxEvents /\ events' = events + 1
Commit == {events + 1}

(* Somebody pushes to, or merges into, the default branch or the sprint.   *)
RemoteCommit(b) ==
    /\ origin[b] # {} /\ Event
    /\ origin' = [origin EXCEPT ![b] = @ \cup Commit]
    /\ UNCHANGED <<tracking, heads, trees, disk, call, late, faults>>

(* The pull request of a task is merged and its branch deleted.            *)
MergeTask(t) ==
    /\ origin[t] # {} /\ origin[Sprint] # {} /\ Event
    /\ origin' = [origin EXCEPT ![Sprint] = @ \cup origin[t] \cup Commit, ![t] = {}]
    /\ UNCHANGED <<tracking, heads, trees, disk, call, late, faults>>

(* The developer agent commits in the worktree of the task and pushes.     *)
AgentPush(t) ==
    /\ \E p \in HeldBy(t) : disk[p] = "full"
    /\ heads[t] # {} /\ Event
    /\ heads' = [heads EXCEPT ![t] = @ \cup Commit]
    /\ origin' = [origin EXCEPT ![t] = heads'[t]]
    /\ tracking' = [tracking EXCEPT ![t] = heads'[t]]
    /\ UNCHANGED <<trees, disk, call, late, faults>>

(* A person checks the sprint branch out, commits, and goes back.          *)
LocalCommit ==
    /\ heads[Sprint] # {} /\ HeldBy(Sprint) \subseteq {Main} /\ Event
    /\ heads' = [heads EXCEPT ![Sprint] = @ \cup Commit]
    /\ late' = IF \E c \in Calls : Busy(c) THEN late \cup Commit ELSE late
    /\ UNCHANGED <<origin, tracking, trees, disk, call, faults>>

(* A person checks out another branch in the main checkout.                *)
Checkout(b) ==
    /\ heads[b] # {} /\ HeldBy(b) = {} /\ Event
    /\ trees' = [trees EXCEPT ![Main].branch = b]
    /\ UNCHANGED <<refs, disk, call, late, faults>>

DropBranch(t) ==
    /\ heads[t] # {} /\ HeldBy(t) = {} /\ Event
    /\ heads' = [heads EXCEPT ![t] = {}]
    /\ UNCHANGED <<origin, tracking, trees, disk, call, late, faults>>

(* The worktree of a task loses its branch: a rebase or a checkout in it.  *)
Detach(p) ==
    /\ trees[p] # None /\ disk[p] = "full" /\ trees[p].branch # None /\ Event
    /\ trees' = [trees EXCEPT ![p].branch = None]
    /\ UNCHANGED <<refs, disk, call, late, faults>>

(* A directory disappears, or something else takes its place.              *)
Lose(p) ==
    /\ disk[p] # "absent" /\ Event
    /\ disk' = [disk EXCEPT ![p] = "absent"]
    /\ UNCHANGED <<refs, trees, call, late, faults>>

Block(p) ==
    /\ disk[p] = "absent" /\ Event
    /\ \E thing \in Foreign : disk' = [disk EXCEPT ![p] = thing]
    /\ UNCHANGED <<refs, trees, call, late, faults>>
-----------------------------------------------------------------------------
Step(c) ==
    \/ Fetch(c) \/ InspectSprint(c) \/ Compare(c) \/ CheckCheckedOut(c) \/ ForceBranch(c)
    \/ Adopt(c) \/ CreateSprint(c) \/ Push(c)
    \/ InspectTask(c) \/ CreateTask(c)
    \/ ListTrees(c) \/ RemoveStale(c) \/ Settle(c) \/ AddTree(c) \/ Finish(c)

CallStep(c) ==
    \/ \E t \in Tasks, r \in Roots : Begin(c, t, r)
    \/ Retry(c) \/ Step(c)
    \/ CutOff(c) \/ PushUnanswered(c) \/ AddKilled(c)

Around ==
    \/ \E b \in {Default, Sprint} : RemoteCommit(b)
    \/ \E t \in Tasks : MergeTask(t) \/ AgentPush(t) \/ DropBranch(t)
    \/ LocalCommit
    \/ \E b \in Branches : Checkout(b)
    \/ \E p \in Paths : Detach(p) \/ Lose(p) \/ Block(p)

Next == (\E c \in Calls : CallStep(c)) \/ Around

Spec == Init /\ [][Next]_vars

(* A call goes on, and a retryable answer is retried.                      *)
Fairness == \A c \in Calls : WF_vars(Step(c)) /\ WF_vars(Retry(c))

FairSpec == Spec /\ Fairness
-----------------------------------------------------------------------------
(* The local sprint branch never loses a commit to a preparation, other    *)
(* than one a person makes while a preparation is running: ensureSprint-   *)
(* Branch compares in one command and moves the branch in another.         *)
SprintMovesForward == [][heads[Sprint] \ heads'[Sprint] \subseteq late]_vars

(* The base commit a preparation answers with is on the remote's sprint    *)
(* branch, so that a pull request against it shows the task's own commits: *)
(* across leftovers of calls that were cut off before they pushed.         *)
BasesArePublished ==
    \A c \in Calls : At(c, "ok") => call[c].base \ late \subseteq origin[Sprint]

(* A branch that a preparation creates, and not from the remote's branch   *)
(* of that name, has everything the remote had when it fetched: the sprint *)
(* branch of the default branch, a task branch of the sprint branch        *)
(* (README.md:250), whatever other preparations did to that branch since.  *)
NewBranchesAreCurrent ==
    [][\A c \in Calls, b \in Branches :
          heads[b] = {} /\ heads'[b] # {} /\ call'[c] # call[c]
             => \/ heads'[b] = tracking[b]
                \/ call[c].seen[IF b = Sprint THEN Default ELSE Sprint] \ late
                      \subseteq heads'[b]]_vars

(* No preparation removes a worktree that has its files, unless another    *)
(* one for the same task ran at the same time: removeStaleRelevantWork-    *)
(* trees removes by path what was stale when it was listed.                *)
WorkStays ==
    [][\A c \in Calls, p \in Places :
          disk[p] = "full" /\ disk'[p] # "full" /\ call'[c] # call[c]
             => ~call[c].alone]_vars

(* What no retry gets past: something else where the worktree is to be     *)
(* added, or a tree that a new listing finds stale and git does not remove *)
(* (it is locked, or something else is in its place).                      *)
Jammed(c) ==
    /\ TaskOf(c) # None
    /\ \/ trees[Desired(c)] = None /\ disk[Desired(c)] \in Foreign
       \/ \E p \in Relevant(c, Listing) :
             (Listing[p].prunable \/ disk[p] \in {"absent", "file"}) /\ ~Removable(p)

(* Whatever a preparation was cut off in, retrying it gets through, or     *)
(* ends in an answer that is not retryable: nothing a cut leaves behind    *)
(* makes git refuse the same command for ever.                             *)
GetsThrough ==
    \A c \in Calls :
        At(c, "git_failed") ~> (call[c].pc \in Answers \ {"git_failed"} \/ Jammed(c))
=============================================================================
