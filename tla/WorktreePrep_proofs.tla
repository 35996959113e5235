------------------------ MODULE WorktreePrep_proofs ------------------------
(***************************************************************************)
(* What prepare-worktree-tool guarantees for any number of calls, tasks,   *)
(* faults and events.                                                      *)
(***************************************************************************)
EXTENDS WorktreePrep, TLAPS

(* The branches that are not tasks, and what the constants of the module   *)
(* belong to.                                                              *)
LEMMA Names ==
    /\ Default \in Branches /\ Sprint \in Branches /\ Tasks \subseteq Branches
    /\ Default # Sprint /\ Default \notin Tasks /\ Sprint \notin Tasks
    /\ Main \in Places /\ Paths \subseteq Places /\ Main \notin Paths
    /\ NoRefs \in Refs
    /\ NoList \in [Places -> Listed \cup {None}]
BY WorktreeAssumptions DEF Branches, Places, Refs, NoRefs, NoList

(* A call that has not begun is a call record.                             *)
LEMMA IdleType == Idle \in CallRecord
BY Names DEF Idle, CallRecord, Answers, Working

(* A call ends in an answer, or begins again, as a call of its type.       *)
LEMMA AnswerType ==
    ASSUME TypeOK, NEW c \in Calls, NEW answer \in Answers
    PROVE  Answered(c, answer) \in CallRecord
BY IdleType DEF TypeOK, CallRecord, Answered, TaskOf

(* Calls keep their type when one begins or ends.                          *)
LEMMA EnterType ==
    ASSUME TypeOK, NEW c \in Calls, NEW t \in Tasks \cup {None}, NEW r \in Roots \cup {None}
    PROVE  Entered(c, t, r) \in [Calls -> CallRecord]
<1> DEFINE alone == \A e \in Calls \ {c} : ~(Busy(e) /\ TaskOf(e) = t)
<1>1. [Idle EXCEPT !.pc = "fetch", !.task = t, !.root = r, !.alone = alone] \in CallRecord
  <2>1. alone \in BOOLEAN
    OBVIOUS
  <2> HIDE DEF alone
  <2>2. QED
    BY <2>1, IdleType DEF CallRecord, Working
<1>2. ASSUME NEW d \in Calls PROVE [call[d] EXCEPT !.alone = FALSE] \in CallRecord
  BY DEF TypeOK, CallRecord
<1>3. call \in [Calls -> CallRecord]
  BY DEF TypeOK, CallRecord
<1>4. QED
  BY <1>1, <1>2, <1>3 DEF Entered

(* A call that works, or that is to be retried, has a task and a root.     *)
Named(c) == Busy(c) \/ At(c, "git_failed") => TaskOf(c) \in Tasks /\ call[c].root \in Roots

TInv == TypeOK /\ \A c \in Calls : Named(c)

(* A call that begins names its task and its root.                         *)
LEMMA EnterNamed ==
    ASSUME TInv, NEW c \in Calls, NEW t \in Tasks, NEW r \in Roots, call' = Entered(c, t, r)
    PROVE  \A d \in Calls : Named(d)'
BY IdleType DEF TInv, TypeOK, CallRecord, Named, Entered, Busy, At, TaskOf, Idle, Working, Answers

(* A step of a call keeps its name, or answers.                            *)
LEMMA StepType ==
    ASSUME TInv, NEW c \in Calls, Busy(c), NEW me \in CallRecord, Become(c, me),
           me.pc \in Working \cup {"git_failed"}
             => me.task = TaskOf(c) /\ me.root = call[c].root
    PROVE  call' \in [Calls -> CallRecord] /\ \A d \in Calls : Named(d)'
BY DEF TInv, TypeOK, Named, Become, Busy, At, TaskOf

(* A call that answers keeps its type, and its name if it may be retried.  *)
LEMMA AnswerStep ==
    ASSUME TInv, NEW c \in Calls, Busy(c), NEW answer \in Answers, Answer(c, answer)
    PROVE  call' \in [Calls -> CallRecord] /\ \A d \in Calls : Named(d)'
<1>1. Answered(c, answer) \in CallRecord
  BY AnswerType DEF TInv
<1>2. Answered(c, answer).pc \in Working \cup {"git_failed"}
        => /\ Answered(c, answer).task = TaskOf(c)
           /\ Answered(c, answer).root = call[c].root
  BY DEF Answered, Idle, Answers, Working
<1>3. QED
  BY <1>1, <1>2, StepType DEF Answer

(* A call that goes on keeps its type and its name.                        *)
LEMMA GotoStep ==
    ASSUME TInv, NEW c \in Calls, Busy(c), NEW pc \in Working, Goto(c, pc)
    PROVE  call' \in [Calls -> CallRecord] /\ \A d \in Calls : Named(d)'
<1> DEFINE me == [call[c] EXCEPT !.pc = pc]
<1>1. me \in CallRecord /\ me.task = TaskOf(c) /\ me.root = call[c].root
  BY DEF TInv, TypeOK, CallRecord, TaskOf
<1> HIDE DEF me
<1>2. Become(c, me)
  BY DEF Goto, me
<1>3. QED
  BY <1>1, <1>2, StepType

(* What is at the paths of a call.                                         *)
LEMMA DesiredType ==
    ASSUME TInv, NEW c \in Calls, Busy(c) \/ At(c, "git_failed")
    PROVE  /\ TaskOf(c) \in Tasks /\ TaskOf(c) \in Branches
           /\ Desired(c) \in Paths /\ Desired(c) \in Places /\ Desired(c) # Main
BY Names DEF TInv, Named, TaskOf, Desired, Paths

(* A listing of the worktrees has an entry, or none, for each place.       *)
LEMMA ListingType == TypeOK => Listing \in [Places -> Listed \cup {None}]
BY DEF TypeOK, Listing, Listed, Tree

(* At the start every variable has its type and no call names anything.    *)
THEOREM InitTInv == Init => TInv
<1> SUFFICES ASSUME Init PROVE TInv
  OBVIOUS
<1>1. origin \in Refs /\ tracking \in Refs /\ heads \in Refs
  BY WorktreeAssumptions DEF Init
<1>2. trees \in [Places -> Tree \cup {None}] /\ trees[Main] # None
  <2> DEFINE main == [branch |-> IF heads[Default] = {} THEN None ELSE Default, locked |-> FALSE]
  <2>1. main \in Tree
    BY Names DEF Tree
  <2>2. main # None
    BY <2>1, WorktreeAssumptions
  <2>3. trees = [p \in Places |-> IF p # Main THEN None ELSE main]
    BY DEF Init
  <2> HIDE DEF main
  <2>4. QED
    BY <2>1, <2>2, <2>3, Names
<1>3. disk \in [Places -> Disk]
  BY DEF Init, Disk
<1>4. call \in [Calls -> CallRecord] /\ \A c \in Calls : Named(c)
  BY IdleType DEF Init, Named, Busy, At, Idle, Working
<1>5. QED
  BY <1>1, <1>2, <1>3, <1>4, WorktreeAssumptions DEF TInv, TypeOK, Init

(* Steps keep types and names, one action after the other.                 *)
LEMMA NewBranchStep ==
    ASSUME TInv, NEW c \in Calls, Busy(c), NEW b \in Branches,
           NEW start \in SUBSET Nat, NEW next \in Working, NewBranch(c, b, start, next)
    PROVE  /\ heads' \in Refs
           /\ call' \in [Calls -> CallRecord]
           /\ \A d \in Calls : Named(d)'
<1> DEFINE me == [call[c] EXCEPT !.pc = next, !.own = FALSE]
<1>1. me \in CallRecord /\ me.task = TaskOf(c) /\ me.root = call[c].root
  BY DEF TInv, TypeOK, CallRecord, TaskOf
<1>2. \/ Become(c, me) /\ heads' = [heads EXCEPT ![b] = start]
      \/ Answer(c, "git_failed") /\ UNCHANGED heads
  BY DEF NewBranch
<1> HIDE DEF me
<1>3. heads \in Refs /\ [heads EXCEPT ![b] = start] \in Refs
  BY DEF TInv, TypeOK, Refs
<1>4. CASE Become(c, me) /\ heads' = [heads EXCEPT ![b] = start]
  BY <1>1, <1>3, <1>4, StepType
<1>5. CASE Answer(c, "git_failed") /\ UNCHANGED heads
  <2>1. "git_failed" \in Answers
    BY DEF Answers
  <2>2. QED
    BY <1>3, <1>5, <2>1, AnswerStep
<1>6. QED
  BY <1>2, <1>4, <1>5

(* The git commands about the sprint branch keep the types.                *)
LEMMA SprintSteps ==
    ASSUME TInv, NEW c \in Calls,
           Fetch(c) \/ InspectSprint(c) \/ Compare(c) \/ CheckCheckedOut(c)
             \/ ForceBranch(c) \/ Adopt(c) \/ CreateSprint(c) \/ Push(c)
    PROVE  TInv'
<1>0. /\ call[c] \in CallRecord /\ heads \in Refs /\ tracking \in Refs /\ origin \in Refs
      /\ \A b \in Branches : heads[b] \in SUBSET Nat /\ tracking[b] \in SUBSET Nat
  BY DEF TInv, TypeOK, Refs
<1>1. CASE Fetch(c)
  <2> DEFINE me == [call[c] EXCEPT !.pc = "sprint", !.seen = origin]
  <2>1. me \in CallRecord /\ me.task = TaskOf(c) /\ me.root = call[c].root
    BY <1>0 DEF CallRecord, Working, TaskOf
  <2>2. Become(c, me) /\ Busy(c)
    BY <1>1 DEF Fetch, At, Busy, Working
  <2> HIDE DEF me
  <2>3. QED
    BY <1>0, <1>1, <2>1, <2>2, StepType DEF TInv, TypeOK, Fetch, refs, env
<1>2. CASE InspectSprint(c)
  <2> DEFINE me == [call[c] EXCEPT
                      !.pc = SprintCase,
                      !.current = IF SprintCase = "compare" THEN heads[Sprint] ELSE {}]
  <2>1. SprintCase \in Working
    BY DEF SprintCase, Working
  <2>2. me \in CallRecord /\ me.task = TaskOf(c) /\ me.root = call[c].root
    BY <1>0, <2>1, Names DEF CallRecord, TaskOf
  <2>3. Become(c, me) /\ Busy(c)
    BY <1>2 DEF InspectSprint, At, Busy, Working
  <2> HIDE DEF me
  <2>4. QED
    BY <1>2, <2>2, <2>3, StepType DEF TInv, TypeOK, InspectSprint, refs, env
<1>3. CASE Compare(c)
  <2> DEFINE me == [call[c] EXCEPT !.pc = "checkedOut", !.current = {}]
  <2>1. me \in CallRecord /\ me.task = TaskOf(c) /\ me.root = call[c].root
    BY <1>0 DEF CallRecord, Working, TaskOf
  <2>2. (Become(c, me) \/ Answer(c, "conflict") \/ Answer(c, "git_failed")) /\ Busy(c)
    BY <1>3 DEF Compare, At, Busy, Working
  <2> HIDE DEF me
  <2>3. QED
    BY <1>3, <2>1, <2>2, StepType, AnswerStep DEF TInv, TypeOK, Compare, refs, env, Answers
<1>4. CASE CheckCheckedOut(c)
  <2>1. (Goto(c, "force") \/ Answer(c, "conflict")) /\ Busy(c)
    BY <1>4 DEF CheckCheckedOut, At, Busy, Working
  <2>2. QED
    BY <1>4, <2>1, GotoStep, AnswerStep
    DEF TInv, TypeOK, CheckCheckedOut, refs, env, Answers, Working
<1>5. CASE ForceBranch(c)
  <2>1. (Goto(c, "task") \/ Answer(c, "git_failed")) /\ Busy(c)
    BY <1>5 DEF ForceBranch, At, Busy, Working
  <2>2. heads' \in Refs
    BY <1>0, <1>5, Names DEF ForceBranch, Refs
  <2>3. QED
    BY <1>5, <2>1, <2>2, GotoStep, AnswerStep
    DEF TInv, TypeOK, ForceBranch, refs, env, Answers, Working
<1>6. CASE Adopt(c)
  <2>1. Busy(c) /\ tracking[Sprint] \in SUBSET Nat
    BY <1>0, <1>6, Names DEF Adopt, At, Busy, Working
  <2>2. QED
    BY <1>6, <2>1, NewBranchStep, Names DEF TInv, TypeOK, Adopt, refs, env, Working
<1>7. CASE CreateSprint(c)
  <2>1. Busy(c) /\ StartPoint \in SUBSET Nat
    BY <1>0, <1>7, Names DEF CreateSprint, StartPoint, At, Busy, Working
  <2>2. QED
    BY <1>7, <2>1, NewBranchStep, AnswerStep, Names
    DEF TInv, TypeOK, CreateSprint, refs, env, Working, Answers
<1>8. CASE Push(c)
  <2>1. (Goto(c, "task") \/ Answer(c, "git_failed")) /\ Busy(c)
    BY <1>8 DEF Push, At, Busy, Working
  <2>2. origin' \in Refs /\ tracking' \in Refs
    BY <1>0, <1>8, Names DEF Push, Refs
  <2>3. QED
    BY <1>8, <2>1, <2>2, GotoStep, AnswerStep
    DEF TInv, TypeOK, Push, refs, env, Answers, Working
<1> QED
  BY <1>1, <1>2, <1>3, <1>4, <1>5, <1>6, <1>7, <1>8

(* A call has looked at a listed tree, and may have removed it.            *)
AfterLook(c, p, removed) ==
    [call[c] EXCEPT !.left = @ \ {p}, !.removed = removed \/ call[c].removed]

Looked(c, p, removed) == Become(c, AfterLook(c, p, removed))

Removes(p) ==
    /\ trees' = [trees EXCEPT ![p] = None]
    /\ disk' = [disk EXCEPT ![p] = "absent"]

(* Each look at a listed tree leaves it, removes it, or ends the call.     *)
LEMMA Looks ==
    ASSUME TypeOK, NEW c \in Calls, RemoveStale(c)
    PROVE  \E p \in call[c].left :
              \/ Looked(c, p, FALSE) /\ UNCHANGED <<trees, disk>>
              \/ IsStale(c, p) /\ Removable(p) /\ Removes(p) /\ Looked(c, p, TRUE)
              \/ Answer(c, "git_failed") /\ UNCHANGED <<trees, disk>>
<1>1. call[c] \in CallRecord
  BY DEF TypeOK
<1>2. ASSUME NEW p \in call[c].left
      PROVE  /\ AfterLook(c, p, FALSE) = [call[c] EXCEPT !.left = @ \ {p}]
             /\ AfterLook(c, p, TRUE) = [call[c] EXCEPT !.left = @ \ {p}, !.removed = TRUE]
  BY <1>1 DEF AfterLook, CallRecord
<1>3. QED
  BY <1>2 DEF RemoveStale, Looked, Removes

(* The git commands about the task branch and the worktrees keep the       *)
(* types.                                                                  *)
LEMMA TaskSteps ==
    ASSUME TInv, NEW c \in Calls,
           InspectTask(c) \/ CreateTask(c) \/ ListTrees(c) \/ RemoveStale(c)
             \/ Settle(c) \/ AddTree(c) \/ Finish(c)
    PROVE  TInv'
<1>0. /\ call[c] \in CallRecord /\ heads \in Refs /\ tracking \in Refs
      /\ \A b \in Branches : heads[b] \in SUBSET Nat /\ tracking[b] \in SUBSET Nat
  BY DEF TInv, TypeOK, Refs
<1>1. Busy(c)
  BY DEF InspectTask, CreateTask, ListTrees, RemoveStale, Settle, AddTree, Finish, At, Busy, Working
<1>2. /\ TaskOf(c) \in Tasks /\ TaskOf(c) \in Branches
      /\ Desired(c) \in Paths /\ Desired(c) \in Places /\ Desired(c) # Main
  BY <1>1, DesiredType
<1>3. CASE InspectTask(c)
  <2> DEFINE me == [call[c] EXCEPT !.pc = "branch", !.own = tracking[TaskOf(c)] # {}]
  <2>1. me \in CallRecord /\ me.task = TaskOf(c) /\ me.root = call[c].root
    BY <1>0 DEF CallRecord, Working, TaskOf
  <2>2. Become(c, me) \/ Goto(c, "list")
    BY <1>3 DEF InspectTask
  <2> HIDE DEF me
  <2>3. QED
    BY <1>1, <1>3, <2>1, <2>2, StepType, GotoStep
    DEF TInv, TypeOK, InspectTask, refs, env, Working
<1>4. CASE CreateTask(c)
  <2> DEFINE start == IF call[c].own THEN tracking[TaskOf(c)] ELSE heads[Sprint]
  <2>1. start \in SUBSET Nat
    BY <1>0, <1>2, Names
  <2>2. NewBranch(c, TaskOf(c), start, "list")
    BY <1>4 DEF CreateTask
  <2> HIDE DEF start
  <2>3. QED
    BY <1>1, <1>2, <1>4, <2>1, <2>2, NewBranchStep
    DEF TInv, TypeOK, CreateTask, refs, env, Working
<1>5. CASE ListTrees(c)
  <2> DEFINE me == [call[c] EXCEPT !.pc = "stale", !.list = Listing,
                                   !.left = Relevant(c, Listing)]
  <2>1. Relevant(c, Listing) \subseteq Places
    BY <1>2 DEF Relevant, OnBranch
  <2>2. me \in CallRecord /\ me.task = TaskOf(c) /\ me.root = call[c].root
    BY <1>0, <2>1, ListingType DEF TInv, CallRecord, Working, TaskOf
  <2>3. Become(c, me)
    BY <1>5 DEF ListTrees
  <2> HIDE DEF me
  <2>4. QED
    BY <1>1, <1>5, <2>2, <2>3, StepType DEF TInv, TypeOK, ListTrees, refs, env
<1>6. CASE RemoveStale(c)
  <2>1. PICK p \in call[c].left :
           \/ Looked(c, p, FALSE) /\ UNCHANGED <<trees, disk>>
           \/ Removable(p) /\ Removes(p) /\ Looked(c, p, TRUE)
           \/ Answer(c, "git_failed") /\ UNCHANGED <<trees, disk>>
    BY <1>6, Looks DEF TInv
  <2>2. p \in Places
    BY <1>0 DEF CallRecord
  <2>3. /\ trees' \in [Places -> Tree \cup {None}] /\ trees'[Main] # None
        /\ disk' \in [Places -> Disk]
    BY <2>1, <2>2, Names DEF TInv, TypeOK, Removable, Removes, Disk
  <2>4. CASE Looked(c, p, FALSE) \/ Looked(c, p, TRUE)
    <3>1. PICK removed \in BOOLEAN : Become(c, AfterLook(c, p, removed))
      BY <2>4 DEF Looked
    <3>2. /\ AfterLook(c, p, removed) \in CallRecord
          /\ AfterLook(c, p, removed).task = TaskOf(c)
          /\ AfterLook(c, p, removed).root = call[c].root
      BY <1>0 DEF AfterLook, CallRecord, TaskOf
    <3>3. QED
      BY <1>1, <1>6, <2>3, <3>1, <3>2, StepType DEF TInv, TypeOK, RemoveStale, refs, env
  <2>5. CASE Answer(c, "git_failed")
    BY <1>1, <1>6, <2>3, <2>5, AnswerStep DEF TInv, TypeOK, RemoveStale, refs, env, Answers
  <2>6. QED
    BY <2>1, <2>4, <2>5
<1>7. CASE Settle(c)
  <2>1. PICK next \in {"base", "add"} :
           \/ Answer(c, "conflict")
           \/ Become(c, [call[c] EXCEPT !.pc = next, !.list = NoList, !.removed = FALSE])
    BY <1>7 DEF Settle
  <2> DEFINE me == [call[c] EXCEPT !.pc = next, !.list = NoList, !.removed = FALSE]
  <2>2. me \in CallRecord /\ me.task = TaskOf(c) /\ me.root = call[c].root
    BY <1>0, Names DEF CallRecord, TaskOf, Working
  <2>3. Become(c, me) \/ Answer(c, "conflict")
    BY <2>1
  <2> HIDE DEF me
  <2>4. QED
    BY <1>1, <1>7, <2>2, <2>3, StepType, AnswerStep DEF TInv, TypeOK, Settle, refs, env, Answers
<1>8. CASE AddTree(c)
  <2>1. Goto(c, "base") \/ Answer(c, "git_failed")
    BY <1>8 DEF AddTree
  <2>2. [branch |-> TaskOf(c), locked |-> FALSE] \in Tree
    BY <1>2 DEF Tree
  <2>3. /\ trees' \in [Places -> Tree \cup {None}] /\ trees'[Main] # None
        /\ disk' \in [Places -> Disk]
    BY <1>2, <1>8, <2>2, Names DEF TInv, TypeOK, AddTree, Disk
  <2>4. QED
    BY <1>1, <1>8, <2>1, <2>3, GotoStep, AnswerStep
    DEF TInv, TypeOK, AddTree, refs, env, Answers, Working
<1>9. CASE Finish(c)
  <2> DEFINE base == heads[TaskOf(c)] \cap heads[Sprint]
             me   == [Answered(c, "ok") EXCEPT !.base = base]
  <2>1. base \in SUBSET Nat
    BY <1>0, <1>2, Names
  <2>2. me \in CallRecord /\ me.pc = "ok"
    BY <2>1, IdleType DEF Answered, CallRecord, Answers, Idle
  <2>3. Become(c, me) \/ Answer(c, "git_failed")
    BY <1>9 DEF Finish
  <2> HIDE DEF me
  <2>4. QED
    BY <1>1, <1>9, <2>2, <2>3, StepType, AnswerStep
    DEF TInv, TypeOK, Finish, refs, env, Answers, Working
<1>10. QED
  BY <1>3, <1>4, <1>5, <1>6, <1>7, <1>8, <1>9

(* Calls that begin, are retried, cut off or killed keep the types.        *)
LEMMA OtherSteps ==
    ASSUME TInv, NEW c \in Calls,
           \/ \E t \in Tasks, r \in Roots : Begin(c, t, r)
           \/ Retry(c) \/ CutOff(c) \/ PushUnanswered(c) \/ AddKilled(c)
    PROVE  TInv'
<1>0. faults < MaxFaults => faults + 1 \in 0 .. MaxFaults
  BY WorktreeAssumptions DEF TInv, TypeOK
<1>a. "git_failed" \in Answers
  BY DEF Answers
<1>1. CASE \E t \in Tasks, r \in Roots : Begin(c, t, r)
  BY <1>1, EnterType, EnterNamed DEF TInv, TypeOK, Begin, refs, env
<1>2. CASE Retry(c)
  <2>1. TaskOf(c) \in Tasks /\ call[c].root \in Roots
    BY <1>2 DEF TInv, Named, Retry
  <2>2. QED
    BY <1>2, <2>1, EnterType, EnterNamed DEF TInv, TypeOK, Retry, refs, env
<1>3. CASE CutOff(c)
  <2>1. call' \in [Calls -> CallRecord] /\ \A d \in Calls : Named(d)'
    BY <1>3, <1>a, AnswerStep DEF CutOff
  <2>2. QED
    BY <1>0, <1>3, <2>1 DEF TInv, TypeOK, CutOff, Fault, refs, env
<1>4. CASE PushUnanswered(c)
  <2>1. Busy(c)
    BY <1>4 DEF PushUnanswered, At, Busy, Working
  <2>2. origin' \in Refs
    BY <1>4, Names DEF PushUnanswered, TInv, TypeOK, Refs
  <2>3. call' \in [Calls -> CallRecord] /\ \A d \in Calls : Named(d)'
    BY <1>4, <1>a, <2>1, AnswerStep DEF PushUnanswered
  <2>4. QED
    BY <1>0, <1>4, <2>2, <2>3 DEF TInv, TypeOK, PushUnanswered, Fault, env
<1>5. CASE AddKilled(c)
  <2>1. Busy(c)
    BY <1>5 DEF AddKilled, At, Busy, Working
  <2>2. /\ TaskOf(c) \in Branches
        /\ Desired(c) \in Places /\ Desired(c) # Main
    BY <2>1, DesiredType
  <2>3. \A b \in {TaskOf(c), None} : [branch |-> b, locked |-> TRUE] \in Tree
    BY <2>2 DEF Tree
  <2>4. /\ trees' \in [Places -> Tree \cup {None}] /\ trees'[Main] # None
        /\ disk' \in [Places -> Disk]
    BY <1>5, <2>2, <2>3, Names DEF TInv, TypeOK, AddKilled, Disk
  <2>5. call' \in [Calls -> CallRecord] /\ \A d \in Calls : Named(d)'
    BY <1>5, <1>a, <2>1, AnswerStep DEF AddKilled
  <2>6. QED
    BY <1>0, <1>5, <2>4, <2>5 DEF TInv, TypeOK, AddKilled, Fault, refs, env
<1>6. QED
  BY <1>1, <1>2, <1>3, <1>4, <1>5

(* GitHub, agents and people keep the types.                               *)
LEMMA AroundSteps ==
    ASSUME TInv, Around
    PROVE  TInv'
<1> USE DEF Event, Commit
<1>0. /\ heads \in Refs /\ origin \in Refs /\ tracking \in Refs
      /\ Commit \in SUBSET Nat /\ events \in Nat /\ events + 1 \in Nat
      /\ events < MaxEvents => events + 1 \in 0 .. MaxEvents
  BY WorktreeAssumptions DEF TInv, TypeOK
<1>1. UNCHANGED call => \A d \in Calls : Named(d)'
  BY DEF TInv, Named, Busy, At, TaskOf
<1>2. ASSUME NEW b \in {Default, Sprint}, RemoteCommit(b) PROVE TInv'
  <2>1. origin' \in Refs
    BY <1>0, <1>2, Names DEF RemoteCommit, Refs
  <2>2. QED
    BY <1>0, <1>1, <1>2, <2>1 DEF TInv, TypeOK, RemoteCommit
<1>3. ASSUME NEW t \in Tasks, MergeTask(t) PROVE TInv'
  <2>1. origin' \in Refs
    BY <1>0, <1>3, Names DEF MergeTask, Refs
  <2>2. QED
    BY <1>0, <1>1, <1>3, <2>1 DEF TInv, TypeOK, MergeTask
<1>4. ASSUME NEW t \in Tasks, AgentPush(t) PROVE TInv'
  <2>1. heads' \in Refs /\ origin' \in Refs /\ tracking' \in Refs
    BY <1>0, <1>4, Names DEF AgentPush, Refs
  <2>2. QED
    BY <1>0, <1>1, <1>4, <2>1 DEF TInv, TypeOK, AgentPush
<1>5. ASSUME NEW t \in Tasks, DropBranch(t) PROVE TInv'
  <2>1. heads' \in Refs
    BY <1>0, <1>5, Names DEF DropBranch, Refs
  <2>2. QED
    BY <1>0, <1>1, <1>5, <2>1 DEF TInv, TypeOK, DropBranch
<1>6. ASSUME LocalCommit PROVE TInv'
  <2>1. heads' \in Refs /\ late' \in SUBSET Nat
    BY <1>0, <1>6, Names DEF LocalCommit, Refs, TInv, TypeOK
  <2>2. QED
    BY <1>0, <1>1, <1>6, <2>1 DEF TInv, TypeOK, LocalCommit
<1>7. ASSUME NEW b \in Branches, Checkout(b) PROVE TInv'
  <2>1. trees[Main] \in Tree
    BY Names DEF TInv, TypeOK
  <2>2. [trees[Main] EXCEPT !.branch = b] \in Tree
    BY <2>1 DEF Tree
  <2>3. [trees[Main] EXCEPT !.branch = b] # None
    BY <2>2, WorktreeAssumptions
  <2>4. trees' \in [Places -> Tree \cup {None}] /\ trees'[Main] # None
    BY <1>7, <2>2, <2>3, Names DEF Checkout, TInv, TypeOK
  <2>5. QED
    BY <1>0, <1>1, <1>7, <2>4 DEF TInv, TypeOK, Checkout, refs
<1>8. ASSUME NEW p \in Paths, Detach(p) PROVE TInv'
  <2>1. p \in Places /\ p # Main
    BY Names
  <2>2. trees[p] \in Tree
    BY <1>8, <2>1 DEF TInv, TypeOK, Detach
  <2>3. [trees[p] EXCEPT !.branch = None] \in Tree
    BY <2>2 DEF Tree
  <2>4. trees' \in [Places -> Tree \cup {None}] /\ trees'[Main] # None
    BY <1>8, <2>1, <2>3, Names DEF Detach, TInv, TypeOK
  <2>5. QED
    BY <1>0, <1>1, <1>8, <2>4 DEF TInv, TypeOK, Detach, refs
<1>9. ASSUME NEW p \in Paths, Lose(p) \/ Block(p) PROVE TInv'
  <2>1. disk' \in [Places -> Disk]
    BY <1>9, Names DEF Lose, Block, TInv, TypeOK, Disk, Foreign
  <2>2. QED
    BY <1>0, <1>1, <1>9, <2>1 DEF TInv, TypeOK, Lose, Block, refs
<1>10. QED
  BY <1>2, <1>3, <1>4, <1>5, <1>6, <1>7, <1>8, <1>9 DEF Around

(* TInv is inductive.                                                      *)
LEMMA NextTInv == TInv /\ [Next]_vars => TInv'
<1>1. TInv /\ Next => TInv'
  BY SprintSteps, TaskSteps, OtherSteps, AroundSteps DEF Next, CallStep, Step
<1>2. TInv /\ UNCHANGED vars => TInv'
  BY DEF TInv, TypeOK, Named, Busy, At, TaskOf, vars, refs, env
<1>3. QED
  BY <1>1, <1>2

(* Every state is well typed: in particular every answer is one that the   *)
(* tool documents, and the main checkout stays registered.                 *)
THEOREM TypeCorrect == Spec => []TypeOK
<1>1. TInv => TypeOK
  BY DEF TInv
<1>2. QED
  BY InitTInv, NextTInv, <1>1, PTL DEF Spec
-----------------------------------------------------------------------------
(* The safety of the branches.  What a call has read goes out of date, but *)
(* only in ways that keep what it decided by it sound: the remote and what *)
(* is fetched of it only grow, and the local sprint branch grows, or is    *)
(* moved to what was fetched when it had nothing else but late commits.    *)

Passed     == {"task", "branch", "list", "stale", "add", "base"}
SawRemote  == {"compare", "checkedOut", "force", "adopt"}
HasSprint  == {"compare", "checkedOut", "force", "push"} \cup Passed

Shared == {Default, Sprint}

Fetched == \A b \in Shared : tracking[b] \subseteq origin[b]

CallInv(c) ==
    /\ Busy(c) /\ ~At(c, "fetch") => \A b \in Shared : call[c].seen[b] \subseteq tracking[b]
    /\ call[c].pc \in SawRemote => tracking[Sprint] # {}
    /\ call[c].pc \in HasSprint => heads[Sprint] # {}
    /\ At(c, "compare") => heads[Sprint] \ late \subseteq call[c].current \cup tracking[Sprint]
    /\ call[c].pc \in {"checkedOut", "force"} => heads[Sprint] \ late \subseteq tracking[Sprint]
    /\ call[c].pc \in Passed => /\ heads[Sprint] \ late \subseteq origin[Sprint]
                                /\ call[c].seen[Sprint] \ late \subseteq heads[Sprint]
    /\ At(c, "ok") => call[c].base \ late \subseteq origin[Sprint]

Safe == TInv /\ Fetched /\ \A c \in Calls : CallInv(c)

(* What every step does to the branches, whoever takes it.                 *)
Evolves ==
    /\ \A b \in Shared : /\ tracking[b] \subseteq tracking'[b]
                         /\ origin[b] \subseteq origin'[b]
                         /\ tracking'[b] \subseteq origin'[b]
    /\ late \subseteq late'
    /\ heads[Sprint] # {} => heads'[Sprint] # {}
    /\ heads[Sprint] \ heads'[Sprint] \subseteq late
    /\ heads[Sprint] # {} /\ (\E c \in Calls : Busy(c))
          => heads'[Sprint] \ late' \subseteq heads[Sprint] \cup tracking[Sprint]
    /\ heads[Sprint] # {} => \/ heads[Sprint] \subseteq heads'[Sprint]
                             \/ heads'[Sprint] = tracking[Sprint]

(* At the start no call relies on what others may have moved.              *)
THEOREM InitSafe == Init => Safe
<1> SUFFICES ASSUME Init PROVE Safe
  OBVIOUS
<1>1. TInv
  BY InitTInv
<1>2. Fetched
  BY DEF Init, Fetched
<1>3. \A c \in Calls : CallInv(c)
  BY DEF Init, CallInv, Idle, Busy, At, Working, Passed, SawRemote, HasSprint
<1>4. QED
  BY <1>1, <1>2, <1>3 DEF Safe

(* The branches, as functions of their names.                              *)
LEMMA RefsType ==
    ASSUME Safe
    PROVE  /\ origin \in Refs /\ tracking \in Refs /\ heads \in Refs
           /\ origin = [b \in Branches |-> origin[b]]
           /\ tracking = [b \in Branches |-> tracking[b]]
           /\ heads = [b \in Branches |-> heads[b]]
           /\ Default \in Branches /\ Sprint \in Branches /\ Default # Sprint
           /\ Default \notin Tasks /\ Sprint \notin Tasks /\ Tasks \subseteq Branches
BY Names DEF Safe, TInv, TypeOK, Refs

(* A step that leaves the branches alone, and one that only creates a      *)
(* branch that was not there.                                              *)
LEMMA StillEvolves == Safe /\ UNCHANGED <<refs, late>> => Evolves
BY DEF Safe, Fetched, Evolves, refs

(* Creating a branch that does not exist, or any but the sprint's, takes   *)
(* nothing back.                                                           *)
LEMMA CreateEvolves ==
    ASSUME Safe, UNCHANGED <<origin, tracking, late>>, NEW b \in Branches, NEW start,
           heads[b] = {} \/ b # Sprint,
           heads' = heads \/ heads' = [heads EXCEPT ![b] = start]
    PROVE  Evolves
<1>1. heads[Sprint] # {} => heads'[Sprint] = heads[Sprint]
  BY RefsType
<1>2. QED
  BY <1>1 DEF Safe, Fetched, Evolves

(* No git command of a call takes a branch back.                           *)
LEMMA CallEvolves ==
    ASSUME Safe, NEW c \in Calls, CallStep(c)
    PROVE  Evolves
<1>1. CASE UNCHANGED <<refs, late>>
  BY <1>1, StillEvolves
<1>2. CASE Fetch(c)
  BY <1>2, RefsType DEF Fetch, Safe, Fetched, Evolves, Shared, env
<1>3. CASE ForceBranch(c)
  <2>1. heads[Sprint] \ late \subseteq tracking[Sprint] /\ tracking[Sprint] # {}
    BY <1>3 DEF ForceBranch, At, Safe, CallInv, SawRemote
  <2>2. heads' = heads \/ heads'[Sprint] = tracking[Sprint]
    BY <1>3, RefsType DEF ForceBranch
  <2>3. QED
    BY <1>3, <2>1, <2>2 DEF ForceBranch, Safe, Fetched, Evolves, env
<1>4. CASE Adopt(c) \/ CreateSprint(c)
  <2>1. PICK start : heads' = heads \/ (heads[Sprint] = {} /\ heads' = [heads EXCEPT ![Sprint] = start])
    BY <1>4 DEF Adopt, CreateSprint, NewBranch
  <2>2. UNCHANGED <<origin, tracking, late>>
    BY <1>4 DEF Adopt, CreateSprint, env
  <2>3. CASE heads[Sprint] = {}
    BY <2>1, <2>2, <2>3, CreateEvolves, RefsType
  <2>4. CASE heads' = heads
    BY <2>2, <2>4, StillEvolves DEF refs
  <2>5. QED
    BY <2>1, <2>3, <2>4
<1>5. CASE Push(c) \/ PushUnanswered(c)
  <2>1. heads[Sprint] # {} /\ UNCHANGED heads
    BY <1>5 DEF Push, PushUnanswered, At, Safe, CallInv, HasSprint
  <2>2. \A b \in Shared : origin[b] \subseteq origin'[b]
    BY <1>5, RefsType DEF Push, PushUnanswered, Accepted, Shared
  <2>3. \A b \in Shared : tracking[b] \subseteq tracking'[b] /\ tracking'[b] \subseteq origin'[b]
    BY <1>5, <2>2, RefsType DEF Push, PushUnanswered, Accepted, Shared, Safe, Fetched
  <2>4. QED
    BY <1>5, <2>1, <2>2, <2>3 DEF Push, PushUnanswered, Evolves, env
<1>6. CASE CreateTask(c)
  <2>1. TaskOf(c) \in Tasks
    BY <1>6, DesiredType DEF CreateTask, At, Busy, Working, Safe
  <2>2. PICK start : heads' = heads \/ heads' = [heads EXCEPT ![TaskOf(c)] = start]
    BY <1>6 DEF CreateTask, NewBranch
  <2>3. QED
    BY <1>6, <2>1, <2>2, CreateEvolves, RefsType DEF CreateTask, env
<1>7. QED
  BY <1>1, <1>2, <1>3, <1>4, <1>5, <1>6
  DEF CallStep, Step, Begin, Retry, InspectSprint, Compare, CheckCheckedOut, InspectTask,
      ListTrees, RemoveStale, Settle, AddTree, Finish, CutOff, AddKilled, env, refs

(* Nor does what GitHub, agents and people do, and the calls stay as they  *)
(* are.                                                                    *)
LEMMA AroundEvolves ==
    ASSUME Safe, Around
    PROVE  Evolves /\ UNCHANGED call
<1>1. ASSUME NEW b \in Shared, RemoteCommit(b) PROVE Evolves /\ UNCHANGED call
  BY <1>1, RefsType DEF RemoteCommit, Safe, Fetched, Evolves, Shared
<1>2. ASSUME NEW t \in Tasks, MergeTask(t) PROVE Evolves /\ UNCHANGED call
  <2>1. \A b \in Shared : origin[b] \subseteq origin'[b]
    BY <1>2, RefsType DEF MergeTask, Shared
  <2>2. QED
    BY <1>2, <2>1 DEF MergeTask, Safe, Fetched, Evolves
<1>3. ASSUME NEW t \in Tasks, AgentPush(t) PROVE Evolves /\ UNCHANGED call
  <2>1. /\ heads'[Sprint] = heads[Sprint]
        /\ \A b \in Shared : origin'[b] = origin[b] /\ tracking'[b] = tracking[b]
    BY <1>3, RefsType DEF AgentPush, Shared
  <2>2. QED
    BY <1>3, <2>1 DEF AgentPush, Safe, Fetched, Evolves
<1>4. ASSUME NEW t \in Tasks, DropBranch(t) PROVE Evolves /\ UNCHANGED call
  <2>1. heads'[Sprint] = heads[Sprint]
    BY <1>4, RefsType DEF DropBranch
  <2>2. QED
    BY <1>4, <2>1 DEF DropBranch, Safe, Fetched, Evolves
<1>5. ASSUME LocalCommit PROVE Evolves /\ UNCHANGED call
  <2>1. heads'[Sprint] = heads[Sprint] \cup Commit
    BY <1>5, RefsType DEF LocalCommit
  <2>2. late \subseteq late' /\ ((\E c \in Calls : Busy(c)) => Commit \subseteq late')
    BY <1>5 DEF LocalCommit
  <2>3. QED
    BY <1>5, <2>1, <2>2 DEF LocalCommit, Safe, Fetched, Evolves
<1>6. QED
  BY <1>1, <1>2, <1>3, <1>4, <1>5, StillEvolves
  DEF Around, Checkout, Detach, Lose, Block, refs, Shared

(* A call that does not act keeps its part of the invariant.               *)
LEMMA OthersKeep ==
    ASSUME Safe, Evolves, NEW c \in Calls,
           call'[c].pc = call[c].pc, call'[c].seen = call[c].seen,
           call'[c].current = call[c].current, call'[c].base = call[c].base
    PROVE  CallInv(c)'
<1>1. CallInv(c) /\ Fetched
  BY DEF Safe
<1>2. call[c].pc \in HasSprint => Busy(c)
  BY DEF HasSprint, Passed, Busy, Working
<1>3. ASSUME Busy(c), ~At(c, "fetch"), NEW b \in Shared
      PROVE  call[c].seen[b] \subseteq tracking'[b]
  BY <1>1, <1>3 DEF CallInv, Evolves
<1>4. call[c].pc \in SawRemote => tracking'[Sprint] # {}
  BY <1>1 DEF CallInv, Evolves, Shared
<1>5. call[c].pc \in HasSprint => heads'[Sprint] # {}
  BY <1>1 DEF CallInv, Evolves
<1>6. call[c].pc \in HasSprint => heads'[Sprint] \ late' \subseteq heads[Sprint] \cup tracking[Sprint]
  BY <1>1, <1>2 DEF CallInv, Evolves
<1>7. late \subseteq late' /\ tracking[Sprint] \subseteq tracking'[Sprint]
        /\ origin[Sprint] \subseteq origin'[Sprint] /\ tracking[Sprint] \subseteq origin[Sprint]
  BY <1>1 DEF Evolves, Shared, Fetched
<1>8. At(c, "compare")
        => heads'[Sprint] \ late' \subseteq call[c].current \cup tracking'[Sprint]
  BY <1>1, <1>6, <1>7 DEF CallInv, At, HasSprint
<1>9. call[c].pc \in {"checkedOut", "force"}
        => heads'[Sprint] \ late' \subseteq tracking'[Sprint]
  BY <1>1, <1>6, <1>7 DEF CallInv, HasSprint
<1>10. call[c].pc \in Passed => heads'[Sprint] \ late' \subseteq origin'[Sprint]
  BY <1>1, <1>6, <1>7 DEF CallInv, HasSprint
<1>11. call[c].pc \in Passed => call[c].seen[Sprint] \ late' \subseteq heads'[Sprint]
  <2> SUFFICES ASSUME call[c].pc \in Passed
               PROVE  call[c].seen[Sprint] \ late' \subseteq heads'[Sprint]
    OBVIOUS
  <2>1. call[c].seen[Sprint] \ late \subseteq heads[Sprint]
        /\ call[c].seen[Sprint] \subseteq tracking[Sprint]
        /\ heads[Sprint] # {}
    BY <1>1 DEF CallInv, Passed, HasSprint, Busy, At, Working, Shared
  <2>2. QED
    BY <1>7, <2>1 DEF Evolves
<1>12. At(c, "ok") => call[c].base \ late' \subseteq origin'[Sprint]
  BY <1>1, <1>7 DEF CallInv
<1>13. QED
  BY <1>3, <1>4, <1>5, <1>8, <1>9, <1>10, <1>11, <1>12 DEF CallInv, At, Busy

(* A call that acts: what it has become, and the others as they were.      *)
LEMMA Becoming ==
    ASSUME Safe, NEW c \in Calls, NEW me, Become(c, me)
    PROVE  call'[c] = me /\ \A d \in Calls \ {c} : call'[d] = call[d]
BY DEF Safe, TInv, TypeOK, Become

(* An answer without a base, and a call that has only begun, promise       *)
(* nothing about the branches.                                             *)
LEMMA QuietCall ==
    ASSUME NEW c \in Calls, call'[c].pc \in {"fetch", "conflict", "git_failed", "invalid", "idle"}
    PROVE  CallInv(c)'
BY DEF CallInv, At, Busy, Working, SawRemote, HasSprint, Passed

(* A call that ends with an error leaves what the calls rely on.           *)
LEMMA AnswerActs ==
    ASSUME Safe, Evolves, NEW c \in Calls,
           \E answer \in {"conflict", "git_failed", "invalid"} : Answer(c, answer)
    PROVE  \A d \in Calls : CallInv(d)'
<1>1. PICK answer \in {"conflict", "git_failed", "invalid"} : Become(c, Answered(c, answer))
  BY DEF Answer
<1>2. Answered(c, answer).pc = answer
  BY DEF Answered, Idle
<1>3. call'[c].pc = answer /\ \A d \in Calls \ {c} : call'[d] = call[d]
  BY <1>1, <1>2, Becoming
<1>4. QED
  BY <1>3, QuietCall, OthersKeep

(* A call that acts and goes on has its own part to show.                  *)
LEMMA Acts ==
    ASSUME Safe, Evolves, NEW c \in Calls, NEW me, Become(c, me), CallInv(c)'
    PROVE  \A d \in Calls : CallInv(d)'
BY Becoming, OthersKeep

(* A call that has passed the sprint branch goes on with it.               *)
LEMMA PassedActs ==
    ASSUME Safe, Evolves, NEW c \in Calls, call[c].pc \in Passed, NEW me, Become(c, me),
           me.pc \in Passed, me.seen = call[c].seen
    PROVE  \A d \in Calls : CallInv(d)'
<1>1. call'[c].pc \in Passed /\ call'[c].seen = call[c].seen
  BY Becoming
<1>2. CallInv(c) /\ Fetched
  BY DEF Safe
<1>3. Busy(c) /\ ~At(c, "fetch") /\ heads[Sprint] # {}
  BY <1>2 DEF Busy, At, Working, Passed, CallInv, HasSprint
<1>4. \A b \in Shared : call[c].seen[b] \subseteq tracking'[b]
  BY <1>2, <1>3 DEF CallInv, Evolves
<1>5. heads'[Sprint] # {} /\ heads'[Sprint] \ late' \subseteq origin'[Sprint]
  BY <1>2, <1>3 DEF CallInv, Evolves, Fetched, Shared
<1>6. call[c].seen[Sprint] \ late' \subseteq heads'[Sprint]
  <2>1. call[c].seen[Sprint] \ late \subseteq heads[Sprint]
        /\ call[c].seen[Sprint] \subseteq tracking[Sprint]
    BY <1>2, <1>3 DEF CallInv, Shared
  <2>2. QED
    BY <1>3, <2>1 DEF Evolves
<1>7. CallInv(c)'
  BY <1>1, <1>4, <1>5, <1>6 DEF CallInv, At, Passed, SawRemote, HasSprint
<1>8. QED
  BY <1>7, Acts

(* A call that leaves the sprint branch as it has fetched it, or pushed    *)
(* it, is past it.                                                         *)
LEMMA SprintDone ==
    ASSUME Safe, Evolves, NEW c \in Calls, Busy(c), ~At(c, "fetch"), NEW me, Become(c, me),
           me.pc = "task", me.seen = call[c].seen,
           heads'[Sprint] = tracking'[Sprint], heads'[Sprint] # {}
    PROVE  \A d \in Calls : CallInv(d)'
<1>1. call'[c].pc = "task" /\ call'[c].seen = call[c].seen
  BY Becoming
<1>2. CallInv(c)
  BY DEF Safe
<1>3. \A b \in Shared : call[c].seen[b] \subseteq tracking'[b] /\ tracking'[b] \subseteq origin'[b]
  BY <1>2 DEF CallInv, Evolves
<1>4. CallInv(c)'
  BY <1>1, <1>3 DEF CallInv, At, Passed, SawRemote, HasSprint, Shared
<1>5. QED
  BY <1>4, Acts

(* After every step of a call, what each call relies on is still so.       *)
LEMMA CallActs ==
    ASSUME Safe, NEW c \in Calls, CallStep(c), Evolves
    PROVE  \A d \in Calls : CallInv(d)'
<1>0. CallInv(c) /\ Fetched
  BY DEF Safe
<1>1. CASE (\E t \in Tasks, r \in Roots : Begin(c, t, r)) \/ Retry(c)
  <2>1. PICK t, r : call' = Entered(c, t, r)
    BY <1>1 DEF Begin, Retry
  <2>2. ASSUME NEW d \in Calls PROVE CallInv(d)'
    <3>1. CASE d = c
      BY <2>1, <3>1, QuietCall DEF Entered, Idle
    <3>2. CASE d # c
      <4>1. call[d] \in CallRecord
        BY DEF Safe, TInv, TypeOK
      <4>2. /\ call'[d].pc = call[d].pc /\ call'[d].seen = call[d].seen
            /\ call'[d].current = call[d].current /\ call'[d].base = call[d].base
        BY <2>1, <3>2, <4>1 DEF Entered, CallRecord
      <4>3. QED
        BY <4>2, OthersKeep
    <3>3. QED
      BY <3>1, <3>2
  <2>3. QED
    BY <2>2
<1>2. CASE CutOff(c) \/ PushUnanswered(c) \/ AddKilled(c)
  BY <1>2, AnswerActs DEF CutOff, PushUnanswered, AddKilled
<1>3. CASE Fetch(c)
  <2> DEFINE me == [call[c] EXCEPT !.pc = "sprint", !.seen = origin]
  <2>1. me.pc = "sprint" /\ me.seen = origin
    BY DEF Safe, TInv, TypeOK, CallRecord
  <2>2. Become(c, me) /\ tracking' = origin
    BY <1>3 DEF Fetch
  <2> HIDE DEF me
  <2>3. CallInv(c)'
    BY <2>1, <2>2, Becoming DEF CallInv, At, Passed, SawRemote, HasSprint
  <2>4. QED
    BY <2>2, <2>3, Acts
<1>4. CASE InspectSprint(c)
  <2> DEFINE me == [call[c] EXCEPT
                      !.pc = SprintCase,
                      !.current = IF SprintCase = "compare" THEN heads[Sprint] ELSE {}]
  <2>1. /\ me.pc = SprintCase /\ me.seen = call[c].seen
        /\ SprintCase = "compare" => me.current = heads[Sprint]
    BY DEF Safe, TInv, TypeOK, CallRecord
  <2>2. Become(c, me) /\ UNCHANGED <<refs, late>>
    BY <1>4 DEF InspectSprint, env
  <2> HIDE DEF me
  <2>3. Busy(c) /\ ~At(c, "fetch")
    BY <1>4 DEF InspectSprint, At, Busy, Working
  <2>4. CASE SprintCase = "task"
    <3>1. heads[Sprint] = tracking[Sprint] /\ tracking[Sprint] # {}
      BY <2>4 DEF SprintCase
    <3>2. QED
      BY <2>1, <2>2, <2>3, <2>4, <3>1, SprintDone DEF refs
  <2>5. CASE SprintCase # "task"
    <3>1. /\ SprintCase \in {"adopt", "compare", "push", "fresh"}
          /\ SprintCase \in {"adopt", "compare"} => tracking[Sprint] # {}
          /\ SprintCase \in {"compare", "push"} => heads[Sprint] # {}
      BY <2>5 DEF SprintCase
    <3>2. call'[c] = me
      BY <2>2, Becoming
    <3>3. \A b \in Shared : call[c].seen[b] \subseteq tracking[b]
      BY <1>0, <2>3 DEF CallInv
    <3>4. CallInv(c)'
      BY <2>1, <2>2, <3>1, <3>2, <3>3 DEF CallInv, At, Passed, SawRemote, HasSprint, refs
    <3>5. QED
      BY <2>2, <3>4, Acts
  <2>6. QED
    BY <2>4, <2>5
<1>5. CASE Compare(c)
  <2>1. CASE CanFastForward(c)
    <3> DEFINE me == [call[c] EXCEPT !.pc = "checkedOut", !.current = {}]
    <3>1. me.pc = "checkedOut" /\ me.seen = call[c].seen
      BY DEF Safe, TInv, TypeOK, CallRecord
    <3>2. Become(c, me) /\ UNCHANGED <<refs, late>> /\ At(c, "compare")
      BY <1>5, <2>1 DEF Compare, env
    <3> HIDE DEF me
    <3>3. heads[Sprint] \ late \subseteq tracking[Sprint]
          /\ heads[Sprint] # {} /\ tracking[Sprint] # {}
      BY <1>0, <2>1, <3>2 DEF CanFastForward, CallInv, At, HasSprint, SawRemote
    <3>4. \A b \in Shared : call[c].seen[b] \subseteq tracking[b]
      BY <1>0, <3>2 DEF CallInv, Busy, At, Working
    <3>5. call'[c] = me
      BY <3>2, Becoming
    <3>6. CallInv(c)'
      BY <3>1, <3>2, <3>3, <3>4, <3>5 DEF CallInv, At, Passed, refs
    <3>7. QED
      BY <3>2, <3>6, Acts
  <2>2. CASE ~CanFastForward(c)
    BY <1>5, <2>2, AnswerActs DEF Compare
  <2>3. QED
    BY <2>1, <2>2
<1>6. CASE CheckCheckedOut(c)
  <2>1. CASE Goto(c, "force")
    <3> DEFINE me == [call[c] EXCEPT !.pc = "force"]
    <3>1. me.pc = "force" /\ me.seen = call[c].seen
      BY DEF Safe, TInv, TypeOK, CallRecord
    <3>2. Become(c, me) /\ UNCHANGED <<refs, late>> /\ At(c, "checkedOut")
      BY <1>6, <2>1 DEF CheckCheckedOut, Goto, env
    <3> HIDE DEF me
    <3>3. call'[c] = me
      BY <3>2, Becoming
    <3>4. \A b \in Shared : call[c].seen[b] \subseteq tracking[b]
      BY <1>0, <3>2 DEF CallInv, Busy, At, Working
    <3>5. CallInv(c)'
      BY <1>0, <3>1, <3>2, <3>3, <3>4 DEF CallInv, At, Passed, SawRemote, HasSprint, refs
    <3>6. QED
      BY <3>2, <3>5, Acts
  <2>2. CASE Answer(c, "conflict")
    BY <2>2, AnswerActs
  <2>3. QED
    BY <1>6, <2>1, <2>2 DEF CheckCheckedOut
<1>7. CASE ForceBranch(c)
  <2>1. CASE HeldBy(Sprint) = {}
    <3> DEFINE me == [call[c] EXCEPT !.pc = "task"]
    <3>1. me.pc = "task" /\ me.seen = call[c].seen
      BY DEF Safe, TInv, TypeOK, CallRecord
    <3>2. /\ Become(c, me) /\ At(c, "force") /\ UNCHANGED tracking
          /\ heads' = [heads EXCEPT ![Sprint] = tracking[Sprint]]
      BY <1>7, <2>1 DEF ForceBranch, Goto
    <3> HIDE DEF me
    <3>3. heads'[Sprint] = tracking'[Sprint] /\ heads'[Sprint] # {}
      BY <1>0, <3>2, RefsType DEF CallInv, At, SawRemote
    <3>4. Busy(c) /\ ~At(c, "fetch")
      BY <3>2 DEF At, Busy, Working
    <3>5. QED
      BY <3>1, <3>2, <3>3, <3>4, SprintDone
  <2>2. CASE HeldBy(Sprint) # {}
    BY <1>7, <2>2, AnswerActs DEF ForceBranch
  <2>3. QED
    BY <2>1, <2>2
<1>8. CASE Adopt(c)
  <2>1. CASE heads[Sprint] = {} /\ tracking[Sprint] # {}
    <3> DEFINE me == [call[c] EXCEPT !.pc = "task", !.own = FALSE]
    <3>1. me.pc = "task" /\ me.seen = call[c].seen
      BY DEF Safe, TInv, TypeOK, CallRecord
    <3>2. /\ Become(c, me) /\ At(c, "adopt") /\ UNCHANGED tracking
          /\ heads' = [heads EXCEPT ![Sprint] = tracking[Sprint]]
      BY <1>8, <2>1 DEF Adopt, NewBranch
    <3> HIDE DEF me
    <3>3. heads'[Sprint] = tracking'[Sprint] /\ heads'[Sprint] # {}
      BY <2>1, <3>2, RefsType
    <3>4. Busy(c) /\ ~At(c, "fetch")
      BY <3>2 DEF At, Busy, Working
    <3>5. QED
      BY <3>1, <3>2, <3>3, <3>4, SprintDone
  <2>2. CASE ~(heads[Sprint] = {} /\ tracking[Sprint] # {})
    BY <1>8, <2>2, AnswerActs DEF Adopt, NewBranch
  <2>3. QED
    BY <2>1, <2>2
<1>9. CASE CreateSprint(c)
  <2>1. CASE heads[Sprint] = {} /\ StartPoint # {}
    <3> DEFINE me == [call[c] EXCEPT !.pc = "push", !.own = FALSE]
    <3>1. me.pc = "push" /\ me.seen = call[c].seen
      BY DEF Safe, TInv, TypeOK, CallRecord
    <3>2. /\ Become(c, me) /\ At(c, "fresh") /\ UNCHANGED tracking
          /\ heads' = [heads EXCEPT ![Sprint] = StartPoint]
      BY <1>9, <2>1 DEF CreateSprint, NewBranch
    <3> HIDE DEF me
    <3>3. heads'[Sprint] # {}
      BY <2>1, <3>2, RefsType
    <3>4. \A b \in Shared : call[c].seen[b] \subseteq tracking'[b]
      BY <1>0, <3>2 DEF CallInv, Busy, At, Working
    <3>5. call'[c] = me
      BY <3>2, Becoming
    <3>6. CallInv(c)'
      BY <3>1, <3>3, <3>4, <3>5 DEF CallInv, At, Passed, SawRemote
    <3>7. QED
      BY <3>2, <3>6, Acts
  <2>2. CASE ~(heads[Sprint] = {} /\ StartPoint # {})
    BY <1>9, <2>2, AnswerActs DEF CreateSprint, NewBranch
  <2>3. QED
    BY <2>1, <2>2
<1>10. CASE Push(c)
  <2>1. CASE Accepted
    <3> DEFINE me == [call[c] EXCEPT !.pc = "task"]
    <3>1. me.pc = "task" /\ me.seen = call[c].seen
      BY DEF Safe, TInv, TypeOK, CallRecord
    <3>2. /\ Become(c, me) /\ At(c, "push") /\ UNCHANGED heads
          /\ tracking' = [tracking EXCEPT ![Sprint] = heads[Sprint]]
      BY <1>10, <2>1 DEF Push, Goto
    <3> HIDE DEF me
    <3>3. heads'[Sprint] = tracking'[Sprint] /\ heads'[Sprint] # {}
      BY <1>0, <3>2, RefsType DEF CallInv, At, HasSprint
    <3>4. Busy(c) /\ ~At(c, "fetch")
      BY <3>2 DEF At, Busy, Working
    <3>5. QED
      BY <3>1, <3>2, <3>3, <3>4, SprintDone
  <2>2. CASE ~Accepted
    BY <1>10, <2>2, AnswerActs DEF Push
  <2>3. QED
    BY <2>1, <2>2
<1>11. CASE InspectTask(c) \/ CreateTask(c) \/ ListTrees(c) \/ RemoveStale(c) \/ Settle(c) \/ AddTree(c)
  <2>1. call[c].pc \in Passed
    BY <1>11 DEF InspectTask, CreateTask, ListTrees, RemoveStale, Settle, AddTree, At, Passed
  <2>2. ASSUME NEW pc \in Passed, Goto(c, pc) PROVE \A d \in Calls : CallInv(d)'
    <3> DEFINE me == [call[c] EXCEPT !.pc = pc]
    <3>1. me.pc \in Passed /\ me.seen = call[c].seen
      BY DEF Safe, TInv, TypeOK, CallRecord
    <3>2. Become(c, me)
      BY <2>2 DEF Goto
    <3> HIDE DEF me
    <3>3. QED
      BY <2>1, <3>1, <3>2, PassedActs
  <2>3. CASE InspectTask(c)
    <3> DEFINE me == [call[c] EXCEPT !.pc = "branch", !.own = tracking[TaskOf(c)] # {}]
    <3>1. me.pc \in Passed /\ me.seen = call[c].seen
      BY DEF Safe, TInv, TypeOK, CallRecord, Passed
    <3>2. Become(c, me) \/ Goto(c, "list")
      BY <2>3 DEF InspectTask
    <3> HIDE DEF me
    <3>3. QED
      BY <2>1, <2>2, <3>1, <3>2, PassedActs DEF Passed
  <2>4. CASE CreateTask(c)
    <3> DEFINE me == [call[c] EXCEPT !.pc = "list", !.own = FALSE]
    <3>1. me.pc \in Passed /\ me.seen = call[c].seen
      BY DEF Safe, TInv, TypeOK, CallRecord, Passed
    <3>2. Become(c, me) \/ Answer(c, "git_failed")
      BY <2>4 DEF CreateTask, NewBranch
    <3> HIDE DEF me
    <3>3. QED
      BY <2>1, <3>1, <3>2, PassedActs, AnswerActs
  <2>5. CASE ListTrees(c)
    <3> DEFINE me == [call[c] EXCEPT !.pc = "stale", !.list = Listing,
                                     !.left = Relevant(c, Listing)]
    <3>1. me.pc \in Passed /\ me.seen = call[c].seen
      BY DEF Safe, TInv, TypeOK, CallRecord, Passed
    <3>2. Become(c, me)
      BY <2>5 DEF ListTrees
    <3> HIDE DEF me
    <3>3. QED
      BY <2>1, <3>1, <3>2, PassedActs
  <2>6. CASE RemoveStale(c)
    <3>1. PICK p \in call[c].left, removed \in BOOLEAN :
             Looked(c, p, removed) \/ Answer(c, "git_failed")
      BY <2>6, Looks DEF Safe, TInv
    <3> DEFINE me == AfterLook(c, p, removed)
    <3>2. me.pc = call[c].pc /\ me.seen = call[c].seen
      BY DEF Safe, TInv, TypeOK, CallRecord, AfterLook
    <3>3. Become(c, me) \/ Answer(c, "git_failed")
      BY <3>1 DEF Looked
    <3> HIDE DEF me
    <3>4. QED
      BY <2>1, <3>2, <3>3, PassedActs, AnswerActs
  <2>7. CASE Settle(c)
    <3>1. PICK next \in {"base", "add"} :
             \/ Answer(c, "conflict")
             \/ Become(c, [call[c] EXCEPT !.pc = next, !.list = NoList, !.removed = FALSE])
      BY <2>7 DEF Settle
    <3> DEFINE me == [call[c] EXCEPT !.pc = next, !.list = NoList, !.removed = FALSE]
    <3>2. me.pc \in Passed /\ me.seen = call[c].seen
      BY DEF Safe, TInv, TypeOK, CallRecord, Passed
    <3>3. Become(c, me) \/ Answer(c, "conflict")
      BY <3>1
    <3> HIDE DEF me
    <3>4. QED
      BY <2>1, <3>2, <3>3, PassedActs, AnswerActs
  <2>8. CASE AddTree(c)
    <3>1. Goto(c, "base") \/ Answer(c, "git_failed")
      BY <2>8 DEF AddTree
    <3>2. QED
      BY <2>2, <3>1, AnswerActs DEF Passed
  <2>9. QED
    BY <1>11, <2>3, <2>4, <2>5, <2>6, <2>7, <2>8
<1>12. CASE Finish(c)
  <2>1. CASE heads[TaskOf(c)] \cap heads[Sprint] # {}
    <3> DEFINE me == [Answered(c, "ok") EXCEPT !.base = heads[TaskOf(c)] \cap heads[Sprint]]
    <3>1. me.pc = "ok" /\ me.base \subseteq heads[Sprint]
      BY DEF Answered, Idle
    <3>2. Become(c, me) /\ UNCHANGED <<refs, late>> /\ At(c, "base")
      BY <1>12, <2>1 DEF Finish, env
    <3> HIDE DEF me
    <3>3. call'[c] = me
      BY <3>2, Becoming
    <3>4. heads[Sprint] \ late \subseteq origin[Sprint]
      BY <1>0, <3>2 DEF CallInv, At, Passed
    <3>5. CallInv(c)'
      BY <3>1, <3>2, <3>3, <3>4
      DEF CallInv, Busy, Working, At, Passed, SawRemote, HasSprint, refs
    <3>6. QED
      BY <3>2, <3>5, Acts
  <2>2. CASE ~(heads[TaskOf(c)] \cap heads[Sprint] # {})
    BY <1>12, <2>2, AnswerActs DEF Finish
  <2>3. QED
    BY <2>1, <2>2
<1>13. QED
  BY <1>1, <1>2, <1>3, <1>4, <1>5, <1>6, <1>7, <1>8, <1>9, <1>10, <1>11, <1>12 DEF CallStep, Step

(* Safe is inductive, and in safe states branches only evolve.             *)
LEMMA NextSafe == Safe /\ [Next]_vars => Safe' /\ (Next => Evolves)
<1>1. ASSUME Safe, Next PROVE Safe' /\ Evolves
  <2>1. Evolves
    BY <1>1, CallEvolves, AroundEvolves DEF Next
  <2>2. \A c \in Calls : CallInv(c)'
    <3>1. ASSUME NEW c \in Calls, CallStep(c) PROVE \A d \in Calls : CallInv(d)'
      BY <1>1, <2>1, <3>1, CallActs
    <3>2. CASE Around
      BY <1>1, <2>1, <3>2, AroundEvolves, OthersKeep
    <3>3. QED
      BY <1>1, <3>1, <3>2 DEF Next
  <2>3. TInv'
    BY <1>1, NextTInv DEF Safe
  <2>4. QED
    BY <2>1, <2>2, <2>3 DEF Safe, Evolves, Fetched
<1>2. ASSUME Safe, UNCHANGED vars PROVE Safe'
  <2>1. TInv'
    BY <1>2, NextTInv DEF Safe
  <2>2. QED
    BY <1>2, <2>1 DEF Safe, Fetched, CallInv, Busy, At, vars, refs, env
<1>3. QED
  BY <1>1, <1>2 DEF Safe

(* Safe holds in every reachable state.                                    *)
LEMMA SafeCorrect == Spec => []Safe
BY InitSafe, NextSafe, PTL DEF Spec

(* BasesArePublished for any number of calls, tasks, faults and events.    *)
THEOREM BasesAlwaysPublished == Spec => []BasesArePublished
<1>1. Safe => BasesArePublished
  BY DEF Safe, CallInv, BasesArePublished
<1>2. QED
  BY <1>1, SafeCorrect, PTL

(* SprintMovesForward: a fast-forward decided by one command and done by   *)
(* another loses nothing but late commits, however many preparations and   *)
(* people are at work between the two.                                     *)
THEOREM SprintAlwaysForward == Spec => SprintMovesForward
<1>1. Safe /\ [Next]_vars => [heads[Sprint] \ heads'[Sprint] \subseteq late]_vars
  BY NextSafe DEF Evolves
<1>2. QED
  BY <1>1, SafeCorrect, PTL DEF Spec, SprintMovesForward

(* The branch a call creates.                                              *)
LEMMA Creates ==
    ASSUME Safe, NEW d \in Calls, CallStep(d), NEW b \in Branches,
           heads[b] = {}, heads'[b] # {}
    PROVE  /\ \A c \in Calls \ {d} : call'[c] = call[c]
           /\ \/ heads'[b] = tracking[b]
              \/ call[d].seen[IF b = Sprint THEN Default ELSE Sprint] \ late \subseteq heads'[b]
<1>0. CallInv(d)
  BY DEF Safe
<1>1. CASE Adopt(d)
  <2>1. heads' = [heads EXCEPT ![Sprint] = tracking[Sprint]] /\ \E me : Become(d, me)
    BY <1>1 DEF Adopt, NewBranch
  <2>2. b = Sprint /\ heads'[b] = tracking[b]
    BY <2>1, RefsType
  <2>3. QED
    BY <2>1, <2>2, Becoming
<1>2. CASE CreateSprint(d)
  <2>1. heads' = [heads EXCEPT ![Sprint] = StartPoint] /\ \E me : Become(d, me)
    BY <1>2 DEF CreateSprint, NewBranch
  <2>2. b = Sprint /\ heads'[b] = StartPoint
    BY <2>1, RefsType
  <2>3. call[d].seen[Default] \subseteq tracking[Default]
    BY <1>0, <1>2 DEF CreateSprint, CallInv, At, Busy, Working, Shared
  <2>4. call[d].seen[Default] \subseteq StartPoint
    BY <2>3 DEF StartPoint
  <2>5. QED
    BY <2>1, <2>2, <2>4, Becoming
<1>3. CASE CreateTask(d)
  <2> DEFINE start == IF call[d].own THEN tracking[TaskOf(d)] ELSE heads[Sprint]
  <2>1. heads' = [heads EXCEPT ![TaskOf(d)] = start] /\ \E me : Become(d, me)
    BY <1>3 DEF CreateTask, NewBranch
  <2>2. TaskOf(d) \in Tasks
    BY <1>3, DesiredType DEF CreateTask, At, Busy, Working, Safe
  <2>3. b = TaskOf(d) /\ heads'[b] = start /\ b # Sprint
    BY <2>1, <2>2, RefsType
  <2>4. call[d].seen[Sprint] \ late \subseteq heads[Sprint]
    BY <1>0, <1>3 DEF CreateTask, CallInv, At, Passed
  <2>5. QED
    BY <2>1, <2>3, <2>4, Becoming
<1>4. CASE ForceBranch(d)
  <2>1. heads[Sprint] # {}
    BY <1>0, <1>4 DEF ForceBranch, CallInv, At, HasSprint
  <2>2. heads' = heads \/ heads' = [heads EXCEPT ![Sprint] = tracking[Sprint]]
    BY <1>4 DEF ForceBranch
  <2>3. QED
    BY <2>1, <2>2, RefsType
<1>5. CASE heads' = heads
  BY <1>5
<1>6. QED
  BY <1>1, <1>2, <1>3, <1>4, <1>5
  DEF CallStep, Step, Begin, Retry, Fetch, InspectSprint, Compare, CheckCheckedOut, Push,
      InspectTask, ListTrees, RemoveStale, Settle, AddTree, Finish, CutOff, PushUnanswered,
      AddKilled, refs

(* NewBranchesAreCurrent: what a call bases a new branch on has not fallen *)
(* behind its own fetch, whatever other preparations did since.            *)
THEOREM NewBranchesAlwaysCurrent == Spec => NewBranchesAreCurrent
<1> DEFINE Current ==
      \A c \in Calls, b \in Branches :
          heads[b] = {} /\ heads'[b] # {} /\ call'[c] # call[c]
             => \/ heads'[b] = tracking[b]
                \/ call[c].seen[IF b = Sprint THEN Default ELSE Sprint] \ late
                      \subseteq heads'[b]
<1>1. Safe /\ Next => Current
  BY Creates, AroundEvolves DEF Next
<1>2. Safe /\ [Next]_vars => [Current]_vars
  BY <1>1
<1>3. QED
  BY <1>2, SafeCorrect, PTL DEF Spec, NewBranchesAreCurrent
-----------------------------------------------------------------------------
(* The safety of the worktrees.  The worktree at a path is on the branch   *)
(* of the path's task or on none, so only a call for that task adds or     *)
(* removes there; and calls for one task that overlap know it.             *)

OwnBranches == \A r \in Roots, t \in Tasks :
    trees[<<r, t>>] # None => trees[<<r, t>>].branch \in {t, None}

KnowEachOther == \A c, d \in Calls :
    c # d /\ Busy(c) /\ Busy(d) /\ TaskOf(c) = TaskOf(d) => ~call[c].alone

(* What a call has left to look at is of its listing, and on the branch or *)
(* at the path it is for.                                                  *)
InList(me) == \A p \in me.left :
    /\ me.list[p] # None
    /\ me.list[p].branch = me.task \/ p = <<me.root, me.task>>

ListInv(c) ==
    At(c, "stale") =>
       /\ InList(call[c])
       /\ \A r \in Roots, t \in Tasks :
             call[c].list[<<r, t>>] # None => call[c].list[<<r, t>>].branch \in {t, None}
       /\ call[c].alone =>
             \A r \in Roots :
                call[c].list[<<r, TaskOf(c)>>] # None /\ call[c].list[<<r, TaskOf(c)>>].prunable
                   => disk[<<r, TaskOf(c)>>] # "full"

Kept == TInv /\ OwnBranches /\ KnowEachOther /\ \A c \in Calls : ListInv(c)

(* A call that looks for stale trees has just listed them, or goes on with *)
(* what it has listed.                                                     *)
Looking(c, me) ==
    /\ me.root = call[c].root
    /\ \/ At(c, "list") /\ me.list = Listing /\ me.left = Relevant(c, Listing)
       \/ At(c, "stale") /\ me.list = call[c].list /\ me.left \subseteq call[c].left

(* A call that goes on keeps its request, and what it has listed.          *)
Onward(c) ==
    /\ Busy(c) /\ \A d \in Calls \ {c} : call'[d] = call[d]
    /\ call'[c].pc \in Working => /\ call'[c].task = call[c].task
                                  /\ call'[c].alone = call[c].alone
    /\ call'[c].pc = "stale" => Looking(c, call'[c])

(* A step that keeps the task and the premise of its call, and lists       *)
(* before it looks for stale trees, leads onward.                          *)
LEMMA OnwardBy ==
    ASSUME TInv, NEW c \in Calls, Busy(c), NEW me, Become(c, me),
           me.pc \in Working => me.task = call[c].task /\ me.alone = call[c].alone,
           me.pc = "stale" => Looking(c, me)
    PROVE  Onward(c)
BY DEF TInv, TypeOK, Become, Onward

(* An answer leads onward.                                                 *)
LEMMA OnwardAnswer ==
    ASSUME TInv, NEW c \in Calls, Busy(c), NEW answer \in Answers, Answer(c, answer)
    PROVE  Onward(c)
<1>1. Answered(c, answer).pc = answer
  BY DEF Answered, Idle
<1>2. answer \notin Working /\ answer # "stale"
  BY DEF Answers, Working
<1>3. QED
  BY <1>1, <1>2, OnwardBy DEF Answer

(* So does a step to any place but the stale trees.                        *)
LEMMA OnwardGoto ==
    ASSUME TInv, NEW c \in Calls, Busy(c), NEW pc, pc # "stale", Goto(c, pc)
    PROVE  Onward(c)
<1> DEFINE me == [call[c] EXCEPT !.pc = pc]
<1>1. me.pc = pc /\ me.task = call[c].task /\ me.alone = call[c].alone
  BY DEF TInv, TypeOK, CallRecord
<1>2. Become(c, me)
  BY DEF Goto
<1> HIDE DEF me
<1>3. QED
  BY <1>1, <1>2, OnwardBy

(* So does the creation of a branch.                                       *)
LEMMA OnwardNewBranch ==
    ASSUME TInv, NEW c \in Calls, Busy(c), NEW b, NEW start, NEW next, next # "stale",
           NewBranch(c, b, start, next)
    PROVE  Onward(c)
<1> DEFINE me == [call[c] EXCEPT !.pc = next, !.own = FALSE]
<1>1. me.pc = next /\ me.task = call[c].task /\ me.alone = call[c].alone
  BY DEF TInv, TypeOK, CallRecord
<1>2. Become(c, me) \/ Answer(c, "git_failed")
  BY DEF NewBranch
<1> HIDE DEF me
<1>3. QED
  BY <1>1, <1>2, OnwardBy, OnwardAnswer DEF Answers

(* A step of a call is its beginning, or goes on.                          *)
LEMMA CallOnward ==
    ASSUME TInv, NEW c \in Calls, CallStep(c)
    PROVE  \/ \E t \in Tasks, r \in Roots : call' = Entered(c, t, r) /\ UNCHANGED <<trees, disk>>
           \/ Onward(c)
<1> USE DEF Answers
<1>0. call[c] \in CallRecord
  BY DEF TInv, TypeOK
<1>1. CASE \E t \in Tasks, r \in Roots : Begin(c, t, r)
  BY <1>1 DEF Begin
<1>2. CASE Retry(c)
  BY <1>2 DEF Retry, TInv, Named
<1>3. CASE CutOff(c) \/ PushUnanswered(c) \/ AddKilled(c)
  <2>1. Busy(c) /\ Answer(c, "git_failed")
    BY <1>3 DEF CutOff, PushUnanswered, AddKilled, At, Busy, Working
  <2>2. QED
    BY <2>1, OnwardAnswer
<1>4. CASE Step(c)
  <2>0. Busy(c)
    BY <1>4 DEF Step, Fetch, InspectSprint, Compare, CheckCheckedOut, ForceBranch, Adopt,
                CreateSprint, Push, InspectTask, CreateTask, ListTrees, RemoveStale, Settle,
                AddTree, Finish, At, Busy, Working
  <2>1. CASE Fetch(c)
    <3> DEFINE me == [call[c] EXCEPT !.pc = "sprint", !.seen = origin]
    <3>1. me.pc = "sprint" /\ me.task = call[c].task /\ me.alone = call[c].alone
      BY <1>0 DEF CallRecord
    <3>2. Become(c, me)
      BY <2>1 DEF Fetch
    <3> HIDE DEF me
    <3>3. QED
      BY <2>0, <3>1, <3>2, OnwardBy
  <2>2. CASE InspectSprint(c)
    <3> DEFINE me == [call[c] EXCEPT
                        !.pc = SprintCase,
                        !.current = IF SprintCase = "compare" THEN heads[Sprint] ELSE {}]
    <3>1. me.pc # "stale" /\ me.task = call[c].task /\ me.alone = call[c].alone
      BY <1>0 DEF CallRecord, SprintCase
    <3>2. Become(c, me)
      BY <2>2 DEF InspectSprint
    <3> HIDE DEF me
    <3>3. QED
      BY <2>0, <3>1, <3>2, OnwardBy
  <2>3. CASE Compare(c)
    <3> DEFINE me == [call[c] EXCEPT !.pc = "checkedOut", !.current = {}]
    <3>1. me.pc # "stale" /\ me.task = call[c].task /\ me.alone = call[c].alone
      BY <1>0 DEF CallRecord
    <3>2. Become(c, me) \/ Answer(c, "conflict") \/ Answer(c, "git_failed")
      BY <2>3 DEF Compare
    <3> HIDE DEF me
    <3>3. QED
      BY <2>0, <3>1, <3>2, OnwardBy, OnwardAnswer
  <2>4. CASE CheckCheckedOut(c) \/ ForceBranch(c) \/ Push(c) \/ AddTree(c)
    <3>1. PICK pc \in {"force", "task", "base"} :
             Goto(c, pc) \/ Answer(c, "conflict") \/ Answer(c, "git_failed")
      BY <2>4 DEF CheckCheckedOut, ForceBranch, Push, AddTree
    <3>2. QED
      BY <2>0, <3>1, OnwardGoto, OnwardAnswer
  <2>5. CASE Adopt(c) \/ CreateSprint(c) \/ CreateTask(c)
    <3>1. PICK b, start, next :
             /\ next \in {"task", "push", "list"}
             /\ NewBranch(c, b, start, next) \/ Answer(c, "invalid")
      BY <2>5 DEF Adopt, CreateSprint, CreateTask
    <3>2. QED
      BY <2>0, <3>1, OnwardNewBranch, OnwardAnswer
  <2>6. CASE InspectTask(c)
    <3> DEFINE me == [call[c] EXCEPT !.pc = "branch", !.own = tracking[TaskOf(c)] # {}]
    <3>1. me.pc # "stale" /\ me.task = call[c].task /\ me.alone = call[c].alone
      BY <1>0 DEF CallRecord
    <3>2. Become(c, me) \/ Goto(c, "list")
      BY <2>6 DEF InspectTask
    <3> HIDE DEF me
    <3>3. QED
      BY <2>0, <3>1, <3>2, OnwardBy, OnwardGoto
  <2>7. CASE ListTrees(c)
    <3> DEFINE me == [call[c] EXCEPT !.pc = "stale", !.list = Listing,
                                     !.left = Relevant(c, Listing)]
    <3>1. me.task = call[c].task /\ me.alone = call[c].alone /\ Looking(c, me)
      BY <1>0, <2>7 DEF CallRecord, Looking, ListTrees
    <3>2. Become(c, me)
      BY <2>7 DEF ListTrees
    <3> HIDE DEF me
    <3>3. QED
      BY <2>0, <3>1, <3>2, OnwardBy
  <2>8. CASE RemoveStale(c)
    <3>1. PICK p \in call[c].left, removed \in BOOLEAN :
             Looked(c, p, removed) \/ Answer(c, "git_failed")
      BY <2>8, Looks DEF TInv
    <3> DEFINE me == AfterLook(c, p, removed)
    <3>2. me.task = call[c].task /\ me.alone = call[c].alone /\ Looking(c, me)
      BY <1>0, <2>8 DEF CallRecord, Looking, AfterLook, RemoveStale
    <3>3. Become(c, me) \/ Answer(c, "git_failed")
      BY <3>1 DEF Looked
    <3> HIDE DEF me
    <3>4. QED
      BY <2>0, <3>2, <3>3, OnwardBy, OnwardAnswer
  <2>9. CASE Settle(c)
    <3>1. PICK next \in {"base", "add"} :
             \/ Answer(c, "conflict")
             \/ Become(c, [call[c] EXCEPT !.pc = next, !.list = NoList, !.removed = FALSE])
      BY <2>9 DEF Settle
    <3> DEFINE me == [call[c] EXCEPT !.pc = next, !.list = NoList, !.removed = FALSE]
    <3>2. me.pc # "stale" /\ me.task = call[c].task /\ me.alone = call[c].alone
      BY <1>0 DEF CallRecord
    <3>3. Become(c, me) \/ Answer(c, "conflict")
      BY <3>1
    <3> HIDE DEF me
    <3>4. QED
      BY <2>0, <3>2, <3>3, OnwardBy, OnwardAnswer
  <2>10. CASE Finish(c)
    <3> DEFINE base == heads[TaskOf(c)] \cap heads[Sprint]
               me   == [Answered(c, "ok") EXCEPT !.base = base]
    <3>1. me.pc = "ok" /\ "ok" \notin Working
      BY DEF Answered, Idle, Working
    <3>2. Become(c, me) \/ Answer(c, "git_failed")
      BY <2>10 DEF Finish
    <3> HIDE DEF me
    <3>3. QED
      BY <2>0, <3>1, <3>2, OnwardBy, OnwardAnswer
  <2>11. QED
    BY <1>4, <2>1, <2>2, <2>3, <2>4, <2>5, <2>6, <2>7, <2>8, <2>9, <2>10 DEF Step
<1>5. QED
  BY <1>1, <1>2, <1>3, <1>4 DEF CallStep

(* What the calls, and what everyone else does to the worktrees.           *)
LEMMA CallTrees ==
    ASSUME TInv, OwnBranches, NEW c \in Calls, CallStep(c)
    PROVE  /\ OwnBranches'
           /\ \A p \in Places : disk'[p] = "full" /\ disk[p] # "full"
                                   => At(c, "add") /\ p = Desired(c)
<1>0. trees \in [Places -> Tree \cup {None}] /\ disk \in [Places -> Disk]
        /\ \A r \in Roots, t \in Tasks : <<r, t>> \in Places
  BY Names DEF TInv, TypeOK, Paths
<1>1. CASE UNCHANGED <<trees, disk>>
  BY <1>1 DEF OwnBranches
<1>2. CASE RemoveStale(c) /\ ~UNCHANGED <<trees, disk>>
  <2>1. PICK p : trees' = [trees EXCEPT ![p] = None] /\ disk' = [disk EXCEPT ![p] = "absent"]
    BY <1>2, Looks DEF TInv, Removes
  <2>2. OwnBranches'
    BY <1>0, <2>1 DEF OwnBranches
  <2>3. QED
    BY <1>0, <2>1, <2>2
<1>3. CASE (AddTree(c) \/ AddKilled(c)) /\ ~UNCHANGED <<trees, disk>>
  <2>1. At(c, "add") /\ Busy(c)
    BY <1>3 DEF AddTree, AddKilled, At, Busy, Working
  <2>2. TaskOf(c) \in Tasks /\ call[c].root \in Roots /\ Desired(c) = <<call[c].root, TaskOf(c)>>
    BY <2>1 DEF TInv, Named, Desired, TaskOf
  <2>3. PICK b \in {TaskOf(c), None}, l \in BOOLEAN, what \in {"full", "torn"} :
           /\ trees' = [trees EXCEPT ![Desired(c)] = [branch |-> b, locked |-> l]]
           /\ disk' = [disk EXCEPT ![Desired(c)] = what]
    <3>1. CASE AddTree(c)
      BY <1>3, <3>1 DEF AddTree
    <3>2. CASE AddKilled(c)
      BY <3>2 DEF AddKilled
    <3>3. QED
      BY <1>3, <3>1, <3>2
  <2>4. OwnBranches'
    BY <1>0, <2>2, <2>3 DEF OwnBranches
  <2>5. QED
    BY <1>0, <2>1, <2>3, <2>4
<1>4. QED
  BY <1>1, <1>2, <1>3
  DEF CallStep, Step, Begin, Retry, Fetch, InspectSprint, Compare, CheckCheckedOut, ForceBranch,
      Adopt, CreateSprint, Push, InspectTask, CreateTask, ListTrees, Settle, Finish, CutOff,
      PushUnanswered

(* What GitHub, agents and people do keeps trees on their own branch,      *)
(* fills no directory and leaves the calls.                                *)
LEMMA AroundTrees ==
    ASSUME TInv, OwnBranches, Around
    PROVE  /\ OwnBranches' /\ UNCHANGED call
           /\ \A p \in Places : disk'[p] = "full" => disk[p] = "full"
<1>0. trees \in [Places -> Tree \cup {None}] /\ disk \in [Places -> Disk]
        /\ \A r \in Roots, t \in Tasks : <<r, t>> \in Places /\ <<r, t>> # Main
  BY Names DEF TInv, TypeOK, Paths
<1>1. CASE UNCHANGED <<trees, disk, call>>
  BY <1>1 DEF OwnBranches
<1>2. ASSUME NEW b \in Branches, Checkout(b)
      PROVE  OwnBranches' /\ UNCHANGED <<disk, call>>
  BY <1>0, <1>2 DEF Checkout, OwnBranches
<1>3. ASSUME NEW p \in Paths, Detach(p)
      PROVE  OwnBranches' /\ UNCHANGED <<disk, call>>
  <2>1. trees[p] \in Tree
    BY <1>0, <1>3, Names DEF Detach
  <2>2. [trees[p] EXCEPT !.branch = None].branch = None
    BY <2>1 DEF Tree
  <2>3. QED
    BY <1>0, <1>3, <2>2 DEF Detach, OwnBranches
<1>4. ASSUME NEW p \in Paths, Lose(p) \/ Block(p)
      PROVE  /\ UNCHANGED <<trees, call>>
             /\ \A q \in Places : disk'[q] = "full" => disk[q] = "full"
  BY <1>0, <1>4 DEF Lose, Block, Foreign
<1>5. QED
  BY <1>1, <1>2, <1>3, <1>4
  DEF Around, RemoteCommit, MergeTask, AgentPush, DropBranch, LocalCommit, OwnBranches

(* What a listing says of a tree at a task's path: its branch is the       *)
(* task's or none, and a prunable one has no files.                        *)
LEMMA ListingKnows ==
    ASSUME TInv, OwnBranches, NEW r \in Roots, NEW t \in Tasks, Listing[<<r, t>>] # None
    PROVE  /\ Listing[<<r, t>>].branch \in {t, None}
           /\ Listing[<<r, t>>].prunable => disk[<<r, t>>] # "full"
<1>1. <<r, t>> \in Places
  BY Names DEF Paths
<1>2. QED
  BY <1>1 DEF OwnBranches, Listing, Foreign

(* Calls for one task that overlap learn of each other when one begins.    *)
LEMMA EnterKnows ==
    ASSUME TInv, KnowEachOther, NEW c \in Calls, NEW t \in Tasks, NEW r \in Roots,
           call' = Entered(c, t, r)
    PROVE  KnowEachOther'
<1>1. SUFFICES ASSUME NEW d \in Calls, NEW e \in Calls, d # e, Busy(d)', Busy(e)',
                      TaskOf(d)' = TaskOf(e)'
               PROVE  ~call'[d].alone
  BY DEF KnowEachOther
<1>2. \A f \in Calls : call[f] \in CallRecord
  BY DEF TInv, TypeOK
<1>3. ASSUME NEW f \in Calls, f # c, Busy(f)'
      PROVE  /\ Busy(f) /\ TaskOf(f)' = TaskOf(f)
             /\ TaskOf(f) = t => ~call'[f].alone
             /\ TaskOf(f) # t => call'[f] = call[f]
  BY <1>2, <1>3 DEF Entered, Busy, TaskOf, CallRecord
<1>4. call'[c].task = t
        /\ call'[c].alone = \A f \in Calls \ {c} : ~(Busy(f) /\ TaskOf(f) = t)
  BY DEF Entered, Idle
<1>5. CASE d = c
  BY <1>1, <1>3, <1>4, <1>5 DEF TaskOf
<1>6. CASE e = c
  BY <1>1, <1>3, <1>4, <1>6 DEF TaskOf
<1>7. CASE d # c /\ e # c
  BY <1>1, <1>3, <1>7 DEF KnowEachOther
<1>8. QED
  BY <1>5, <1>6, <1>7

(* Overlapping calls for one task go on knowing each other.                *)
LEMMA OnwardKnows ==
    ASSUME TInv, KnowEachOther, NEW c \in Calls, Onward(c)
    PROVE  KnowEachOther'
<1>1. SUFFICES ASSUME NEW d \in Calls, NEW e \in Calls, d # e, Busy(d)', Busy(e)',
                      TaskOf(d)' = TaskOf(e)'
               PROVE  ~call'[d].alone
  BY DEF KnowEachOther
<1>2. ASSUME NEW f \in Calls, Busy(f)'
      PROVE  Busy(f) /\ TaskOf(f)' = TaskOf(f) /\ call'[f].alone = call[f].alone
  BY <1>2 DEF Onward, Busy, TaskOf
<1>3. QED
  BY <1>1, <1>2 DEF KnowEachOther

(* What a call that is alone has listed as stale stays without files,      *)
(* whatever any call does.                                                 *)
LEMMA CallLists ==
    ASSUME Kept, NEW c \in Calls, CallStep(c), NEW d \in Calls
    PROVE  ListInv(d)'
<1>1. SUFFICES ASSUME At(d, "stale")'
               PROVE  /\ InList(call'[d])
                      /\ \A r \in Roots, t \in Tasks :
                            call'[d].list[<<r, t>>] # None
                              => call'[d].list[<<r, t>>].branch \in {t, None}
                      /\ call'[d].alone =>
                            \A r \in Roots :
                               /\ call'[d].list[<<r, call'[d].task>>] # None
                               /\ call'[d].list[<<r, call'[d].task>>].prunable
                               => disk'[<<r, call'[d].task>>] # "full"
  BY DEF ListInv, TaskOf
<1>2. /\ \/ \E t \in Tasks, r \in Roots : call' = Entered(c, t, r) /\ UNCHANGED <<trees, disk>>
         \/ Onward(c)
      /\ \A p \in Places : disk'[p] = "full" /\ disk[p] # "full"
                              => At(c, "add") /\ p = Desired(c)
  BY CallOnward, CallTrees DEF Kept
<1>3. \A f \in Calls : call[f] \in CallRecord
  BY DEF Kept, TInv, TypeOK
<1>4. call'[d].task = call[d].task /\ call[d].task \in Tasks /\ Busy(d)
        /\ (call'[d].alone => call[d].alone)
  <2>1. Busy(d) /\ call'[d].task = call[d].task /\ (call'[d].alone => call[d].alone)
    <3>1. CASE Onward(c)
      BY <1>1, <3>1 DEF Onward, Busy, At, Working
    <3>2. ASSUME NEW t \in Tasks, NEW r \in Roots, call' = Entered(c, t, r)
          PROVE  /\ Busy(d) /\ call'[d].task = call[d].task
                 /\ (call'[d].alone => call[d].alone)
      <4>1. d # c
        BY <1>1, <3>2 DEF Entered, Idle, At
      <4>2. QED
        BY <1>1, <1>3, <3>2, <4>1 DEF Entered, Busy, At, Working, CallRecord
    <3>3. QED
      BY <1>2, <3>1, <3>2
  <2>2. QED
    BY <2>1 DEF Kept, TInv, Named, TaskOf
<1>5. CASE /\ At(d, "stale") /\ call'[d].list = call[d].list
           /\ call'[d].left \subseteq call[d].left /\ call'[d].root = call[d].root
  <2>1. ASSUME call'[d].alone, NEW r \in Roots,
               call[d].list[<<r, call[d].task>>] # None,
               call[d].list[<<r, call[d].task>>].prunable
        PROVE  disk'[<<r, call[d].task>>] # "full"
    <3>1. disk[<<r, call[d].task>>] # "full" /\ call[d].alone
      BY <1>4, <1>5, <2>1 DEF Kept, ListInv, TaskOf
    <3>2. CASE At(c, "add") /\ <<r, call[d].task>> = Desired(c)
      <4>1. c # d /\ Busy(c) /\ TaskOf(c) = TaskOf(d)
        BY <1>5, <3>2 DEF At, Busy, Working, Desired, TaskOf
      <4>2. QED
        BY <1>4, <3>1, <4>1 DEF Kept, KnowEachOther
    <3>3. <<r, call[d].task>> \in Places
      BY <1>4, Names DEF Paths
    <3>4. QED
      BY <1>2, <3>1, <3>2, <3>3
  <2>2. InList(call'[d])
    BY <1>4, <1>5 DEF Kept, ListInv, InList
  <2>3. QED
    BY <1>4, <1>5, <2>1, <2>2 DEF Kept, ListInv
<1>6. CASE /\ d = c /\ At(d, "list") /\ call'[d].list = Listing
           /\ call'[d].left = Relevant(d, Listing) /\ call'[d].root = call[d].root
  <2>1. ASSUME NEW r \in Roots, Listing[<<r, call[d].task>>] # None,
               Listing[<<r, call[d].task>>].prunable
        PROVE  disk'[<<r, call[d].task>>] # "full"
    <3>1. disk[<<r, call[d].task>>] # "full" /\ <<r, call[d].task>> \in Places
      BY <1>4, <2>1, ListingKnows, Names DEF Kept, Paths
    <3>2. ~At(c, "add")
      BY <1>6 DEF At
    <3>3. QED
      BY <1>2, <3>1, <3>2
  <2>2. InList(call'[d])
    BY <1>4, <1>6 DEF InList, Relevant, OnBranch, Desired, TaskOf
  <2>3. QED
    BY <1>4, <1>6, <2>1, <2>2, ListingKnows DEF Kept
<1>7. CASE Onward(c)
  BY <1>1, <1>5, <1>6, <1>7 DEF Onward, Looking, At
<1>8. ASSUME NEW t \in Tasks, NEW r \in Roots, call' = Entered(c, t, r)
      PROVE  /\ At(d, "stale") /\ call'[d].list = call[d].list
             /\ call'[d].left \subseteq call[d].left /\ call'[d].root = call[d].root
  <2>1. d # c
    BY <1>1, <1>8 DEF Entered, Idle, At
  <2>2. QED
    BY <1>1, <1>3, <1>8, <2>1 DEF Entered, At, CallRecord
<1>9. QED
  BY <1>2, <1>5, <1>7, <1>8

(* At the start no call overlaps another and no tree is on a foreign       *)
(* branch.                                                                 *)
THEOREM InitKept == Init => Kept
<1> SUFFICES ASSUME Init PROVE Kept
  OBVIOUS
<1>1. \A c \in Calls : call[c].pc = "idle"
  BY DEF Init, Idle
<1>2. KnowEachOther /\ \A c \in Calls : ListInv(c)
  BY <1>1 DEF KnowEachOther, ListInv, Busy, At, Working
<1>3. OwnBranches
  BY Names DEF Init, OwnBranches, Paths
<1>4. QED
  BY <1>2, <1>3, InitTInv DEF Kept

(* Kept is inductive.                                                      *)
LEMMA NextKept == Kept /\ [Next]_vars => Kept'
<1>1. ASSUME Kept, NEW c \in Calls, CallStep(c) PROVE Kept'
  <2>1. KnowEachOther'
    BY <1>1, CallOnward, EnterKnows, OnwardKnows DEF Kept
  <2>2. TInv'
    BY <1>1, NextTInv DEF Kept, Next
  <2>3. QED
    BY <1>1, <2>1, <2>2, CallTrees, CallLists DEF Kept
<1>2. ASSUME Kept, Around PROVE Kept'
  <2>1. TInv'
    BY <1>2, NextTInv DEF Kept, Next
  <2>2. OwnBranches' /\ UNCHANGED call /\ \A p \in Places : disk'[p] = "full" => disk[p] = "full"
    BY <1>2, AroundTrees DEF Kept
  <2>3. ASSUME NEW c \in Calls PROVE ListInv(c)'
    <3>1. At(c, "stale") => TaskOf(c) \in Tasks
      BY <1>2 DEF Kept, TInv, Named, At, Busy, Working
    <3>2. QED
      BY <1>2, <2>2, <3>1, Names
      DEF Kept, ListInv, At, TaskOf, Paths
  <2>4. KnowEachOther'
    BY <1>2, <2>2 DEF Kept, KnowEachOther, Busy, TaskOf
  <2>5. QED
    BY <2>1, <2>2, <2>3, <2>4 DEF Kept
<1>3. ASSUME Kept, UNCHANGED vars PROVE Kept'
  <2>1. TInv'
    BY <1>3, NextTInv DEF Kept
  <2>2. QED
    BY <1>3, <2>1
    DEF Kept, OwnBranches, KnowEachOther, ListInv, Busy, At, TaskOf, vars
<1>4. QED
  BY <1>1, <1>2, <1>3 DEF Next

(* WorkStays: a preparation that overlaps no other one for its task        *)
(* removes no worktree that has its files.                                 *)
THEOREM WorkAlwaysStays == Spec => WorkStays
<1> DEFINE Stays ==
      \A c \in Calls, p \in Places :
          disk[p] = "full" /\ disk'[p] # "full" /\ call'[c] # call[c] => ~call[c].alone
<1>1. ASSUME Kept, NEW d \in Calls, CallStep(d), NEW p \in Places,
             disk[p] = "full", disk'[p] # "full"
      PROVE  ~call[d].alone /\ \A c \in Calls \ {d} : call'[c] = call[c]
  <2>1. RemoveStale(d)
    BY <1>1
    DEF CallStep, Step, Begin, Retry, Fetch, InspectSprint, Compare, CheckCheckedOut,
        ForceBranch, Adopt, CreateSprint, Push, InspectTask, CreateTask, ListTrees, Settle,
        AddTree, Addable, Finish, CutOff, PushUnanswered, AddKilled, Kept, TInv, TypeOK
  <2>2. PICK q \in call[d].left : IsStale(d, q) /\ Removable(q) /\ Removes(q)
    BY <1>1, <2>1, Looks DEF Kept, TInv
  <2>3. p = q
    BY <1>1, <2>2 DEF Kept, TInv, TypeOK, Removes
  <2>4. At(d, "stale") /\ TaskOf(d) \in Tasks /\ TaskOf(d) # None
    <3>1. At(d, "stale") /\ TaskOf(d) \in Tasks
      BY <1>1, <2>1 DEF RemoveStale, Kept, TInv, Named, At, Busy, Working
    <3>2. QED
      BY <3>1, WorktreeAssumptions DEF Branches
  <2>5. /\ call[d].list[p] # None /\ call[d].list[p].prunable
        /\ p = Desired(d) \/ call[d].list[p].branch = TaskOf(d)
    BY <1>1, <2>2, <2>3, <2>4 DEF Kept, ListInv, InList, IsStale, Desired, TaskOf
  <2>6. PICK r \in Roots, t \in Tasks : p = <<r, t>>
    BY <1>1, <2>2, <2>3 DEF Removable, Places, Paths
  <2>7. t = TaskOf(d)
    BY <1>1, <2>4, <2>5, <2>6 DEF Kept, ListInv, Desired, TaskOf
  <2>8. ~call[d].alone
    BY <1>1, <2>4, <2>5, <2>6, <2>7 DEF Kept, ListInv
  <2>9. Onward(d)
    <3>1. disk' # disk
      BY <1>1
    <3>2. QED
      BY <1>1, <3>1, CallOnward DEF Kept
  <2>10. QED
    BY <2>8, <2>9 DEF Onward
<1>2. Kept /\ Next => Stays
  <2>1. ASSUME Kept, Around PROVE UNCHANGED call
    BY <2>1, AroundTrees DEF Kept
  <2>2. QED
    BY <1>1, <2>1 DEF Next
<1>3. Kept /\ [Next]_vars => [Stays]_vars
  BY <1>2
<1>4. Spec => []Kept
  BY InitKept, NextKept, PTL DEF Spec
<1>5. QED
  BY <1>3, <1>4, PTL DEF Spec, WorkStays
=============================================================================
