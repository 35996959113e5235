----------------------------- MODULE IssueSync -----------------------------
(***************************************************************************)
(* `toolhub sync-issues --apply`: the command that turns the plan's        *)
(* sprints and tasks into GitHub issues, links the tasks under their       *)
(* sprint and the blocked tasks to their blockers (internal/issuesync).    *)
(*                                                                         *)
(* A manifest file remembers which issue an item became.  Nothing else     *)
(* does: a run that ends between a call to GitHub and the next write of    *)
(* the file leaves GitHub ahead of the manifest, and the next run starts   *)
(* from what the file says.  The model follows one run call by call, lets  *)
(* every call fail, lose its answer or be cut off, lets a creation happen  *)
(* long after its answer was lost, lets the file be torn, and lets the     *)
(* plan change between runs.                                               *)
(***************************************************************************)
EXTENDS Naturals, FiniteSets, SequencesExt

CONSTANTS
  SprintOrder,  \* the plan's sprints, a sequence
  TaskOrder,    \* for each sprint, the sequence of its tasks
  BlockedBy,    \* BlockedBy[t][r]: what task t depends on while its body is revision r
  Unplanned,    \* a dependency on a task of the same sprint that the plan lacks
  PageSize,     \* how many issues one lookup by title returns (100 in the code)
  Misread,      \* the issues whose number or id contains the digits 422
  Revisions,    \* bound: the texts a title or a body can have, numbers
  MaxEdits,     \* bound: edits of the plan
  MaxFaults,    \* bound: failures of a call, crashes, torn writes, late creations
  MaxTries,     \* attempts of one creation (3 in the code)
  Torn          \* the manifest file after a write that did not complete

Sprints == ToSet(SprintOrder)
\* OrderedTasks: the tasks sprint by sprint.
OrderedTasks == FlattenSeq([i \in DOMAIN SprintOrder |-> TaskOrder[SprintOrder[i]]])
Tasks == ToSet(OrderedTasks)
Items == Sprints \union Tasks
\* The items in the order Sync writes them: all sprints, then all tasks.
Worklist == SprintOrder \o OrderedTasks
SprintOf(t) == CHOOSE s \in Sprints : t \in ToSet(TaskOrder[s])

Texts == [title : Revisions, body : Revisions]
\* What the manifest records of an item: the number and the text of its issue.
Records == [num : Nat, text : Texts]

ASSUME PlanAssumption ==
  /\ SprintOrder \in Seq(Sprints)
  /\ \A s \in Sprints : TaskOrder[s] \in Seq(Tasks)
  /\ \A t \in Tasks, r \in Revisions : BlockedBy[t][r] \subseteq Tasks \union {Unplanned}
  /\ Unplanned \notin Items
  /\ {PageSize, MaxTries} \subseteq Nat \ {0}
  /\ {MaxEdits, MaxFaults} \subseteq Nat /\ Misread \subseteq Nat
  /\ 0 \in Revisions /\ Revisions \subseteq Nat
  /\ \A D \in SUBSET Items : Torn \notin [D -> Records]

VARIABLES
  plan,      \* plan[i]: the revisions of title and body that the item renders to
  issues,    \* GitHub: the issues in the order of their numbers
  late,      \* issues whose creation was on its way to GitHub when its answer was
             \* lost; GitHub may yet create them, more than once if asked more than once
  file,      \* the manifest on disk, or Torn
  mem,       \* the manifest of the running command
  pc,        \* where the command is
  at,        \* its position in the list it works through
  tries,     \* failed attempts of the creation it is at
  listed,    \* the links GitHub listed before it adds the missing ones
  synced,    \* the last run ended without an error, and the plan is unchanged
  blind,     \* history: items created again although the answer to "is it there
             \* already?" was lost
  retitled,  \* history: items whose title the plan has changed
  adrift,    \* history: items GitHub shows in a text the manifest did not record
  edits, faults

command == <<mem, pc, at, tries, listed>>
history == <<blind, adrift>>
planned == <<plan, edits, retitled>>
vars == <<planned, issues, late, file, command, synced, history, faults>>

\* The tasks that task t depends on, as its body names them.  A dependency on a
\* task of another sprint is skipped.
Dependencies(t) == BlockedBy[t][plan[t].body]
LinkedBlockers(t) ==
  {b \in Dependencies(t) \intersect Tasks : SprintOf(b) = SprintOf(t)}
Dangling(t) == Unplanned \in Dependencies(t)

NoRecords == [i \in {} |-> 0]
Kind(i) == IF i \in Sprints THEN "sprint" ELSE "task"
Numbers == DOMAIN issues
With(m, i, r) == [j \in DOMAIN m \union {i} |-> IF j = i THEN r ELSE m[j]]

\* FindIssueByTitle: the first page of the issues with the item's label, newest
\* first, filtered by title.
Page(kind) ==
  {n \in Numbers :
     /\ Kind(issues[n].item) = kind
     /\ Cardinality({m \in Numbers : m > n /\ Kind(issues[m].item) = kind}) < PageSize}
FindIssueByTitle(i) ==
  {n \in Page(Kind(i)) : issues[n].item = i /\ issues[n].text.title = plan[i].title}

Init ==
  /\ plan = [i \in Items |-> [title |-> 0, body |-> 0]]
  /\ issues = <<>> /\ late = {}
  /\ file = NoRecords
  /\ mem = NoRecords /\ pc = "idle" /\ at = 1 /\ tries = 0 /\ listed = {}
  /\ synced = FALSE
  /\ blind = {} /\ retitled = {} /\ adrift = {}
  /\ edits = 0 /\ faults = 0

-----------------------------------------------------------------------------
(* The command.  Go(p, n) moves it to place p, position n; Exit ends it, and   *)
(* what it had in memory with it.                                            *)

Go(p, n) == pc' = p /\ at' = n
Exit == Go("idle", 1) /\ mem' = NoRecords /\ tries' = 0 /\ listed' = {}
Faulty == faults < MaxFaults /\ faults' = faults + 1

\* runSyncIssues: load the manifest; a torn file cannot be parsed, so the command
\* fails before it does anything.  The labels are created with --force: whether
\* they were there makes no difference.
Start ==
  /\ pc = "idle" /\ file # Torn
  /\ mem' = file
  /\ Go("item", 1)
  /\ synced' = FALSE
  /\ UNCHANGED <<planned, issues, late, file, tries, listed, history, faults>>

Item == Worklist[at]
Known == Item \in DOMAIN mem

\* Mutant: only the title is compared with the manifest.
SameTitle == Known /\ mem[Item].text.title = plan[Item].title

Recorded == Known /\ mem[Item].text = plan[Item]

\* Mutant: an item the manifest does not have is created without a lookup.
NoLookup == {}

Found == FindIssueByTitle(Item)

\* Mutant: any issue with the title is one too many.
AnyMatch == Cardinality(Found) > 0

Several == Cardinality(Found) > 1
Target == IF Known THEN mem[Item].num ELSE CHOOSE n \in Found : TRUE

\* syncSprint and syncTask, first half: skip an item that is recorded as it is
\* now, else go for its issue in the manifest or, failing that, the one with its
\* title.  Several issues with the title end the run.
SyncItem ==
  /\ pc = "item" /\ at <= Len(Worklist)
  /\ \/ /\ Recorded
        /\ Go("item", at + 1) /\ UNCHANGED <<mem, tries, listed>>
     \/ /\ ~Recorded /\ (Known \/ (Found # {} /\ ~Several))
        /\ Go("update", at) /\ UNCHANGED <<mem, tries, listed>>
     \/ /\ ~Known /\ Found = {}
        /\ Go("create", at) /\ UNCHANGED <<mem, tries, listed>>
     \/ /\ ~Known /\ Several
        /\ Exit
  /\ UNCHANGED <<planned, issues, late, file, synced, history, faults>>

\* Mutant: the newest issue before the call is remembered, whichever was found.
RememberNewest(n) ==
  /\ mem' = With(mem, Item, [num |-> Len(issues), text |-> plan[Item]])
  /\ Go("save", at)
  /\ tries' = 0 /\ UNCHANGED listed

\* The second half: remember the issue, then write the file.
Remember(n) ==
  /\ mem' = With(mem, Item, [num |-> n, text |-> plan[Item]])
  /\ Go("save", at)
  /\ tries' = 0 /\ UNCHANGED listed

Patch ==
  /\ issues' = [issues EXCEPT ![Target].text = plan[Item]]
  /\ adrift' = adrift \union {Item}

\* UpdateIssue: change title and body, then put the label back.
UpdateIssue ==
  /\ pc = "update"
  /\ Patch /\ Remember(Target)
  /\ UNCHANGED <<planned, late, file, synced, blind, faults>>

\* ... and the label call, or the answer, fails after the text has changed.
UpdateCutOff ==
  /\ pc = "update" /\ Faulty
  /\ Patch /\ Exit
  /\ UNCHANGED <<planned, late, file, synced, blind>>

NewIssue == [item |-> Item, text |-> plan[Item], parent |-> 0, blockers |-> {}]

\* CreateIssue, the call that succeeds.
CreateIssue ==
  /\ pc = "create"
  /\ issues' = Append(issues, NewIssue)
  /\ Remember(Len(issues) + 1)
  /\ UNCHANGED <<planned, late, file, synced, history, faults>>

\* What may have become of a creation that has no answer: nothing, an issue, or
\* one that nobody can see yet.
MaybeCreated ==
  \/ issues' \in {issues, Append(issues, NewIssue)} /\ UNCHANGED late
  \/ late' = late \union {NewIssue} /\ UNCHANGED issues

\* A transient error.
CreateUnanswered ==
  /\ pc = "create" /\ Faulty
  /\ MaybeCreated
  /\ Go("recheck", at)
  /\ UNCHANGED <<planned, file, mem, tries, listed, synced, history>>

\* Creation is tried again, unless this was the last attempt.
TryAgain ==
  \/ tries + 1 < MaxTries /\ Go("create", at) /\ tries' = tries + 1
     /\ UNCHANGED <<mem, listed>>
  \/ tries + 1 = MaxTries /\ Exit

\* After a transient error the title is looked up; the one issue that has it, if
\* there is one, is taken for the one created.
Recheck ==
  /\ pc = "recheck"
  /\ IF Cardinality(Found) = 1 THEN Remember(Target) ELSE TryAgain
  /\ UNCHANGED <<planned, issues, late, file, synced, history, faults>>

\* The lookup fails too: its error is dropped, and the creation is tried again.
RecheckFails ==
  /\ pc = "recheck" /\ Faulty
  /\ TryAgain
  /\ blind' = blind \union {Item}
  /\ UNCHANGED <<planned, issues, late, file, synced, adrift>>

\* persistManifest after each item; and the write that is cut off.
Save ==
  /\ pc = "save"
  /\ file' = mem
  /\ adrift' = adrift \ {Item}
  /\ Go("item", at + 1)
  /\ UNCHANGED <<planned, issues, late, mem, tries, listed, synced, blind, faults>>

SaveCutOff ==
  /\ pc \in {"save", "finish"} /\ Faulty
  /\ file' = Torn
  /\ Exit
  /\ UNCHANGED <<planned, issues, late, synced, history>>

-----------------------------------------------------------------------------
(* The links, between the issues the manifest names.                       *)

ItemsDone ==
  /\ pc = "item" /\ at > Len(Worklist)
  /\ Go("children", 1)
  /\ UNCHANGED <<planned, issues, late, file, mem, tries, listed>>
  /\ UNCHANGED <<synced, history, faults>>

Task == OrderedTasks[at]
Child == mem[Task].num
Parent == mem[SprintOf(Task)].num
Link(n, p) == [issues EXCEPT ![n].parent = p]

\* Mutant: the two ends of a dependency are swapped.
BlockSwapped(n, b) == [issues EXCEPT ![b].blockers = @ \union {n}]

Block(n, b) == [issues EXCEPT ![n].blockers = @ \union {b}]

\* syncSubIssues: a sprint's sub-issues are listed once, before its first task.
ListSubIssues ==
  /\ pc = "children" /\ at <= Len(OrderedTasks)
  /\ listed' = IF Task = Head(TaskOrder[SprintOf(Task)])
               THEN {n \in Numbers : issues[n].parent = Parent} ELSE listed
  /\ Go("child", at)
  /\ UNCHANGED <<planned, issues, late, file, mem, tries, synced, history, faults>>

\* The task is added if it is not among them.  GitHub refuses an issue that has a
\* parent already, whichever that is, with status 422, which counts as done.
AddSubIssue ==
  /\ pc = "child"
  /\ issues' = IF Child \in listed \/ issues[Child].parent # 0 THEN issues
               ELSE Link(Child, Parent)
  /\ Go("children", at + 1)
  /\ UNCHANGED <<planned, late, file, mem, tries, listed, synced, history, faults>>

\* isAlreadyExistsError looks for "422" in an error text that repeats the
\* command line: any failure counts as done when a number in it has these digits.
AddSubIssueMisread ==
  /\ pc = "child" /\ Child \notin listed
  /\ {Child, Parent} \intersect Misread # {} /\ Faulty
  /\ Go("children", at + 1)
  /\ UNCHANGED <<planned, issues, late, file, mem, tries, listed, synced, history>>

ChildrenDone ==
  /\ pc = "children" /\ at > Len(OrderedTasks)
  /\ Go("blockers", 1)
  /\ UNCHANGED <<planned, issues, late, file, mem, tries, listed>>
  /\ UNCHANGED <<synced, history, faults>>

\* syncDependencies: list what blocks the task on GitHub, then add what is
\* missing, one call per blocker.
ListBlockedBy ==
  /\ pc = "blockers" /\ at <= Len(OrderedTasks)
  /\ listed' = issues[Child].blockers
  /\ Go("blocker", at)
  /\ UNCHANGED <<planned, issues, late, file, mem, tries, synced, history, faults>>

Missing == {mem[b].num : b \in LinkedBlockers(Task)} \ listed

AddBlockedBy ==
  /\ pc = "blocker"
  /\ \/ /\ Missing = {} /\ ~Dangling(Task)
        /\ Go("blockers", at + 1) /\ UNCHANGED <<issues, listed>>
     \/ \E n \in Missing :
          issues' = Block(Child, n) /\ listed' = listed \union {n} /\ UNCHANGED <<pc, at>>
  /\ UNCHANGED <<planned, late, file, mem, tries, synced, history, faults>>

\* A dependency that has no issue in the manifest ends the run, this one and any
\* other until the plan changes.
DanglingDependency ==
  /\ pc = "blocker" /\ Dangling(Task)
  /\ Exit
  /\ UNCHANGED <<planned, issues, late, file, synced, history, faults>>

AddBlockedByMisread ==
  /\ pc = "blocker" /\ Faulty
  /\ \E n \in Missing :
       {Child, n} \intersect Misread # {} /\ listed' = listed \union {n}
  /\ UNCHANGED <<planned, issues, late, file, mem, pc, at, tries, synced, history>>

\* The end of Sync, and the manifest's last write.
BlockersDone ==
  /\ pc = "blockers" /\ at > Len(OrderedTasks)
  /\ Go("finish", 1)
  /\ UNCHANGED <<planned, issues, late, file, mem, tries, listed>>
  /\ UNCHANGED <<synced, history, faults>>

LastSave ==
  /\ pc = "finish"
  /\ file' = mem
  /\ synced' = TRUE
  /\ Exit
  /\ UNCHANGED <<planned, issues, late, history, faults>>

-----------------------------------------------------------------------------
(* Everything else that can happen.                                        *)

\* A call fails for good, or the command is killed.  A creation may have reached
\* GitHub.
Abort ==
  /\ pc # "idle" /\ Faulty
  /\ \/ UNCHANGED <<issues, late>>
     \/ pc = "create" /\ MaybeCreated
  /\ Exit
  /\ UNCHANGED <<planned, file, synced, history>>

\* GitHub carries out a creation that has had no answer long since, if it ever
\* does.  An update goes to the issue found before it: it is the same if a creation
\* comes in between or after it.
CreationLands ==
  /\ pc # "update" /\ Faulty
  /\ \E issue \in late : issues' = Append(issues, issue)
  /\ UNCHANGED <<planned, late, file, command, synced, history>>

\* Somebody removes the manifest that cannot be parsed.
RemoveTornManifest ==
  /\ pc = "idle" /\ file = Torn
  /\ file' = NoRecords
  /\ UNCHANGED <<planned, issues, late, command, synced, history, faults>>

\* Between runs the plan changes: an item's title or body gets any other text,
\* an earlier one included, and with the body what a task depends on.
EditPlan ==
  /\ pc = "idle" /\ edits < MaxEdits
  /\ \E i \in Items, text \in Texts :
       /\ text # plan[i]
       /\ plan' = [plan EXCEPT ![i] = text]
       /\ retitled' = IF text.title # plan[i].title THEN retitled \union {i} ELSE retitled
  /\ synced' = FALSE
  /\ edits' = edits + 1
  /\ UNCHANGED <<issues, late, file, command, history, faults>>

Step ==
  \/ SyncItem \/ UpdateIssue \/ CreateIssue \/ Recheck \/ Save \/ ItemsDone
  \/ ListSubIssues \/ AddSubIssue \/ ChildrenDone
  \/ ListBlockedBy \/ AddBlockedBy \/ DanglingDependency \/ BlockersDone \/ LastSave

Fault ==
  \/ UpdateCutOff \/ CreateUnanswered \/ RecheckFails \/ SaveCutOff \/ Abort
  \/ AddSubIssueMisread \/ AddBlockedByMisread

Next == Start \/ Step \/ Fault \/ CreationLands \/ RemoveTornManifest \/ EditPlan

\* A command that runs goes on, somebody removes an unreadable manifest, and
\* the command is run again.
Fairness == WF_vars(Step) /\ WF_vars(RemoveTornManifest) /\ WF_vars(Start)
Spec == Init /\ [][Next]_vars /\ Fairness

-----------------------------------------------------------------------------
IssuesOf(i) == {n \in Numbers : issues[n].item = i}
\* The items that GitHub may have created, or may yet create, after the fact.
Tardy == {issue.item : issue \in late}
Creations == [item : Items, text : Texts, parent : {0}, blockers : {{}}]
\* A kind's issues fit on the page a lookup reads.
OnOnePage(i) == Cardinality({n \in Numbers : Kind(issues[n].item) = Kind(i)}) <= PageSize

(* Every variable has its type, and a record names an issue of its item.   *)
TypeOK ==
  /\ plan \in [Items -> Texts]
  /\ \A n \in Numbers :
       issues[n] \in [item : Items, text : Texts, parent : 0..Len(issues),
                      blockers : SUBSET Numbers]
  /\ \A m \in {mem} \union ({file} \ {Torn}) :
       /\ DOMAIN m \subseteq Items
       /\ \A i \in DOMAIN m : m[i].num \in IssuesOf(i) /\ m[i].text \in Texts
  /\ pc \in {"idle", "item", "update", "create", "recheck", "save", "children", "child",
             "blockers", "blocker", "finish"}
  /\ at \in 1..(Len(Worklist) + 1) /\ tries \in 0..(MaxTries - 1)
  /\ listed \subseteq Numbers /\ synced \in BOOLEAN
  /\ late \subseteq Creations
  /\ blind \union retitled \union adrift \subseteq Items
  /\ edits \in 0..MaxEdits /\ faults \in 0..MaxFaults

(* However often the command is cut off, loses an answer or loses its      *)
(* manifest, a sprint or task is not created twice: the lookup by title    *)
(* finds the issue of the earlier run.  Four things can break this, and    *)
(* are the premises: the title changed in between, the lookup after a lost *)
(* answer failed as well, it came before GitHub had carried the creation   *)
(* out, or the issue is no longer on the first page.                       *)
OneIssuePerItem ==
  \A i \in Items \ (blind \union Tardy \union retitled) :
     OnOnePage(i) => Cardinality(IssuesOf(i)) <= 1

(* After a run without an error every item has an issue with the text of    *)
(* the plan.  There are two exceptions.  If the last change of an item     *)
(* reached GitHub in a run that ended before the manifest was written and  *)
(* the plan goes back to the recorded text, the command sees no difference *)
(* and skips it.  And a creation that GitHub carries out runs later, with  *)
(* the text it had then, can be taken for the one that has no answer now.  *)
SyncedMeansUpToDate ==
  synced => \A i \in Items \ (adrift \union Tardy) :
               /\ i \in DOMAIN file
               /\ issues[file[i].num].text = plan[i]

(* After a run without an error each task's issue hangs under an issue of  *)
(* its sprint, the manifest's one if there is only one, and is blocked by  *)
(* the issues of the tasks of the sprint that it depends on.  The premise: *)
(* none of the numbers involved reads like the status 422.                 *)
SyncedMeansLinked ==
  synced => \A t \in Tasks :
    LET n == file[t].num  s == SprintOf(t)  p == issues[n].parent
    IN  /\ {n, file[s].num} \intersect Misread = {} =>
             p \in IssuesOf(s) /\ (p = file[s].num \/ Cardinality(IssuesOf(s)) > 1)
        /\ \A b \in LinkedBlockers(t) :
             {n, file[b].num} \intersect Misread = {} => file[b].num \in issues[n].blockers

(* Run again and again, the command gets through, unless two issues of an  *)
(* item have the title it looks for, or a task depends on one of its       *)
(* sprint that the plan lacks: each stops it until somebody intervenes.    *)
Ambiguous == \E i \in Items : Cardinality(FindIssueByTitle(i)) > 1
GetsThrough == []<>(synced \/ Ambiguous \/ \E t \in Tasks : Dangling(t))
=============================================================================
