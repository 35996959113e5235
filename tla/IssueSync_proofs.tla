--------------------------- MODULE IssueSync_proofs ---------------------------
(***************************************************************************)
(* Theorems about IssueSync for any plan, any page size and any number of  *)
(* faults and edits: every variable has its type, an item is not created   *)
(* twice, and a run that reports success leaves GitHub up to date and      *)
(* linked, with the premises that the properties name.                     *)
(***************************************************************************)
EXTENDS IssueSync, TLAPS, FiniteSetTheorems, WellFoundedInduction

IssueRecords == [item : Items, text : Texts, parent : Nat, blockers : SUBSET Nat]

(* A manifest that names an issue of each item it has.                     *)
Manifest(m) ==
  /\ DOMAIN m \subseteq Items /\ m \in [DOMAIN m -> Records]
  /\ \A i \in DOMAIN m : m[i].num \in IssuesOf(i)

(* The place of the command in the list it works through.                  *)
InList ==
  /\ pc = "item" => at \in 1..(Len(Worklist) + 1)
  /\ pc \in {"update", "create", "recheck", "save"} => at \in 1..Len(Worklist)
  /\ pc \in {"children", "blockers"} => at \in 1..(Len(OrderedTasks) + 1)
  /\ pc \in {"child", "blocker"} => at \in 1..Len(OrderedTasks)
  /\ pc \in {"idle", "finish"} => at = 1

(* The item is in the manifest with the text it has in the plan.           *)
UpToDate(m, i) == i \in DOMAIN m /\ m[i].text = plan[i]

(* What the command has done with the items when it is where it is.        *)
Progress ==
  /\ pc \in {"item", "update", "create", "recheck", "save"} =>
       \A j \in 1..(at - 1) : UpToDate(mem, Worklist[j])
  /\ pc = "update" => Known \/ Found # {}
  /\ pc \in {"create", "recheck"} => ~Known
  /\ pc = "save" => UpToDate(mem, Item)
  /\ pc \in {"children", "child", "blockers", "blocker", "finish"} =>
       \A i \in Items : UpToDate(mem, i)

Places == {"idle", "item", "update", "create", "recheck", "save", "children", "child",
           "blockers", "blocker", "finish"}

IssueTypes ==
  /\ issues \in Seq(IssueRecords)
  /\ \A n \in Numbers : issues[n].parent \in 0..Len(issues) /\ issues[n].blockers \subseteq Numbers

CommandTypes ==
  /\ Manifest(mem)
  /\ pc \in Places /\ InList
  /\ tries \in 0..(MaxTries - 1) /\ listed \subseteq Numbers
  /\ Progress

Types ==
  /\ plan \in [Items -> Texts]
  /\ IssueTypes /\ CommandTypes
  /\ late \subseteq Creations
  /\ file # Torn => Manifest(file)
  /\ synced \in BOOLEAN
  /\ blind \subseteq Items /\ retitled \subseteq Items /\ adrift \subseteq Items
  /\ edits \in 0..MaxEdits /\ faults \in 0..MaxFaults

----------------------------------------------------------------------------
(* The order of the tasks.  FlattenSeq is recursive: what it returns is    *)
(* shown by looking at the least position where it would not hold.         *)

(* A set of numbers has a least element.                                   *)
LEMMA LeastNumber ==
  ASSUME NEW S \in SUBSET Nat, S # {}
  PROVE  \E n \in S : \A k \in S : n <= k
<1> DEFINE R == OpToRel(<, Nat)
<1>1. IsWellFoundedOn(R, Nat)
  BY NatLessThanWellFounded
<1>2. \E n \in S : \A k \in S : ~(<<k, n>> \in R)
  <2> HIDE DEF R
  <2> QED  BY <1>1, WFMin
<1>3. \A n, k \in Nat : k < n => <<k, n>> \in R
  BY DEF OpToRel
<1> HIDE DEF R
<1>4. PICK n \in S : \A k \in S : ~(<<k, n>> \in R)
  BY <1>2
<1>5. \A k \in S : ~(k < n)
  BY <1>3, <1>4
<1> QED  BY <1>5

(* g joins the sequences of s up to each position.                         *)
Joins(g, s, n) == g = [i \in 1..n |-> IF i = 1 THEN s[i] ELSE g[i - 1] \o s[i]]

(* There is such a function.                                               *)
LEMMA JoinsExist ==
  ASSUME NEW s, NEW n \in Nat \ {0}
  PROVE  \E g : Joins(g, s, n)
<1> DEFINE Bad == {k \in Nat \ {0} : ~ \E g : Joins(g, s, k)}
<1> SUFFICES ASSUME Bad # {} PROVE FALSE
  OBVIOUS
<1>1. PICK k \in Bad : \A l \in Bad : k <= l
  <2> HIDE DEF Bad
  <2>1. Bad \in SUBSET Nat
    BY DEF Bad
  <2> QED  BY <2>1, LeastNumber
<1>2. CASE k = 1
  <2> DEFINE g == [i \in 1..1 |-> s[i]]
  <2>1. Joins(g, s, 1)
    BY DEF Joins
  <2> QED  BY <1>1, <1>2, <2>1
<1>3. CASE k # 1
  <2>1. k - 1 \in Nat \ {0} /\ k - 1 \notin Bad /\ k \in Nat
    BY <1>1, <1>3
  <2>2. PICK f : Joins(f, s, k - 1)
    BY <2>1
  <2> DEFINE g == [i \in 1..k |-> IF i = k THEN f[k - 1] \o s[k] ELSE f[i]]
  <2>3. f = [i \in 1..(k - 1) |-> IF i = 1 THEN s[i] ELSE f[i - 1] \o s[i]]
    BY <2>2 DEF Joins
  <2>4. DOMAIN g = 1..k /\ g = [i \in 1..k |-> g[i]]
    OBVIOUS
  <2>5. ASSUME NEW i \in 1..k
        PROVE  g[i] = IF i = 1 THEN s[i] ELSE g[i - 1] \o s[i]
    <3>1. CASE i = k
      <4>1. k \in 1..k /\ k - 1 \in 1..k /\ k - 1 # k
        BY <2>1
      <4>2. g[k] = f[k - 1] \o s[k] /\ g[k - 1] = f[k - 1]
        BY <4>1
      <4> QED  BY <1>3, <3>1, <4>2
    <3>2. CASE i # k
      <4>1. i \in 1..(k - 1) /\ g[i] = f[i]
        BY <2>1, <3>2
      <4>2. i # 1 => g[i - 1] = f[i - 1]
        BY <2>1, <4>1
      <4> QED  BY <2>3, <4>1, <4>2
    <3> QED  BY <3>1, <3>2
  <2>6. g = [i \in 1..k |-> IF i = 1 THEN s[i] ELSE g[i - 1] \o s[i]]
    <3> HIDE DEF g
    <3> QED  BY <2>4, <2>5
  <2>7. Joins(g, s, k)
    BY <2>6 DEF Joins
  <2> QED  BY <1>1, <2>7
<1> QED  BY <1>2, <1>3

(* Joining sequences over T gives sequences of members of the sequences.   *)
LEMMA JoinsMembers ==
  ASSUME NEW T, NEW n \in Nat \ {0}, NEW s, \A i \in 1..n : s[i] \in Seq(T),
         NEW g, Joins(g, s, n)
  PROVE  \A i \in 1..n : /\ g[i] \in Seq(T)
                         /\ \A k \in DOMAIN g[i] : \E j \in 1..n : \E l \in DOMAIN s[j] : g[i][k] = s[j][l]
<1> DEFINE Good(i) == /\ g[i] \in Seq(T)
                      /\ \A k \in DOMAIN g[i] : \E j \in 1..n : \E l \in DOMAIN s[j] : g[i][k] = s[j][l]
           Bad == {i \in 1..n : ~Good(i)}
<1> SUFFICES ASSUME Bad # {} PROVE FALSE
  OBVIOUS
<1>1. PICK i \in Bad : \A l \in Bad : i <= l
  <2> HIDE DEF Bad
  <2>1. Bad \in SUBSET Nat
    BY DEF Bad
  <2> QED  BY <2>1, LeastNumber
<1>2. i \in 1..n /\ ~Good(i)
  BY <1>1
<1>3. g[i] = IF i = 1 THEN s[i] ELSE g[i - 1] \o s[i]
  BY <1>2 DEF Joins
<1>4. CASE i = 1
  <2>1. g[i] = s[i] /\ s[i] \in Seq(T)
    BY <1>2, <1>3, <1>4
  <2> QED  BY <1>2, <2>1
<1>5. CASE i # 1
  <2> DEFINE a == g[i - 1]
             b == s[i]
  <2>1. i - 1 \in 1..n /\ i - 1 \notin Bad
    <3> HIDE DEF Bad, Good
    <3>1. i - 1 \in 1..n /\ ~(i <= i - 1)
      BY <1>2, <1>5
    <3> QED  BY <1>1, <3>1
  <2>2. Good(i - 1) /\ b \in Seq(T)
    BY <1>2, <2>1
  <2>3. g[i] = a \o b /\ a \in Seq(T)
    BY <1>3, <1>5, <2>2
  <2>4. \A k \in DOMAIN a : \E j \in 1..n : \E l \in DOMAIN s[j] : a[k] = s[j][l]
    BY <2>2
  <2>5. b = s[i]
    OBVIOUS
  <2> HIDE DEF a, b, Good
  <2>6. /\ a \o b \in Seq(T)
        /\ \A k \in DOMAIN (a \o b) : \/ k \in DOMAIN a /\ (a \o b)[k] = a[k]
                                      \/ k - Len(a) \in DOMAIN b /\ (a \o b)[k] = b[k - Len(a)]
    BY <2>2, <2>3
  <2>7. ASSUME NEW k \in DOMAIN g[i]
        PROVE  \E j \in 1..n : \E l \in DOMAIN s[j] : g[i][k] = s[j][l]
    <3>1. CASE k \in DOMAIN a /\ (a \o b)[k] = a[k]
      BY <2>3, <2>4, <3>1
    <3>2. CASE k - Len(a) \in DOMAIN b /\ (a \o b)[k] = b[k - Len(a)]
      BY <1>2, <2>3, <2>5, <3>2
    <3> QED  BY <2>3, <2>6, <2>7, <3>1, <3>2
  <2> QED  BY <1>2, <2>3, <2>6, <2>7 DEF Good
<1> QED  BY <1>4, <1>5

(* OrderedTasks is a sequence, of tasks that the plan has under a sprint.  *)
LEMMA OrderFacts ==
  /\ SprintOrder \in Seq(Sprints) /\ OrderedTasks \in Seq(Tasks)
  /\ \A t \in Tasks : SprintOf(t) \in Sprints
<1> DEFINE s == [i \in DOMAIN SprintOrder |-> TaskOrder[SprintOrder[i]]]
           n == Len(SprintOrder)
           g == CHOOSE f : f = [i \in 1..Len(s) |-> IF i = 1 THEN s[i] ELSE f[i - 1] \o s[i]]
<1>1. SprintOrder \in Seq(Sprints) /\ \A q \in Sprints : TaskOrder[q] \in Seq(Tasks)
  BY PlanAssumption
<1>2. n \in Nat /\ DOMAIN SprintOrder = 1..n /\ \A i \in 1..n : SprintOrder[i] \in Sprints
  BY <1>1
<1>3. /\ \A i \in 1..n : s[i] = TaskOrder[SprintOrder[i]] /\ s[i] \in Seq(Tasks)
      /\ s \in Seq(Seq(Tasks)) /\ Len(s) = n
  BY <1>1, <1>2
<1>4. OrderedTasks = IF n = 0 THEN s ELSE g[n]
  BY <1>3 DEF OrderedTasks, FlattenSeq
<1>5. Tasks = {OrderedTasks[k] : k \in DOMAIN OrderedTasks}
  BY DEF Tasks, ToSet
<1>6. CASE n = 0
  <2>1. OrderedTasks = s /\ DOMAIN s = {}
    BY <1>2, <1>4, <1>6
  <2>2. OrderedTasks \in Seq(Tasks)
    BY <1>3, <1>6, <2>1
  <2> QED  BY <1>1, <1>5, <2>1, <2>2
<1>7. CASE n # 0
  <2> HIDE DEF s, n
  <2>1. \E f : Joins(f, s, n)
    BY <1>2, <1>7, JoinsExist
  <2>2. Joins(g, s, n)
    BY <1>3, <2>1 DEF Joins
  <2>3. OrderedTasks = g[n]
    BY <1>4, <1>7
  <2> HIDE DEF g
  <2>4. /\ g[n] \in Seq(Tasks)
        /\ \A k \in DOMAIN g[n] : \E j \in 1..n : \E l \in DOMAIN s[j] : g[n][k] = s[j][l]
    <3>1. n \in Nat \ {0} /\ n \in 1..n /\ \A i \in 1..n : s[i] \in Seq(Tasks)
      BY <1>2, <1>3, <1>7
    <3>2. \A i \in 1..n :
            /\ g[i] \in Seq(Tasks)
            /\ \A k \in DOMAIN g[i] : \E j \in 1..n : \E l \in DOMAIN s[j] : g[i][k] = s[j][l]
      BY <2>2, <3>1, JoinsMembers
    <3> QED  BY <3>1, <3>2
  <2>5. ASSUME NEW t \in Tasks
        PROVE  SprintOf(t) \in Sprints
    <3>1. PICK k \in DOMAIN OrderedTasks : t = OrderedTasks[k]
      BY <1>5
    <3>2. PICK j \in 1..n : \E l \in DOMAIN s[j] : t = s[j][l]
      BY <2>3, <2>4, <3>1
    <3>3. t \in ToSet(TaskOrder[SprintOrder[j]]) /\ SprintOrder[j] \in Sprints
      BY <1>2, <1>3, <3>2 DEF ToSet
    <3> QED  BY <3>3 DEF SprintOf
  <2> QED  BY <1>1, <2>3, <2>4, <2>5
<1> QED  BY <1>6, <1>7

(* The work list is a sequence of the items, and has all of them.          *)
LEMMA WorkFacts ==
  /\ Worklist \in Seq(Items) /\ Len(Worklist) \in Nat /\ Len(OrderedTasks) \in Nat
  /\ Len(OrderedTasks) <= Len(Worklist)
  /\ \A j \in 1..Len(Worklist) : Worklist[j] \in Items
  /\ \A j \in 1..Len(OrderedTasks) : OrderedTasks[j] \in Tasks
  /\ \A i \in Items : \E j \in 1..Len(Worklist) : Worklist[j] = i
  /\ \A t \in Tasks : \E j \in 1..Len(OrderedTasks) : OrderedTasks[j] = t
<1>1. SprintOrder \in Seq(Sprints) /\ OrderedTasks \in Seq(Tasks)
  BY OrderFacts
<1>2. /\ Sprints = {SprintOrder[k] : k \in 1..Len(SprintOrder)}
      /\ Tasks = {OrderedTasks[k] : k \in 1..Len(OrderedTasks)}
  BY <1>1 DEF Sprints, Tasks, ToSet
<1> DEFINE a == SprintOrder
           b == OrderedTasks
<1> HIDE DEF a, b
<1>3. a \in Seq(Items) /\ b \in Seq(Items)
  BY <1>1 DEF a, b, Items
<1>4. /\ a \o b \in Seq(Items) /\ Len(a \o b) = Len(a) + Len(b)
      /\ \A k \in 1..Len(a) : (a \o b)[k] = a[k]
      /\ \A k \in 1..Len(b) : (a \o b)[k + Len(a)] = b[k]
      /\ Len(a) \in Nat /\ Len(b) \in Nat
  BY <1>3
<1>5. Worklist = a \o b
  BY DEF Worklist, a, b
<1>6. ASSUME NEW i \in Items
      PROVE  \E j \in 1..Len(Worklist) : Worklist[j] = i
  <2>1. CASE i \in Sprints
    <3>1. PICK k \in 1..Len(a) : a[k] = i
      BY <1>2, <2>1 DEF a
    <3>2. k \in 1..Len(Worklist) /\ Worklist[k] = i
      BY <1>4, <1>5, <3>1
    <3> QED  BY <3>2
  <2>2. CASE i \in Tasks
    <3>1. PICK k \in 1..Len(b) : b[k] = i
      BY <1>2, <2>2 DEF b
    <3>2. k + Len(a) \in 1..Len(Worklist) /\ Worklist[k + Len(a)] = i
      BY <1>4, <1>5, <3>1
    <3> QED  BY <3>2
  <2> QED  BY <2>1, <2>2 DEF Items
<1>7. \A j \in 1..Len(Worklist) : Worklist[j] \in Items
  BY <1>4, <1>5
<1>8. /\ Worklist \in Seq(Items) /\ Len(Worklist) \in Nat /\ Len(b) \in Nat
      /\ Len(b) <= Len(Worklist)
  BY <1>4, <1>5
<1>9. \A j \in 1..Len(OrderedTasks) : OrderedTasks[j] \in Tasks
  BY <1>2
<1> QED  BY <1>2, <1>6, <1>7, <1>8, <1>9 DEF b

(* The items, and the numbers of the model.                                *)
LEMMA PlanFacts ==
  /\ Sprints \subseteq Items /\ Tasks \subseteq Items
  /\ \A t \in Tasks : SprintOf(t) \in Sprints /\ LinkedBlockers(t) \subseteq Tasks
  /\ PageSize \in Nat \ {0} /\ MaxTries \in Nat \ {0} /\ MaxEdits \in Nat /\ MaxFaults \in Nat
  /\ 0 \in Revisions
  /\ \A D \in SUBSET Items : Torn \notin [D -> Records]
BY OrderFacts, PlanAssumption DEF Items, LinkedBlockers

(* What a task depends on changes with the plan only.                      *)
LEMMA DependenciesStay ==
  ASSUME plan' = plan
  PROVE  \A t : LinkedBlockers(t)' = LinkedBlockers(t)
BY DEF LinkedBlockers, Dependencies

----------------------------------------------------------------------------
(* What the names of the model stand for.                                  *)

(* Issues are numbered from 1, and sets of them are finite.                *)
LEMMA NumberFacts ==
  ASSUME Types
  PROVE  /\ Len(issues) \in Nat /\ Numbers = 1..Len(issues)
         /\ \A n \in Numbers : issues[n] \in IssueRecords
         /\ IsFiniteSet(Numbers) /\ \A S \in SUBSET Numbers : IsFiniteSet(S)
         /\ \A i : IssuesOf(i) \subseteq Numbers
<1>1. Len(issues) \in Nat /\ Numbers = 1..Len(issues) /\ \A n \in Numbers : issues[n] \in IssueRecords
  BY DEF Types, IssueTypes, Numbers
<1>2. IsFiniteSet(Numbers)
  BY <1>1, FS_Interval
<1>3. \A S \in SUBSET Numbers : IsFiniteSet(S)
  BY <1>2, FS_Subset
<1> QED  BY <1>1, <1>2, <1>3 DEF IssuesOf

(* The item, the issue and the task the command is at.                     *)
LEMMA PlaceFacts ==
  ASSUME Types
  PROVE  /\ Found \subseteq IssuesOf(Item)
         /\ pc \in {"update", "create", "recheck", "save"} => Item \in Items
         /\ pc = "item" /\ at <= Len(Worklist) => Item \in Items /\ at \in 1..Len(Worklist)
         /\ pc = "update" => Target \in IssuesOf(Item)
         /\ pc = "recheck" /\ Cardinality(Found) = 1 => Target \in Found
         /\ pc = "save" => Item \in DOMAIN mem
         /\ \/ pc \in {"child", "blocker"}
            \/ pc \in {"children", "blockers"} /\ at <= Len(OrderedTasks)
            => /\ Task \in Tasks /\ at \in 1..Len(OrderedTasks)
               /\ Child \in IssuesOf(Task) /\ Parent \in IssuesOf(SprintOf(Task))
<1>1. Found \subseteq IssuesOf(Item)
  BY DEF Found, FindIssueByTitle, Page, IssuesOf
<1>2. at \in 1..Len(Worklist) => Item \in Items
  BY WorkFacts DEF Item
<1>3. pc \in {"update", "create", "recheck", "save"} => at \in 1..Len(Worklist)
  BY DEF Types, CommandTypes, InList
<1>4. pc = "item" /\ at <= Len(Worklist) => at \in 1..Len(Worklist)
  BY WorkFacts DEF Types, CommandTypes, InList
<1>5. ASSUME pc = "update" PROVE Target \in IssuesOf(Item)
  <2>1. CASE Known
    BY <2>1 DEF Target, Known, Types, CommandTypes, Manifest
  <2>2. CASE ~Known
    <3>1. Found # {}
      BY <1>5, <2>2 DEF Types, CommandTypes, Progress
    <3>2. Target = CHOOSE n \in Found : TRUE
      BY <2>2 DEF Target
    <3> QED  BY <1>1, <3>1, <3>2
  <2> QED  BY <2>1, <2>2
<1>6. ASSUME pc = "recheck", Cardinality(Found) = 1 PROVE Target \in Found
  <2>1. IsFiniteSet(Found)
    BY <1>1, NumberFacts
  <2>2. \E n : Found = {n}
    BY <1>6, <2>1, FS_Singleton
  <2>3. Target = CHOOSE n \in Found : TRUE
    BY <1>6 DEF Types, CommandTypes, Progress, Target
  <2> QED  BY <2>2, <2>3
<1>7. pc = "save" => Item \in DOMAIN mem
  BY DEF Types, CommandTypes, Progress, UpToDate
<1>8. ASSUME \/ pc \in {"child", "blocker"}
             \/ pc \in {"children", "blockers"} /\ at <= Len(OrderedTasks)
      PROVE  /\ Task \in Tasks /\ at \in 1..Len(OrderedTasks)
             /\ Child \in IssuesOf(Task) /\ Parent \in IssuesOf(SprintOf(Task))
  <2>1. at \in 1..Len(OrderedTasks)
    BY <1>8, WorkFacts DEF Types, CommandTypes, InList
  <2>2. Task \in Tasks
    BY <2>1, WorkFacts DEF Task
  <2>3. \A i \in Items : i \in DOMAIN mem /\ mem[i].num \in IssuesOf(i)
    BY <1>8 DEF Types, CommandTypes, Progress, UpToDate, Manifest
  <2> QED  BY <2>1, <2>2, <2>3, PlanFacts DEF Child, Parent
<1> QED  BY <1>1, <1>2, <1>3, <1>4, <1>5, <1>6, <1>7, <1>8

----------------------------------------------------------------------------
(* How the issues change.                                                  *)

(* The ways a step can change what GitHub holds.                           *)
LEMMA IssueSteps ==
  ASSUME Types, [Next]_vars
  PROVE  \/ issues' = issues
         \/ pc = "create" /\ issues' = Append(issues, NewIssue)
         \/ pc # "update" /\ \E issue \in late : issues' = Append(issues, issue)
         \/ /\ pc = "update" /\ issues' = [issues EXCEPT ![Target].text = plan[Item]]
            /\ adrift' = adrift \union {Item}
         \/ pc = "child" /\ issues[Child].parent = 0 /\ issues' = Link(Child, Parent)
         \/ /\ pc = "blocker"
            /\ \E b \in LinkedBlockers(Task) : issues' = Block(Child, mem[b].num)
<1>1. CASE UNCHANGED vars
  BY <1>1 DEF vars
<1>2. CASE Start \/ RemoveTornManifest \/ EditPlan
  BY <1>2 DEF Start, RemoveTornManifest, EditPlan
<1>3. CASE SyncItem \/ Recheck \/ Save \/ ItemsDone \/ ListSubIssues \/ ChildrenDone
           \/ ListBlockedBy \/ DanglingDependency \/ BlockersDone \/ LastSave
  BY <1>3 DEF SyncItem, Recheck, Save, ItemsDone, ListSubIssues, ChildrenDone, ListBlockedBy,
              DanglingDependency, BlockersDone, LastSave
<1>4. CASE RecheckFails \/ SaveCutOff \/ AddSubIssueMisread \/ AddBlockedByMisread
  BY <1>4 DEF RecheckFails, SaveCutOff, AddSubIssueMisread, AddBlockedByMisread
<1>5. CASE CreateIssue \/ CreateUnanswered \/ Abort
  BY <1>5 DEF CreateIssue, CreateUnanswered, Abort, MaybeCreated
<1>6. CASE UpdateIssue \/ UpdateCutOff
  BY <1>6 DEF UpdateIssue, UpdateCutOff, Patch
<1>7. CASE AddSubIssue
  BY <1>7 DEF AddSubIssue
<1>8. CASE CreationLands
  BY <1>8 DEF CreationLands
<1>9. CASE AddBlockedBy
  <2>1. CASE issues' = issues
    BY <2>1
  <2>2. CASE pc = "blocker" /\ \E n \in Missing : issues' = Block(Child, n)
    BY <2>2 DEF Missing
  <2> QED  BY <1>9, <2>1, <2>2 DEF AddBlockedBy
<1> QED  BY <1>1, <1>2, <1>3, <1>4, <1>5, <1>6, <1>7, <1>8, <1>9 DEF Next, Step, Fault

(* A creation on its way is forgotten by nobody.                           *)
LEMMA LateSteps ==
  ASSUME Types, [Next]_vars
  PROVE  /\ late \subseteq late' /\ late' \subseteq Creations
         /\ Tardy \subseteq Tardy' /\ Tardy' \subseteq Items
<1>1. late \subseteq Creations
  BY DEF Types
<1>2. late' = late \/ (pc = "create" /\ late' = late \union {NewIssue})
  <2>1. CASE UNCHANGED vars
    BY <2>1 DEF vars
  <2>2. CASE SyncItem \/ UpdateIssue \/ CreateIssue \/ Recheck \/ Save \/ ItemsDone
             \/ ListSubIssues \/ AddSubIssue \/ ChildrenDone
    BY <2>2 DEF SyncItem, UpdateIssue, CreateIssue, Recheck, Save, ItemsDone, ListSubIssues,
                AddSubIssue, ChildrenDone
  <2>3. CASE ListBlockedBy \/ AddBlockedBy \/ DanglingDependency \/ BlockersDone \/ LastSave
    BY <2>3 DEF ListBlockedBy, AddBlockedBy, DanglingDependency, BlockersDone, LastSave
  <2>4. CASE UpdateCutOff \/ RecheckFails \/ SaveCutOff \/ AddSubIssueMisread
             \/ AddBlockedByMisread
    BY <2>4 DEF UpdateCutOff, RecheckFails, SaveCutOff, AddSubIssueMisread, AddBlockedByMisread
  <2>5. CASE CreateUnanswered \/ Abort
    BY <2>5 DEF CreateUnanswered, Abort, MaybeCreated
  <2>6. CASE Start \/ CreationLands \/ RemoveTornManifest \/ EditPlan
    BY <2>6 DEF Start, CreationLands, RemoveTornManifest, EditPlan
  <2> QED  BY <2>1, <2>2, <2>3, <2>4, <2>5, <2>6 DEF Next, Step, Fault
<1>3. pc = "create" => NewIssue \in Creations
  <2>1. pc = "create" => Item \in Items /\ plan[Item] \in Texts
    BY PlaceFacts DEF Types
  <2> QED  BY <2>1 DEF NewIssue, Creations
<1>4. late \subseteq late' /\ late' \subseteq Creations
  BY <1>1, <1>2, <1>3
<1>5. \A issue \in Creations : issue.item \in Items
  BY DEF Creations
<1> QED  BY <1>4, <1>5 DEF Tardy

(* Issues stay, with their item and their links; a text changes to the     *)
(* plan's, and a new issue has it, or the one it had on its way.           *)
Growth ==
  /\ IssueTypes' /\ Numbers \subseteq Numbers'
  /\ \A n \in Numbers :
       /\ issues'[n].item = issues[n].item
       /\ \/ issues'[n].text = issues[n].text
          \/ pc = "update" /\ n = Target /\ issues'[n].text = plan[Item] /\ Item \in adrift'
       /\ \/ issues'[n].parent = issues[n].parent
          \/ pc = "child" /\ n = Child /\ issues[n].parent = 0 /\ issues'[n].parent = Parent
       /\ issues[n].blockers \subseteq issues'[n].blockers
  /\ \A n \in Numbers' \ Numbers :
       /\ n = Len(issues) + 1
       /\ (pc = "create" /\ issues'[n] = NewIssue) \/ issues'[n] \in late

(* Every step is one of them.                                              *)
LEMMA Grows ==
  ASSUME Types, [Next]_vars
  PROVE  Growth
<1> DEFINE L == Len(issues)
<1>1. /\ issues \in Seq(IssueRecords) /\ L \in Nat /\ Numbers = 1..L
      /\ \A n \in Numbers : /\ issues[n] \in IssueRecords
                            /\ issues[n].parent \in 0..L /\ issues[n].blockers \subseteq Numbers
      /\ \A i : IssuesOf(i) \subseteq Numbers
  BY NumberFacts DEF Types, IssueTypes
<1>2. CASE issues' = issues
  BY <1>1, <1>2 DEF Growth, IssueTypes, Numbers
<1>3. ASSUME NEW k \in Numbers, NEW r \in IssueRecords, issues' = [issues EXCEPT ![k] = r]
      PROVE  /\ issues' \in Seq(IssueRecords) /\ Len(issues') = L /\ Numbers' = Numbers
             /\ issues'[k] = r /\ \A n \in Numbers \ {k} : issues'[n] = issues[n]
  BY <1>1, <1>3 DEF Numbers
<1>4. ASSUME NEW new \in Creations, issues' = Append(issues, new), pc # "update",
             (pc = "create" /\ new = NewIssue) \/ new \in late
      PROVE  Growth
  <2>1. new \in IssueRecords /\ new.parent = 0 /\ new.blockers = {}
    BY DEF Creations, IssueRecords
  <2> HIDE DEF L
  <2>2. L = Len(issues)
    BY DEF L
  <2>3. /\ issues' \in Seq(IssueRecords) /\ Len(issues') = L + 1 /\ Numbers' = 1..(L + 1)
        /\ \A n \in 1..L : issues'[n] = issues[n]
        /\ issues'[L + 1] = new
    BY <1>1, <1>4, <2>1, <2>2 DEF Numbers
  <2>4. IssueTypes'
    BY <1>1, <2>1, <2>3 DEF IssueTypes
  <2> QED  BY <1>1, <1>4, <2>2, <2>3, <2>4 DEF Growth
<1>5. CASE pc = "create" /\ issues' = Append(issues, NewIssue)
  <2>1. Item \in Items /\ plan[Item] \in Texts
    BY <1>5, PlaceFacts DEF Types
  <2>2. NewIssue \in Creations
    BY <2>1 DEF NewIssue, Creations
  <2> QED  BY <1>4, <1>5, <2>2
<1>6. CASE pc # "update" /\ \E issue \in late : issues' = Append(issues, issue)
  <2>1. late \subseteq Creations
    BY DEF Types
  <2> QED  BY <1>4, <1>6, <2>1
<1>7. CASE /\ pc = "update" /\ issues' = [issues EXCEPT ![Target].text = plan[Item]]
           /\ adrift' = adrift \union {Item}
  <2> DEFINE r == [issues[Target] EXCEPT !.text = plan[Item]]
  <2>1. Target \in Numbers /\ plan[Item] \in Texts
    BY <1>1, <1>7, PlaceFacts DEF Types
  <2>2. /\ r \in IssueRecords /\ r.item = issues[Target].item /\ r.text = plan[Item]
        /\ r.parent = issues[Target].parent /\ r.blockers = issues[Target].blockers
    BY <1>1, <2>1 DEF IssueRecords
  <2>3. issues' = [issues EXCEPT ![Target] = r]
    BY <1>1, <1>7, <2>1
  <2> HIDE DEF r
  <2>4. /\ issues' \in Seq(IssueRecords) /\ Len(issues') = L /\ Numbers' = Numbers
        /\ issues'[Target] = r /\ \A n \in Numbers \ {Target} : issues'[n] = issues[n]
    BY <1>3, <2>1, <2>2, <2>3
  <2>5. IssueTypes'
    BY <1>1, <2>1, <2>2, <2>4 DEF IssueTypes
  <2> QED  BY <1>7, <2>2, <2>4, <2>5 DEF Growth
<1>8. CASE pc = "child" /\ issues[Child].parent = 0 /\ issues' = Link(Child, Parent)
  <2> DEFINE r == [issues[Child] EXCEPT !.parent = Parent]
  <2>1. Child \in Numbers /\ Parent \in Numbers
    BY <1>1, <1>8, PlaceFacts
  <2>2. /\ r \in IssueRecords /\ r.item = issues[Child].item /\ r.text = issues[Child].text
        /\ r.parent = Parent /\ r.blockers = issues[Child].blockers
    BY <1>1, <2>1 DEF IssueRecords
  <2>3. issues' = [issues EXCEPT ![Child] = r]
    BY <1>1, <1>8, <2>1 DEF Link
  <2> HIDE DEF r
  <2>4. /\ issues' \in Seq(IssueRecords) /\ Len(issues') = L /\ Numbers' = Numbers
        /\ issues'[Child] = r /\ \A n \in Numbers \ {Child} : issues'[n] = issues[n]
    BY <1>3, <2>1, <2>2, <2>3
  <2>5. IssueTypes'
    BY <1>1, <2>1, <2>2, <2>4 DEF IssueTypes
  <2> QED  BY <1>8, <2>2, <2>4, <2>5 DEF Growth
<1>9. ASSUME pc = "blocker", NEW b \in LinkedBlockers(Task), issues' = Block(Child, mem[b].num)
      PROVE  Growth
  <2> DEFINE m == mem[b].num
             bs == issues[Child].blockers \union {m}
             r == [issues[Child] EXCEPT !.blockers = bs]
  <2>1. Child \in Numbers /\ m \in Numbers
    <3>1. Child \in Numbers /\ Task \in Tasks
      BY <1>1, <1>9, PlaceFacts
    <3>2. b \in Items
      BY <3>1, PlanFacts
    <3> QED  BY <1>1, <1>9, <3>1, <3>2 DEF Types, CommandTypes, Progress, UpToDate, Manifest
  <2>2. issues' = [issues EXCEPT ![Child] = r]
    BY <1>1, <1>9, <2>1 DEF Block
  <2> HIDE DEF m
  <2>3. /\ r \in IssueRecords /\ r.item = issues[Child].item /\ r.text = issues[Child].text
        /\ r.parent = issues[Child].parent /\ r.blockers = bs
    <3>1. bs \in SUBSET Nat
      BY <1>1, <2>1 DEF IssueRecords
    <3> HIDE DEF bs
    <3> QED  BY <1>1, <2>1, <3>1 DEF IssueRecords
  <2> HIDE DEF r
  <2>4. /\ issues' \in Seq(IssueRecords) /\ Len(issues') = L /\ Numbers' = Numbers
        /\ issues'[Child] = r /\ \A n \in Numbers \ {Child} : issues'[n] = issues[n]
    BY <1>3, <2>1, <2>2, <2>3
  <2>5. IssueTypes'
    BY <1>1, <2>1, <2>3, <2>4 DEF IssueTypes, bs
  <2> QED  BY <2>3, <2>4, <2>5 DEF Growth
<1> QED  BY <1>2, <1>5, <1>6, <1>7, <1>8, <1>9, IssueSteps

(* An item keeps its issues, and gets one by a creation only, its own or   *)
(* one that was on its way.                                                *)
LEMMA IssuesStay ==
  ASSUME Types, Growth
  PROVE  /\ \A i : \A n \in IssuesOf(i) : n \in Numbers' /\ issues'[n].item = i /\ n \in IssuesOf(i)'
         /\ \A i : \A n \in IssuesOf(i)' :
              \/ n \in IssuesOf(i) \/ i \in Tardy
              \/ pc = "create" /\ i = Item /\ n = Len(issues) + 1
         /\ \A m : Manifest(m) => \A i \in DOMAIN m : m[i].num \in IssuesOf(i)'
         /\ Numbers \subseteq Numbers'
<1>1. \A i : \A n \in IssuesOf(i) : n \in Numbers' /\ issues'[n].item = i
  BY DEF Growth, IssuesOf
<1>2. ASSUME NEW i, NEW n \in IssuesOf(i) PROVE n \in IssuesOf(i)'
  BY <1>1, <1>2 DEF IssuesOf
<1>3. ASSUME NEW i, NEW n \in IssuesOf(i)'
      PROVE  \/ n \in IssuesOf(i) \/ i \in Tardy
             \/ pc = "create" /\ i = Item /\ n = Len(issues) + 1
  <2>1. n \in Numbers' /\ issues'[n].item = i
    BY <1>3 DEF IssuesOf
  <2>2. CASE n \in Numbers
    BY <2>1, <2>2 DEF Growth, IssuesOf
  <2>3. CASE n \notin Numbers
    BY <2>1, <2>3 DEF Growth, NewIssue, Tardy
  <2> QED  BY <2>2, <2>3
<1>4. ASSUME NEW m, Manifest(m), NEW i \in DOMAIN m PROVE m[i].num \in IssuesOf(i)'
  BY <1>2, <1>4 DEF Manifest
<1> QED  BY <1>1, <1>2, <1>3, <1>4 DEF Growth

(* A creation that was on its way adds to no other item.                   *)
LEMMA Lands ==
  ASSUME Types, CreationLands, NEW i, i \notin Tardy
  PROVE  IssuesOf(i)' = IssuesOf(i)
<1>1. PICK issue \in late : issues' = Append(issues, issue)
  BY DEF CreationLands
<1>2. issue \in Creations /\ issue.item # i
  BY DEF Types, Tardy
<1>3. /\ issues \in Seq(IssueRecords) /\ issue \in IssueRecords
      /\ Numbers = 1..Len(issues) /\ Len(issues) \in Nat
  BY <1>2, NumberFacts DEF Types, IssueTypes, Creations, IssueRecords
<1>4. /\ Numbers' = 1..(Len(issues) + 1) /\ issues'[Len(issues) + 1] = issue
      /\ \A n \in Numbers : issues'[n] = issues[n]
  BY <1>1, <1>3 DEF Numbers
<1>5. \A n \in Numbers' : n \in Numbers \/ n = Len(issues) + 1
  BY <1>3, <1>4
<1>6. \A n \in Numbers : n \in Numbers'
  BY <1>3, <1>4
<1> QED  BY <1>2, <1>4, <1>5, <1>6 DEF IssuesOf

----------------------------------------------------------------------------
(* Type correctness of the command.                                        *)

(* Nothing has been recorded.                                              *)
LEMMA NoRecordsFacts ==
  /\ DOMAIN NoRecords = {} /\ Manifest(NoRecords)
  /\ NoRecords \in [{} -> Records] /\ NoRecords # Torn
<1>1. DOMAIN NoRecords = {} /\ NoRecords \in [{} -> Records]
  BY DEF NoRecords
<1>2. NoRecords # Torn
  BY <1>1, PlanFacts
<1> QED  BY <1>1, <1>2 DEF Manifest

(* A command that has ended.                                               *)
LEMMA ExitTypes ==
  ASSUME Exit
  PROVE  CommandTypes'
<1>1. /\ pc' = "idle" /\ at' = 1 /\ mem' = NoRecords /\ tries' = 0 /\ listed' = {}
  BY DEF Exit, Go
<1>2. Manifest(mem)'
  BY <1>1, NoRecordsFacts DEF Manifest
<1>3. pc' \in Places /\ InList' /\ Progress'
  BY <1>1 DEF Places, InList, Progress
<1> QED  BY <1>1, <1>2, <1>3, PlanFacts DEF CommandTypes

(* A command whose manifest stays.                                         *)
LEMMA ManifestStays ==
  ASSUME Types, Growth, mem' = mem
  PROVE  Manifest(mem)'
<1>1. Manifest(mem) /\ \A i \in DOMAIN mem : mem[i].num \in IssuesOf(i)'
  BY IssuesStay DEF Types, CommandTypes
<1> QED  BY <1>1 DEF Manifest

(* What a command remembers of an item.                                    *)
LEMMA RememberTypes ==
  ASSUME Types, Growth, pc \in {"update", "create", "recheck"}, plan' = plan,
         NEW n, Remember(n), n \in Nat, \E i \in {Item} : n \in IssuesOf(i)'
  PROVE  /\ CommandTypes'
         /\ DOMAIN mem' = DOMAIN mem \union {Item}
         /\ mem'[Item].num = n /\ mem'[Item].text = plan[Item]
         /\ \A i \in DOMAIN mem \ {Item} : mem'[i] = mem[i]
         /\ pc' = "save" /\ at' = at
<1> DEFINE r == [num |-> n, text |-> plan[Item]]
<1>1. /\ mem' = With(mem, Item, r) /\ pc' = "save" /\ at' = at /\ tries' = 0 /\ listed' = listed
  BY DEF Remember, Go
<1>2. r \in Records /\ r.num = n /\ r.text = plan[Item] /\ Item \in Items
  BY PlaceFacts DEF Records, Types
<1>3. Manifest(mem) /\ \A i \in DOMAIN mem : mem[i].num \in IssuesOf(i)'
  BY IssuesStay DEF Types, CommandTypes
<1> HIDE DEF r
<1>4. /\ DOMAIN mem' = DOMAIN mem \union {Item} /\ mem'[Item] = r
      /\ \A i \in DOMAIN mem \ {Item} : mem'[i] = mem[i]
      /\ mem' \in [DOMAIN mem \union {Item} -> Records]
  BY <1>1, <1>2, <1>3 DEF With, Manifest
<1>5. Manifest(mem)'
  <2>1. DOMAIN mem' \subseteq Items
    BY <1>2, <1>3, <1>4 DEF Manifest
  <2>2. ASSUME NEW i \in DOMAIN mem' PROVE mem'[i].num \in IssuesOf(i)'
    BY <1>2, <1>3, <1>4
  <2> QED  BY <1>4, <2>1, <2>2 DEF Manifest
<1>6. InList' /\ pc' \in Places
  BY <1>1 DEF InList, Places, Types, CommandTypes
<1>7. Progress'
  <2>1. Item' = Item
    BY <1>1 DEF Item
  <2>2. \A j \in 1..(at - 1) : UpToDate(mem, Worklist[j])
    BY DEF Types, CommandTypes, Progress
  <2>3. \A i : UpToDate(mem, i) => i \in DOMAIN mem' /\ mem'[i].text = plan'[i]
    BY <1>2, <1>4 DEF UpToDate
  <2> QED  BY <1>1, <1>2, <1>4, <2>1, <2>2, <2>3 DEF Progress, UpToDate
<1>8. listed' \subseteq Numbers'
  BY <1>1, IssuesStay DEF Types, CommandTypes
<1> QED  BY <1>1, <1>2, <1>4, <1>5, <1>6, <1>7, <1>8, PlanFacts DEF CommandTypes

(* Steps of a command that works through the items.                        *)
LEMMA ItemStepTypes ==
  ASSUME Types, Growth, mem' = mem, plan' = plan, tries' \in 0..(MaxTries - 1), listed' = listed,
         pc \in {"item", "create", "recheck", "save"}, at \in 1..Len(Worklist),
         \/ pc' = "item" /\ at' = at + 1 /\ UpToDate(mem, Item)
         \/ pc' = "update" /\ at' = at /\ (Known \/ Found # {}) /\ issues' = issues
         \/ pc' \in {"create", "recheck"} /\ at' = at /\ ~Known
  PROVE  CommandTypes'
<1>1. Manifest(mem)'
  BY ManifestStays
<1>2. pc' \in Places /\ InList'
  <2>1. Len(Worklist) \in Nat
    BY WorkFacts
  <2>2. /\ pc' = "item" => at' \in 1..(Len(Worklist) + 1)
        /\ pc' # "item" => at' \in 1..Len(Worklist)
        /\ pc' \in {"item", "update", "create", "recheck"}
    BY <2>1
  <2> QED  BY <2>2 DEF Places, InList
<1>3. listed' \subseteq Numbers'
  BY IssuesStay DEF Types, CommandTypes
<1>4. \A j \in 1..(at - 1) : UpToDate(mem, Worklist[j])
  BY DEF Types, CommandTypes, Progress
<1>5. Progress'
  <2>1. \A i : UpToDate(mem, i) => i \in DOMAIN mem' /\ mem'[i].text = plan'[i]
    BY DEF UpToDate
  <2>2. CASE pc' = "item" /\ at' = at + 1 /\ UpToDate(mem, Item)
    <3>1. at \in Nat /\ Item = Worklist[at]
      BY WorkFacts DEF Item
    <3>2. \A j \in 1..(at' - 1) : UpToDate(mem, Worklist[j])
      BY <1>4, <2>2, <3>1
    <3> QED  BY <2>1, <2>2, <3>2 DEF Progress, UpToDate
  <2>3. CASE pc' = "update" /\ at' = at /\ (Known \/ Found # {}) /\ issues' = issues
    <3>1. Item' = Item /\ Known' = Known
      BY <2>3 DEF Item, Known
    <3>2. Found' = Found
      BY <2>3, <3>1 DEF Found, FindIssueByTitle, Page, Numbers
    <3> QED  BY <1>4, <2>1, <2>3, <3>1, <3>2 DEF Progress, UpToDate
  <2>4. CASE pc' \in {"create", "recheck"} /\ at' = at /\ ~Known
    <3>1. Known' = Known
      BY <2>4 DEF Item, Known
    <3> QED  BY <1>4, <2>1, <2>4, <3>1 DEF Progress, UpToDate
  <2> QED  BY <2>2, <2>3, <2>4
<1> QED  BY <1>1, <1>2, <1>3, <1>5 DEF CommandTypes

(* Steps of a command that works through the links.                        *)
LEMMA LinkStepTypes ==
  ASSUME Types, Growth, mem' = mem, plan' = plan, tries' = tries, listed' \subseteq Numbers',
         \A i \in Items : UpToDate(mem, i),
         pc' \in {"children", "child", "blockers", "blocker", "finish"}, InList'
  PROVE  CommandTypes'
<1>1. Manifest(mem)'
  BY ManifestStays
<1>2. \A i \in Items : UpToDate(mem, i)'
  <2>1. \A i \in Items : i \in DOMAIN mem' /\ mem'[i].text = plan'[i]
    BY DEF UpToDate
  <2> QED  BY <2>1 DEF UpToDate
<1>3. Progress'
  BY <1>2 DEF Progress
<1>4. pc' \in Places /\ tries' \in 0..(MaxTries - 1)
  BY DEF Places, Types, CommandTypes
<1> QED  BY <1>1, <1>3, <1>4 DEF CommandTypes

(* The issue that a creation adds.                                         *)
LEMMA CreatedFacts ==
  ASSUME Types, pc = "create", issues' = Append(issues, NewIssue)
  PROVE  /\ Len(issues) + 1 \in Numbers' /\ Len(issues) + 1 \in Nat /\ Len(issues) + 1 \notin Numbers
         /\ issues'[Len(issues) + 1] = NewIssue
         /\ \A i : i = Item => Len(issues) + 1 \in IssuesOf(i)'
<1>1. issues \in Seq(IssueRecords) /\ Len(issues) \in Nat /\ Numbers = 1..Len(issues)
  BY NumberFacts DEF Types, IssueTypes
<1>2. NewIssue \in IssueRecords /\ NewIssue.item = Item
  <2>1. Item \in Items /\ plan[Item] \in Texts
    BY PlaceFacts DEF Types
  <2> QED  BY <2>1 DEF NewIssue, IssueRecords
<1>3. Len(issues) + 1 \in Numbers' /\ issues'[Len(issues) + 1] = NewIssue
  BY <1>1, <1>2 DEF Numbers
<1> QED  BY <1>1, <1>2, <1>3 DEF IssuesOf

(* Another attempt, or none.                                               *)
LEMMA TryAgainTypes ==
  ASSUME Types, Growth, pc = "recheck", plan' = plan, TryAgain
  PROVE  CommandTypes'
<1>1. CASE Exit
  BY <1>1, ExitTypes
<1>2. CASE /\ tries + 1 < MaxTries /\ Go("create", at) /\ tries' = tries + 1
           /\ UNCHANGED <<mem, listed>>
  <2>1. tries' \in 0..(MaxTries - 1)
    BY <1>2, PlanFacts DEF Types, CommandTypes
  <2>2. ~Known /\ at \in 1..Len(Worklist)
    BY DEF Types, CommandTypes, Progress, InList
  <2> QED  BY <1>2, <2>1, <2>2, ItemStepTypes DEF Go
<1> QED  BY <1>1, <1>2 DEF TryAgain

(* The steps that work through the items.                                  *)
LEMMA ItemSteps ==
  ASSUME Types, Growth,
         \/ SyncItem \/ UpdateIssue \/ CreateIssue \/ CreateUnanswered \/ Recheck \/ RecheckFails
         \/ Save
  PROVE  CommandTypes'
<1>1. /\ pc \in {"update", "create", "recheck", "save"} => at \in 1..Len(Worklist)
      /\ tries \in 0..(MaxTries - 1)
      /\ pc \in {"create", "recheck"} => ~Known
      /\ pc = "save" => UpToDate(mem, Item)
  BY DEF Types, CommandTypes, InList, Progress
<1>2. CASE SyncItem
  <2>1. /\ pc = "item" /\ at \in 1..Len(Worklist) /\ plan' = plan /\ issues' = issues
    BY <1>2, PlaceFacts DEF SyncItem, planned
  <2>2. CASE Recorded /\ Go("item", at + 1) /\ UNCHANGED <<mem, tries, listed>>
    <3>1. UpToDate(mem, Item)
      BY <2>2 DEF Recorded, Known, UpToDate
    <3> QED  BY <1>1, <2>1, <2>2, <3>1, ItemStepTypes DEF Go
  <2>3. CASE /\ Known \/ (Found # {} /\ ~Several)
             /\ Go("update", at) /\ UNCHANGED <<mem, tries, listed>>
    BY <1>1, <2>1, <2>3, ItemStepTypes DEF Go
  <2>4. CASE ~Known /\ Go("create", at) /\ UNCHANGED <<mem, tries, listed>>
    BY <1>1, <2>1, <2>4, ItemStepTypes DEF Go
  <2>5. CASE Exit
    BY <2>5, ExitTypes
  <2> QED  BY <1>2, <2>2, <2>3, <2>4, <2>5 DEF SyncItem
<1>3. ASSUME NEW n \in Numbers, n \in IssuesOf(Item), Remember(n), plan' = plan,
             pc \in {"update", "create", "recheck"}
      PROVE  CommandTypes'
  <2>1. n \in Nat
    BY NumberFacts
  <2>2. \E i \in {Item} : n \in IssuesOf(i)'
    BY <1>3, IssuesStay
  <2> QED  BY <1>3, <2>1, <2>2, RememberTypes
<1>4. CASE UpdateIssue
  <2>1. pc = "update" /\ Remember(Target) /\ plan' = plan
    BY <1>4 DEF UpdateIssue, planned
  <2>2. Target \in IssuesOf(Item) /\ Target \in Numbers
    BY <2>1, PlaceFacts, NumberFacts
  <2> QED  BY <1>3, <2>1, <2>2
<1>5. CASE CreateIssue
  <2>1. /\ pc = "create" /\ Remember(Len(issues) + 1) /\ plan' = plan
        /\ issues' = Append(issues, NewIssue)
    BY <1>5 DEF CreateIssue, planned
  <2>2. Len(issues) + 1 \in Nat /\ \E i \in {Item} : Len(issues) + 1 \in IssuesOf(i)'
    BY <2>1, CreatedFacts
  <2> QED  BY <2>1, <2>2, RememberTypes
<1>6. CASE CreateUnanswered
  <2>1. pc = "create" /\ pc' = "recheck" /\ at' = at /\ UNCHANGED <<plan, mem, tries, listed>>
    BY <1>6 DEF CreateUnanswered, planned, Go
  <2> QED  BY <1>1, <2>1, ItemStepTypes
<1>7. CASE Recheck
  <2>1. pc = "recheck" /\ plan' = plan
    BY <1>7 DEF Recheck, planned
  <2>2. CASE Cardinality(Found) = 1 /\ Remember(Target)
    <3>1. Target \in IssuesOf(Item) /\ Target \in Numbers
      BY <2>1, <2>2, PlaceFacts, NumberFacts
    <3> QED  BY <1>3, <2>1, <2>2, <3>1
  <2>3. CASE TryAgain
    BY <2>1, <2>3, TryAgainTypes
  <2> QED  BY <1>7, <2>2, <2>3 DEF Recheck
<1>8. CASE RecheckFails
  BY <1>8, TryAgainTypes DEF RecheckFails, planned
<1>9. CASE Save
  <2>1. pc = "save" /\ pc' = "item" /\ at' = at + 1 /\ UNCHANGED <<plan, mem, tries, listed>>
    BY <1>9 DEF Save, planned, Go
  <2> QED  BY <1>1, <2>1, ItemStepTypes
<1> QED  BY <1>2, <1>4, <1>5, <1>6, <1>7, <1>8, <1>9

(* The steps that work through the links.                                  *)
LEMMA LinkSteps ==
  ASSUME Types, Growth,
         \/ ItemsDone \/ ListSubIssues \/ AddSubIssue \/ AddSubIssueMisread \/ ChildrenDone
         \/ ListBlockedBy \/ AddBlockedBy \/ AddBlockedByMisread \/ BlockersDone
  PROVE  CommandTypes'
<1>1. /\ Len(OrderedTasks) \in Nat /\ Len(Worklist) \in Nat
      /\ \A i \in Items : \E j \in 1..Len(Worklist) : Worklist[j] = i
  BY WorkFacts
<1>2. /\ pc \in {"children", "child", "blockers", "blocker", "finish"} => \A i \in Items : UpToDate(mem, i)
      /\ pc = "item" => /\ at \in 1..(Len(Worklist) + 1)
                        /\ \A j \in 1..(at - 1) : UpToDate(mem, Worklist[j])
      /\ pc \in {"children", "blockers"} => at \in 1..(Len(OrderedTasks) + 1)
      /\ pc \in {"child", "blocker"} => at \in 1..Len(OrderedTasks)
      /\ listed \subseteq Numbers
  BY DEF Types, CommandTypes, InList, Progress
<1>3. Numbers \subseteq Numbers'
  BY IssuesStay
<1>4. CASE ItemsDone
  <2>1. /\ pc = "item" /\ at > Len(Worklist) /\ pc' = "children" /\ at' = 1
        /\ UNCHANGED <<plan, mem, tries, listed>>
    BY <1>4 DEF ItemsDone, planned, Go
  <2>2. ASSUME NEW i \in Items PROVE UpToDate(mem, i)
    <3>1. PICK j \in 1..Len(Worklist) : Worklist[j] = i
      BY <1>1
    <3>2. j \in 1..(at - 1)
      BY <1>1, <1>2, <2>1
    <3>3. UpToDate(mem, Worklist[j])
      BY <1>2, <2>1, <3>2
    <3> QED  BY <3>1, <3>3
  <2>3. InList'
    BY <1>1, <2>1 DEF InList
  <2> QED  BY <1>2, <1>3, <2>1, <2>2, <2>3, LinkStepTypes
<1>5. CASE ListSubIssues
  <2>1. /\ pc = "children" /\ at <= Len(OrderedTasks) /\ pc' = "child" /\ at' = at
        /\ UNCHANGED <<plan, mem, tries, issues>>
        /\ listed' \subseteq Numbers
    BY <1>2, <1>5 DEF ListSubIssues, planned, Go
  <2>2. InList'
    BY <1>1, <1>2, <2>1 DEF InList
  <2> QED  BY <1>2, <1>3, <2>1, <2>2, LinkStepTypes
<1>6. CASE AddSubIssue \/ AddSubIssueMisread
  <2>1. /\ pc = "child" /\ pc' = "children" /\ at' = at + 1
        /\ UNCHANGED <<plan, mem, tries, listed>>
    BY <1>6 DEF AddSubIssue, AddSubIssueMisread, planned, Go
  <2>2. InList'
    BY <1>1, <1>2, <2>1 DEF InList
  <2> QED  BY <1>2, <1>3, <2>1, <2>2, LinkStepTypes
<1>7. CASE ChildrenDone \/ BlockersDone
  <2>1. /\ pc \in {"children", "blockers"} /\ pc' \in {"blockers", "finish"} /\ at' = 1
        /\ UNCHANGED <<plan, mem, tries, listed>>
    BY <1>7 DEF ChildrenDone, BlockersDone, planned, Go
  <2>2. InList'
    BY <1>1, <2>1 DEF InList
  <2> QED  BY <1>2, <1>3, <2>1, <2>2, LinkStepTypes
<1>8. CASE ListBlockedBy
  <2>1. /\ pc = "blockers" /\ at <= Len(OrderedTasks) /\ pc' = "blocker" /\ at' = at
        /\ UNCHANGED <<plan, mem, tries, issues>>
        /\ listed' = issues[Child].blockers
    BY <1>8 DEF ListBlockedBy, planned, Go
  <2>2. Child \in Numbers
    BY <2>1, PlaceFacts, NumberFacts
  <2>3. listed' \subseteq Numbers
    BY <2>1, <2>2 DEF Types, IssueTypes
  <2>4. InList'
    BY <1>1, <1>2, <2>1 DEF InList
  <2> QED  BY <1>2, <1>3, <2>1, <2>3, <2>4, LinkStepTypes
<1>9. ASSUME pc = "blocker"
      PROVE  Missing \subseteq Numbers
  <2>1. LinkedBlockers(Task) \subseteq Items
    BY <1>9, PlaceFacts, PlanFacts
  <2>2. \A b \in Items : mem[b].num \in Numbers
    BY <1>2, <1>9, NumberFacts DEF Types, CommandTypes, Manifest, UpToDate
  <2> QED  BY <2>1, <2>2 DEF Missing
<1>10. CASE AddBlockedBy
  <2>1. /\ pc = "blocker" /\ UNCHANGED <<plan, mem, tries>>
        /\ \/ pc' = "blockers" /\ at' = at + 1 /\ listed' = listed
           \/ UNCHANGED <<pc, at>> /\ \E n \in Missing : listed' = listed \union {n}
    BY <1>10 DEF AddBlockedBy, planned, Go
  <2>2. InList' /\ pc' \in {"blockers", "blocker"}
    BY <1>1, <1>2, <2>1 DEF InList
  <2>3. listed' \subseteq Numbers
    BY <1>2, <1>9, <2>1
  <2> QED  BY <1>2, <1>3, <2>1, <2>2, <2>3, LinkStepTypes
<1>11. CASE AddBlockedByMisread
  <2>1. /\ pc = "blocker" /\ UNCHANGED <<plan, mem, tries, pc, at>>
        /\ \E n \in Missing : listed' = listed \union {n}
    BY <1>11 DEF AddBlockedByMisread, planned
  <2>2. InList'
    BY <1>1, <1>2, <2>1 DEF InList
  <2>3. listed' \subseteq Numbers
    BY <1>2, <1>9, <2>1
  <2> QED  BY <1>2, <1>3, <2>1, <2>2, <2>3, LinkStepTypes
<1> QED  BY <1>4, <1>5, <1>6, <1>7, <1>8, <1>10, <1>11

(* Every step keeps the types of the command.                              *)
LEMMA StepCommandTypes ==
  ASSUME Types, Growth, [Next]_vars
  PROVE  CommandTypes'
<1>1. CASE UNCHANGED vars
  <2>1. UNCHANGED <<plan, issues, mem, pc, at, tries, listed>>
    BY <1>1 DEF vars, planned, command
  <2>2. Manifest(mem)' /\ listed' \subseteq Numbers'
    BY <2>1, ManifestStays, IssuesStay DEF Types, CommandTypes
  <2>3. pc' \in Places /\ InList' /\ tries' \in 0..(MaxTries - 1)
    BY <2>1 DEF Types, CommandTypes, InList
  <2>4. Item' = Item /\ Known' = Known /\ \A i : UpToDate(mem, i) = UpToDate(mem, i)'
    BY <2>1 DEF Item, Known, UpToDate
  <2>5. Found' = Found
    BY <2>1, <2>4 DEF Found, FindIssueByTitle, Page, Numbers
  <2>6. Progress
    BY DEF Types, CommandTypes
  <2>7. Progress'
    BY <2>1, <2>4, <2>5, <2>6 DEF Progress
  <2> QED  BY <2>2, <2>3, <2>7 DEF CommandTypes
<1>2. CASE Start
  <2>1. /\ file # Torn /\ mem' = file /\ pc' = "item" /\ at' = 1
        /\ UNCHANGED <<issues, tries, listed>>
    BY <1>2 DEF Start, Go
  <2>2. Manifest(mem)'
    BY <2>1, IssuesStay DEF Types, Manifest
  <2>3. pc' \in Places /\ InList' /\ Progress'
    BY <2>1, WorkFacts DEF Places, InList, Progress
  <2>4. tries' \in 0..(MaxTries - 1) /\ listed' \subseteq Numbers'
    BY <2>1, IssuesStay DEF Types, CommandTypes
  <2> QED  BY <2>2, <2>3, <2>4 DEF CommandTypes
<1>3. CASE UpdateCutOff \/ SaveCutOff \/ DanglingDependency \/ LastSave \/ Abort
  BY <1>3, ExitTypes DEF UpdateCutOff, SaveCutOff, DanglingDependency, LastSave, Abort
<1>4. CASE RemoveTornManifest \/ EditPlan
  <2>1. pc = "idle" /\ UNCHANGED <<issues, mem, pc, at, tries, listed>>
    BY <1>4 DEF RemoveTornManifest, EditPlan, command
  <2>2. Manifest(mem)'
    BY <2>1, ManifestStays
  <2>3. pc' \in Places /\ InList' /\ Progress'
    BY <2>1 DEF Types, CommandTypes, Places, InList, Progress
  <2>4. tries' \in 0..(MaxTries - 1) /\ listed' \subseteq Numbers'
    BY <2>1, IssuesStay DEF Types, CommandTypes
  <2> QED  BY <2>2, <2>3, <2>4 DEF CommandTypes
<1>5. CASE CreationLands
  <2>1. pc # "update" /\ UNCHANGED <<plan, mem, pc, at, tries, listed>>
    BY <1>5 DEF CreationLands, planned, command
  <2>2. Manifest(mem)' /\ listed' \subseteq Numbers'
    BY <2>1, ManifestStays, IssuesStay DEF Types, CommandTypes
  <2>3. pc' \in Places /\ InList' /\ tries' \in 0..(MaxTries - 1)
    BY <2>1 DEF Types, CommandTypes, InList
  <2>4. Item' = Item /\ Known' = Known /\ \A i : UpToDate(mem, i) = UpToDate(mem, i)'
    BY <2>1 DEF Item, Known, UpToDate
  <2>5. Progress
    BY DEF Types, CommandTypes
  <2>6. Progress'
    BY <2>1, <2>4, <2>5 DEF Progress
  <2> QED  BY <2>2, <2>3, <2>6 DEF CommandTypes
<1> QED  BY <1>1, <1>2, <1>3, <1>4, <1>5, ItemSteps, LinkSteps DEF Next, Step, Fault

(* What stays of a manifest when GitHub changes.                           *)
LEMMA FileStays ==
  ASSUME Types, Growth, file' = file, file' # Torn
  PROVE  Manifest(file)'
<1>1. Manifest(file) /\ \A i \in DOMAIN file : file[i].num \in IssuesOf(i)'
  BY IssuesStay DEF Types
<1> QED  BY <1>1 DEF Manifest

(* Every step but a save leaves the file, and a save writes what the command *)
(* remembers.                                                              *)
LEMMA FileSteps ==
  ASSUME [Next]_vars
  PROVE  \/ file' = file
         \/ (Save \/ LastSave) /\ file' = mem /\ issues' = issues
         \/ SaveCutOff /\ file' = Torn
         \/ RemoveTornManifest /\ file' = NoRecords
<1>1. CASE UNCHANGED vars
  BY <1>1 DEF vars
<1>2. CASE SyncItem \/ UpdateIssue \/ CreateIssue \/ Recheck \/ ItemsDone \/ ListSubIssues
           \/ AddSubIssue \/ ChildrenDone
  BY <1>2 DEF SyncItem, UpdateIssue, CreateIssue, Recheck, ItemsDone, ListSubIssues, AddSubIssue,
              ChildrenDone
<1>3. CASE ListBlockedBy \/ AddBlockedBy \/ DanglingDependency \/ BlockersDone \/ UpdateCutOff
           \/ CreateUnanswered \/ RecheckFails \/ Abort \/ AddSubIssueMisread \/ AddBlockedByMisread
  BY <1>3 DEF ListBlockedBy, AddBlockedBy, DanglingDependency, BlockersDone, UpdateCutOff, CreateUnanswered,
              RecheckFails, Abort, AddSubIssueMisread, AddBlockedByMisread
<1>4. CASE Start \/ CreationLands \/ EditPlan
  BY <1>4 DEF Start, CreationLands, EditPlan
<1>5. CASE Save \/ LastSave \/ SaveCutOff \/ RemoveTornManifest
  BY <1>5 DEF Save, LastSave, SaveCutOff, RemoveTornManifest
<1> QED  BY <1>1, <1>2, <1>3, <1>4, <1>5 DEF Next, Step, Fault

(* The variables a step changes outside of the command.                    *)
LEMMA OtherTypes ==
  ASSUME Types, [Next]_vars
  PROVE  /\ plan' \in [Items -> Texts] /\ retitled' \subseteq Items /\ edits' \in 0..MaxEdits
         /\ synced' \in BOOLEAN /\ faults' \in 0..MaxFaults
         /\ blind' \subseteq Items /\ adrift' \subseteq Items
<1>1. /\ plan \in [Items -> Texts] /\ retitled \subseteq Items /\ edits \in 0..MaxEdits
      /\ synced \in BOOLEAN /\ faults \in 0..MaxFaults
      /\ blind \subseteq Items /\ adrift \subseteq Items
  BY DEF Types
<1>2. MaxEdits \in Nat /\ MaxFaults \in Nat
  BY PlanFacts
<1>3. ASSUME Faulty PROVE faults' \in 0..MaxFaults
  BY <1>1, <1>2, <1>3 DEF Faulty
<1>4. CASE UNCHANGED vars
  BY <1>1, <1>4 DEF vars, planned, history
<1>5. CASE SyncItem \/ CreateIssue \/ Recheck \/ ItemsDone \/ ListSubIssues \/ AddSubIssue
  BY <1>1, <1>5 DEF SyncItem, CreateIssue, Recheck, ItemsDone, ListSubIssues, AddSubIssue,
                    planned, history
<1>6. CASE ChildrenDone \/ ListBlockedBy \/ AddBlockedBy \/ DanglingDependency \/ BlockersDone
           \/ Save
  BY <1>1, <1>6 DEF ChildrenDone, ListBlockedBy, AddBlockedBy, DanglingDependency, BlockersDone,
                    Save, planned, history
<1>7. CASE CreateUnanswered \/ Abort \/ AddSubIssueMisread \/ AddBlockedByMisread \/ SaveCutOff
           \/ CreationLands
  BY <1>1, <1>3, <1>7 DEF CreateUnanswered, Abort, AddSubIssueMisread, AddBlockedByMisread,
                          SaveCutOff, CreationLands, planned, history
<1>8. CASE UpdateIssue \/ UpdateCutOff
  <2>1. Item \in Items
    BY <1>8, PlaceFacts DEF UpdateIssue, UpdateCutOff
  <2>2. adrift' \subseteq Items /\ UNCHANGED <<planned, synced, blind>>
    BY <1>1, <1>8, <2>1 DEF UpdateIssue, UpdateCutOff, Patch
  <2>3. faults' \in 0..MaxFaults
    BY <1>1, <1>3, <1>8 DEF UpdateIssue, UpdateCutOff
  <2> QED  BY <1>1, <2>2, <2>3 DEF planned
<1>9. CASE RecheckFails
  <2>1. Item \in Items
    BY <1>9, PlaceFacts DEF RecheckFails
  <2> QED  BY <1>1, <1>3, <1>9, <2>1 DEF RecheckFails, planned
<1>10. CASE LastSave \/ Start \/ RemoveTornManifest
  BY <1>1, <1>10 DEF LastSave, Start, RemoveTornManifest, planned, history
<1>11. CASE EditPlan
  <2>1. PICK i \in Items, text \in Texts :
          /\ plan' = [plan EXCEPT ![i] = text]
          /\ retitled' = IF text.title # plan[i].title THEN retitled \union {i} ELSE retitled
    BY <1>11 DEF EditPlan
  <2>2. plan' \in [Items -> Texts] /\ retitled' \subseteq Items
    BY <1>1, <2>1
  <2>3. edits' \in 0..MaxEdits
    BY <1>1, <1>2, <1>11 DEF EditPlan
  <2> QED  BY <1>1, <1>11, <2>2, <2>3 DEF EditPlan, history
<1> QED  BY <1>4, <1>5, <1>6, <1>7, <1>8, <1>9, <1>10, <1>11 DEF Next, Step, Fault

(* The type invariant is inductive.                                        *)
LEMMA StepTypes ==
  ASSUME Types, [Next]_vars
  PROVE  Types' /\ Growth
<1>1. Growth
  BY Grows
<1>2. CommandTypes'
  BY <1>1, StepCommandTypes
<1>3. IssueTypes'
  BY <1>1 DEF Growth, IssueTypes, Numbers
<1>4. file' # Torn => Manifest(file)'
  <2>1. CASE file' = file
    BY <1>1, <2>1, FileStays
  <2>2. CASE file' = mem /\ issues' = issues
    <3>1. Manifest(mem)
      BY DEF Types, CommandTypes
    <3>2. \A i \in DOMAIN mem : mem[i].num \in IssuesOf(i)'
      BY <1>1, <3>1, IssuesStay
    <3> QED  BY <2>2, <3>1, <3>2 DEF Manifest
  <2>3. CASE file' = NoRecords
    BY <2>3, NoRecordsFacts DEF Manifest
  <2> QED  BY <2>1, <2>2, <2>3, FileSteps
<1> QED  BY <1>1, <1>2, <1>3, <1>4, OtherTypes, LateSteps DEF Types

(* The types hold at the start.                                            *)
LEMMA InitTypes ==
  ASSUME Init
  PROVE  Types
<1>1. plan \in [Items -> Texts]
  BY PlanFacts DEF Init, Texts
<1>2. IssueTypes
  BY DEF Init, IssueTypes, Numbers
<1>3. CommandTypes
  BY NoRecordsFacts, PlanFacts DEF Init, CommandTypes, Places, InList, Progress
<1>4. Manifest(file)
  <2>1. DOMAIN file = {} /\ file \in [DOMAIN file -> Records]
    BY NoRecordsFacts DEF Init
  <2> QED  BY <2>1 DEF Manifest
<1>5. edits \in 0..MaxEdits /\ faults \in 0..MaxFaults /\ synced \in BOOLEAN
  <2>1. 0 \in 0..MaxEdits /\ 0 \in 0..MaxFaults
    BY PlanFacts
  <2> QED  BY <2>1 DEF Init
<1>6. late \subseteq Creations /\ blind \subseteq Items /\ retitled \subseteq Items /\ adrift \subseteq Items
  BY DEF Init
<1> QED  BY <1>1, <1>2, <1>3, <1>4, <1>5, <1>6 DEF Types

(* Every variable has its type, a manifest names issues of its items, and  *)
(* the items before the command's place are recorded as the plan has them. *)
THEOREM TypeInvariance == Spec => []Types
<1>1. Init => Types
  BY InitTypes
<1>2. Types /\ [Next]_vars => Types'
  BY StepTypes
<1> QED  BY <1>1, <1>2, PTL DEF Spec

(* TypeOK of the model.                                                    *)
THEOREM TypeCorrect == Spec => []TypeOK
<1>1. ASSUME Types PROVE TypeOK
  <2>1. \A n \in Numbers :
          issues[n] \in [item : Items, text : Texts, parent : 0..Len(issues),
                         blockers : SUBSET Numbers]
    <3>1. \A n \in Numbers : issues[n] \in IssueRecords
      BY <1>1, NumberFacts
    <3>2. \A n \in Numbers : issues[n].parent \in 0..Len(issues) /\ issues[n].blockers \subseteq Numbers
      BY <1>1 DEF Types, IssueTypes
    <3> QED  BY <3>1, <3>2 DEF IssueRecords
  <2>2. ASSUME NEW m \in {mem} \union ({file} \ {Torn})
        PROVE  /\ DOMAIN m \subseteq Items
               /\ \A i \in DOMAIN m : m[i].num \in IssuesOf(i) /\ m[i].text \in Texts
    <3>1. Manifest(m)
      BY <1>1, <2>2 DEF Types, CommandTypes
    <3> QED  BY <3>1 DEF Manifest, Records
  <2>3. at \in 1..(Len(Worklist) + 1)
    <3>1. /\ Len(Worklist) \in Nat /\ Len(OrderedTasks) \in Nat
          /\ Len(OrderedTasks) <= Len(Worklist)
      BY WorkFacts
    <3>2. pc \in Places /\ InList
      BY <1>1 DEF Types, CommandTypes
    <3> QED  BY <3>1, <3>2 DEF Places, InList
  <2> QED  BY <1>1, <2>1, <2>2, <2>3 DEF TypeOK, Types, CommandTypes, Places
<1> QED  BY <1>1, TypeInvariance, PTL

----------------------------------------------------------------------------
(* What GitHub shows.                                                      *)

(* What a manifest records is what GitHub shows, of the items that are not *)
(* adrift and were not created late.                                       *)
Shows(m) == \A i \in DOMAIN m \ (adrift \union Tardy) : issues[m[i].num].text = m[i].text

(* The command's manifest and the file agree with GitHub, so do the answers *)
(* it acts on, and a run that succeeded has recorded the whole plan.       *)
TextInv ==
  /\ Shows(mem) /\ (file # Torn => Shows(file))
  /\ pc = "save" => Item \in Tardy \/ issues[mem[Item].num].text = plan[Item]
  /\ pc \in {"create", "recheck"} => Item \in Tardy \/ \A n \in Found : issues[n].text = plan[Item]
  /\ synced => pc = "idle" /\ file # Torn /\ \A i \in Items : UpToDate(file, i)

(* The steps after which the command remembers something else, or is about *)
(* to save.                                                                *)
LEMMA MemSteps ==
  ASSUME [Next]_vars
  PROVE  \/ mem' = mem /\ (pc' # "save" \/ UNCHANGED vars)
         \/ mem' = NoRecords /\ pc' = "idle"
         \/ Start \/ CreationLands
         \/ UpdateIssue \/ CreateIssue
         \/ Recheck /\ Cardinality(Found) = 1 /\ Remember(Target)
<1>1. CASE UNCHANGED vars
  BY <1>1 DEF vars, command
<1>2. CASE SyncItem \/ ItemsDone \/ ListSubIssues \/ AddSubIssue \/ ChildrenDone \/ Save
  BY <1>2 DEF SyncItem, ItemsDone, ListSubIssues, AddSubIssue, ChildrenDone, Save, Go, Exit
<1>3. CASE ListBlockedBy \/ AddBlockedBy \/ DanglingDependency \/ BlockersDone \/ LastSave
  BY <1>3 DEF ListBlockedBy, AddBlockedBy, DanglingDependency, BlockersDone, LastSave, Go, Exit
<1>4. CASE UpdateCutOff \/ CreateUnanswered \/ RecheckFails \/ SaveCutOff \/ Abort
  BY <1>4 DEF UpdateCutOff, CreateUnanswered, RecheckFails, SaveCutOff, Abort, TryAgain, Go, Exit
<1>5. CASE AddSubIssueMisread \/ AddBlockedByMisread \/ RemoveTornManifest \/ EditPlan
  BY <1>5 DEF AddSubIssueMisread, AddBlockedByMisread, RemoveTornManifest, EditPlan, command, Go
<1>6. CASE Recheck
  BY <1>6 DEF Recheck, TryAgain, Go, Exit
<1> QED  BY <1>1, <1>2, <1>3, <1>4, <1>5, <1>6 DEF Next, Step, Fault

(* The steps after which the command is about to create an issue or to look *)
(* for the one it may have created.                                        *)
LEMMA LookSteps ==
  ASSUME [Next]_vars, pc' \in {"create", "recheck"}
  PROVE  \/ UNCHANGED vars
         \/ CreationLands /\ pc' = pc /\ at' = at /\ plan' = plan
         \/ /\ pc = "item" /\ at <= Len(Worklist) /\ pc' = "create" /\ at' = at
            /\ Found = {} /\ issues' = issues /\ plan' = plan
         \/ /\ pc = "create" /\ pc' = "recheck" /\ at' = at /\ plan' = plan
         \/ /\ pc = "recheck" /\ pc' = "create" /\ at' = at /\ issues' = issues /\ plan' = plan
            /\ (Recheck /\ Cardinality(Found) # 1) \/ RecheckFails
<1>1. CASE SyncItem \/ CreateUnanswered
  BY <1>1 DEF SyncItem, CreateUnanswered, Go, Exit, planned
<1>2. CASE Recheck \/ RecheckFails
  BY <1>2 DEF Recheck, RecheckFails, Remember, TryAgain, Go, Exit, planned
<1>3. CASE UpdateIssue \/ CreateIssue \/ Save \/ ItemsDone \/ ListSubIssues \/ AddSubIssue
           \/ ChildrenDone \/ ListBlockedBy
  BY <1>3 DEF UpdateIssue, CreateIssue, Save, ItemsDone, ListSubIssues, AddSubIssue, ChildrenDone,
              ListBlockedBy, Remember, Go
<1>4. CASE AddBlockedBy \/ DanglingDependency \/ BlockersDone \/ LastSave \/ UpdateCutOff
           \/ SaveCutOff \/ Abort \/ AddSubIssueMisread \/ AddBlockedByMisread
  BY <1>4 DEF AddBlockedBy, DanglingDependency, BlockersDone, LastSave, UpdateCutOff, SaveCutOff,
              Abort, AddSubIssueMisread, AddBlockedByMisread, Go, Exit
<1>5. CASE Start \/ CreationLands \/ RemoveTornManifest \/ EditPlan
  BY <1>5 DEF Start, CreationLands, RemoveTornManifest, EditPlan, command, planned, Go
<1> QED  BY <1>1, <1>2, <1>3, <1>4, <1>5 DEF Next, Step, Fault

(* A run succeeds with its last save, and stays a success until another    *)
(* run starts or the plan changes, whatever GitHub creates meanwhile.      *)
LEMMA SyncedSteps ==
  ASSUME [Next]_vars, synced \in BOOLEAN, synced', synced => pc = "idle" /\ file # Torn
  PROVE  LastSave \/ (CreationLands /\ synced) \/ UNCHANGED vars
<1>1. CASE CreationLands
  BY <1>1 DEF CreationLands
<1>2. CASE Start \/ RemoveTornManifest \/ EditPlan
  BY <1>2 DEF Start, RemoveTornManifest, EditPlan
<1>3. CASE SyncItem \/ UpdateIssue \/ CreateIssue \/ Recheck \/ Save \/ ItemsDone
           \/ ListSubIssues \/ AddSubIssue
  BY <1>3 DEF SyncItem, UpdateIssue, CreateIssue, Recheck, Save, ItemsDone, ListSubIssues,
              AddSubIssue
<1>4. CASE ChildrenDone \/ ListBlockedBy \/ AddBlockedBy \/ DanglingDependency \/ BlockersDone
  BY <1>4 DEF ChildrenDone, ListBlockedBy, AddBlockedBy, DanglingDependency, BlockersDone
<1>5. CASE Fault
  BY <1>5 DEF Fault, UpdateCutOff, CreateUnanswered, RecheckFails, SaveCutOff, Abort,
              AddSubIssueMisread, AddBlockedByMisread
<1> QED  BY <1>1, <1>2, <1>3, <1>4, <1>5 DEF Next, Step

(* An item is settled, no longer adrift, by the save of its record only.   *)
LEMMA AdriftSteps ==
  ASSUME [Next]_vars
  PROVE  Save \/ adrift \subseteq adrift'
<1>1. CASE UNCHANGED vars
  BY <1>1 DEF vars, history
<1>2. CASE UpdateIssue \/ UpdateCutOff
  BY <1>2 DEF UpdateIssue, UpdateCutOff, Patch
<1>3. CASE SyncItem \/ CreateIssue \/ Recheck \/ ItemsDone \/ ListSubIssues \/ AddSubIssue
           \/ ChildrenDone \/ ListBlockedBy
  BY <1>3 DEF SyncItem, CreateIssue, Recheck, ItemsDone, ListSubIssues, AddSubIssue, ChildrenDone,
              ListBlockedBy, history
<1>4. CASE AddBlockedBy \/ DanglingDependency \/ BlockersDone \/ LastSave \/ Start
           \/ CreationLands \/ RemoveTornManifest \/ EditPlan
  BY <1>4 DEF AddBlockedBy, DanglingDependency, BlockersDone, LastSave, Start, CreationLands,
              RemoveTornManifest, EditPlan, history
<1>5. CASE CreateUnanswered \/ RecheckFails \/ SaveCutOff \/ Abort \/ AddSubIssueMisread
           \/ AddBlockedByMisread
  BY <1>5 DEF CreateUnanswered, RecheckFails, SaveCutOff, Abort, AddSubIssueMisread,
              AddBlockedByMisread, history
<1> QED  BY <1>1, <1>2, <1>3, <1>4, <1>5 DEF Next, Step, Fault

(* A manifest that agrees with GitHub keeps doing so while items only go   *)
(* adrift.                                                                 *)
LEMMA ShowsStays ==
  ASSUME Types, Growth, adrift \subseteq adrift', Tardy \subseteq Tardy',
         NEW m, Manifest(m), Shows(m)
  PROVE  \A i \in DOMAIN m \ (adrift' \union Tardy') : issues'[m[i].num].text = m[i].text
<1> SUFFICES ASSUME NEW i \in DOMAIN m \ (adrift' \union Tardy')
             PROVE  issues'[m[i].num].text = m[i].text
  OBVIOUS
<1>1. m[i].num \in IssuesOf(i) /\ issues[m[i].num].text = m[i].text
  BY DEF Manifest, Shows
<1>2. m[i].num \in Numbers /\ issues[m[i].num].item = i
  BY <1>1 DEF IssuesOf
<1>3. pc = "update" => issues[Target].item = Item
  BY PlaceFacts DEF IssuesOf
<1> QED  BY <1>1, <1>2, <1>3 DEF Growth

(* An issue that is on the page is on it before an issue is added.         *)
LEMMA PageShrinks ==
  ASSUME Types, Growth
  PROVE  \A k : \A n \in Page(k)' : n \in Numbers => n \in Page(k)
<1> SUFFICES ASSUME NEW k, NEW n \in Page(k)', n \in Numbers
             PROVE  n \in Page(k)
  OBVIOUS
<1> DEFINE S == {j \in Numbers : j > n /\ Kind(issues[j].item) = k}
           R == {j \in Numbers' : j > n /\ Kind(issues'[j].item) = k}
<1>1. Kind(issues'[n].item) = k /\ Cardinality(R) < PageSize
  BY DEF Page, Kind
<1>2. Numbers' = 1..Len(issues') /\ Len(issues') \in Nat
  BY DEF Growth, IssueTypes, Numbers
<1>3. IsFiniteSet(R)
  <2>1. IsFiniteSet(1..Len(issues'))
    BY <1>2, FS_Interval
  <2>2. R \subseteq 1..Len(issues')
    BY <1>2
  <2> QED  BY <2>1, <2>2, FS_Subset
<1>4. S \subseteq R /\ issues'[n].item = issues[n].item
  BY DEF Growth
<1>5. Cardinality(S) \in Nat /\ Cardinality(R) \in Nat /\ Cardinality(S) <= Cardinality(R)
  BY <1>3, <1>4, FS_Subset, FS_CardinalityType
<1>6. Cardinality(S) < PageSize
  <2> HIDE DEF S, R
  <2> QED  BY <1>1, <1>5, PlanFacts
<1> QED  BY <1>1, <1>4, <1>6 DEF Page

(* TextInv is inductive, given the types.                                  *)
LEMMA StepTexts ==
  ASSUME Types, Types', Growth, TextInv, [Next]_vars
  PROVE  TextInv'
<1>1. Manifest(mem) /\ (file # Torn => Manifest(file)) /\ plan \in [Items -> Texts]
  BY DEF Types, CommandTypes
<1>2. Shows(mem) /\ (file # Torn => Shows(file)) /\ synced \in BOOLEAN
  BY DEF TextInv, Types
<1>3. pc \in {"update", "create", "recheck", "save"} => Item \in Items
  BY PlaceFacts
<1>4. CASE Save
  <2>1. /\ pc = "save" /\ file' = mem /\ mem' = mem /\ issues' = issues
        /\ adrift' = adrift \ {Item} /\ pc' = "item" /\ synced' = synced /\ late' = late
    BY <1>4 DEF Save, Go
  <2>2. mem[Item].text = plan[Item] /\ (Item \in Tardy \/ issues[mem[Item].num].text = plan[Item])
    BY <2>1 DEF TextInv, Types, CommandTypes, Progress, UpToDate
  <2>3. Tardy' = Tardy
    BY <2>1 DEF Tardy
  <2>4. \A i \in DOMAIN mem \ (adrift' \union Tardy') : issues[mem[i].num].text = mem[i].text
    BY <1>2, <2>1, <2>2, <2>3 DEF Shows
  <2>5. ~synced
    BY <2>1 DEF TextInv
  <2> QED  BY <2>1, <2>4, <2>5 DEF TextInv, Shows
<1>5. CASE UNCHANGED vars
  <2>1. UNCHANGED <<plan, issues, late, file, mem, pc, at, synced, adrift>>
    BY <1>5 DEF vars, planned, command, history
  <2>2. Tardy' = Tardy
    BY <2>1 DEF Tardy
  <2>3. /\ Item' = Item /\ Shows(mem)' = Shows(mem) /\ Shows(file)' = Shows(file)
        /\ \A i : UpToDate(file, i)' = UpToDate(file, i)
    BY <2>1, <2>2 DEF Item, Shows, UpToDate
  <2>4. Found' = Found
    BY <2>1, <2>3 DEF Found, FindIssueByTitle, Page, Numbers
  <2> QED  BY <2>1, <2>2, <2>3, <2>4 DEF TextInv
<1>6. CASE ~Save /\ ~UNCHANGED vars
  <2> DEFINE MemShows ==
        /\ \A i \in DOMAIN mem' \ (adrift' \union Tardy') : issues'[mem'[i].num].text = mem'[i].text
        /\ pc' = "save" => Item' \in Tardy' \/ issues'[mem'[Item'].num].text = plan'[Item']
  <2>1. adrift \subseteq adrift' /\ Tardy \subseteq Tardy'
    BY <1>6, AdriftSteps, LateSteps
  <2>2. \A i \in DOMAIN mem \ (adrift' \union Tardy') : issues'[mem[i].num].text = mem[i].text
    BY <1>1, <1>2, <2>1, ShowsStays
  <2>3. file # Torn => \A i \in DOMAIN file \ (adrift' \union Tardy') :
                         issues'[file[i].num].text = file[i].text
    BY <1>1, <1>2, <2>1, ShowsStays
  <2>4. ASSUME NEW n, Remember(n), pc \in {"update", "create", "recheck"},
               Item \in Tardy \/ issues'[n].text = plan[Item], plan' = plan
        PROVE  MemShows
    <3>1. /\ mem' = With(mem, Item, [num |-> n, text |-> plan[Item]])
          /\ pc' = "save" /\ Item' = Item
      BY <2>4 DEF Remember, Go, Item
    <3>2. /\ DOMAIN mem' = DOMAIN mem \union {Item}
          /\ mem'[Item].num = n /\ mem'[Item].text = plan[Item]
          /\ \A i \in DOMAIN mem \ {Item} : mem'[i] = mem[i]
      BY <3>1 DEF With
    <3> QED  BY <2>1, <2>2, <2>4, <3>1, <3>2
  <2>5. ASSUME UpdateIssue
        PROVE  MemShows
    <3>1. /\ pc = "update" /\ Remember(Target) /\ plan' = plan
          /\ issues' = [issues EXCEPT ![Target].text = plan[Item]]
      BY <2>5 DEF UpdateIssue, Patch, planned
    <3>2. Target \in Numbers
      BY <3>1, PlaceFacts, NumberFacts
    <3>3. issues[Target] \in IssueRecords /\ issues \in Seq(IssueRecords)
      BY <3>2, NumberFacts DEF Types, IssueTypes
    <3>4. issues'[Target].text = plan[Item]
      BY <3>1, <3>2, <3>3 DEF Numbers, IssueRecords
    <3> QED  BY <2>4, <3>1, <3>4
  <2>6. ASSUME CreateIssue
        PROVE  MemShows
    <3>1. /\ pc = "create" /\ Remember(Len(issues) + 1) /\ plan' = plan
          /\ issues' = Append(issues, NewIssue)
      BY <2>6 DEF CreateIssue, planned
    <3>2. issues'[Len(issues) + 1].text = plan[Item]
      BY <3>1, CreatedFacts DEF NewIssue
    <3> QED  BY <2>4, <3>1, <3>2
  <2>7. ASSUME Recheck /\ Cardinality(Found) = 1 /\ Remember(Target)
        PROVE  MemShows
    <3>1. pc = "recheck" /\ plan' = plan /\ issues' = issues
      BY <2>7 DEF Recheck, planned
    <3>2. Target \in Found
      BY <2>7, <3>1, PlaceFacts
    <3>3. Item \in Tardy \/ issues'[Target].text = plan[Item]
      BY <3>1, <3>2 DEF TextInv
    <3> QED  BY <2>4, <2>7, <3>1, <3>3
  <2>8. ASSUME Start
        PROVE  MemShows
    BY <2>3, <2>8 DEF Start, Go
  <2>9. ASSUME mem' = NoRecords /\ pc' = "idle"
        PROVE  MemShows
    BY <2>9, NoRecordsFacts
  <2>10. ASSUME CreationLands
         PROVE  MemShows
    <3>1. pc # "update" /\ pc' = pc /\ Item' = Item /\ mem' = mem /\ plan' = plan
      BY <2>10 DEF CreationLands, command, planned, Item
    <3>2. ASSUME pc = "save", Item \notin Tardy
          PROVE  issues'[mem[Item].num].text = plan[Item]
      <4>1. mem[Item].num \in Numbers
        BY <1>1, <3>2, PlaceFacts, NumberFacts DEF Manifest
      <4>2. issues'[mem[Item].num].text = issues[mem[Item].num].text
        BY <3>1, <4>1 DEF Growth
      <4> QED  BY <3>2, <4>2 DEF TextInv
    <3> QED  BY <2>1, <2>2, <3>1, <3>2
  <2>11. MemShows
    BY <1>6, <2>2, <2>4, <2>5, <2>6, <2>7, <2>8, <2>9, <2>10, MemSteps
  <2>12. file' # Torn => \A i \in DOMAIN file' \ (adrift' \union Tardy') :
                           issues'[file'[i].num].text = file'[i].text
    BY <1>6, <2>2, <2>3, NoRecordsFacts, FileSteps
  <2>13. ASSUME pc' \in {"create", "recheck"}, Item' \notin Tardy'
         PROVE  \A n \in Found' : issues'[n].text = plan'[Item']
    <3>1. CASE pc = "item" /\ at' = at /\ Found = {} /\ issues' = issues /\ plan' = plan
      <4>1. Found' = Found
        BY <3>1 DEF Found, FindIssueByTitle, Page, Numbers, Item
      <4> QED  BY <3>1, <4>1
    <3>2. CASE pc = "recheck" /\ at' = at /\ issues' = issues /\ plan' = plan
      <4>1. Found' = Found /\ Item' = Item
        BY <3>2 DEF Found, FindIssueByTitle, Page, Numbers, Item
      <4> QED  BY <2>1, <2>13, <3>2, <4>1 DEF TextInv
    <3>3. CASE pc \in {"create", "recheck"} /\ at' = at /\ plan' = plan
      <4>1. Item' = Item /\ Item \notin Tardy
        BY <2>1, <2>13, <3>3 DEF Item
      <4> SUFFICES ASSUME NEW n \in Found'
                   PROVE  issues'[n].text = plan[Item]
        BY <3>3, <4>1
      <4>2. n \in Page(Kind(Item))' /\ issues'[n].item = Item /\ issues'[n].text.title = plan[Item].title
        BY <3>3, <4>1 DEF Found, FindIssueByTitle
      <4>3. CASE n \in Numbers
        <5>1. issues'[n].item = issues[n].item /\ issues'[n].text = issues[n].text
          BY <3>3, <4>3 DEF Growth
        <5>2. \E k \in {Kind(Item)} : k = Kind(Item)' /\ n \in Page(k)'
          BY <4>1, <4>2 DEF Kind
        <5>3. n \in Page(Kind(Item))
          BY <4>3, <5>2, PageShrinks
        <5>4. n \in Found
          BY <4>2, <5>1, <5>3 DEF Found, FindIssueByTitle
        <5> QED  BY <3>3, <4>1, <5>1, <5>4 DEF TextInv
      <4>4. CASE n \notin Numbers
        <5>1. n \in Numbers'
          BY <4>2 DEF Page
        <5> QED  BY <4>1, <4>2, <4>4, <5>1 DEF Growth, NewIssue, Tardy
      <4> QED  BY <4>3, <4>4
    <3> QED  BY <1>6, <2>13, <3>1, <3>2, <3>3, LookSteps
  <2>14. ASSUME synced'
         PROVE  pc' = "idle" /\ file' # Torn /\ \A i \in Items : i \in DOMAIN file' /\ file'[i].text = plan'[i]
    <3>1. CASE LastSave
      <4>1. pc = "finish" /\ file' = mem /\ pc' = "idle" /\ plan' = plan
        BY <3>1 DEF LastSave, Exit, Go, planned
      <4>2. \A i \in Items : i \in DOMAIN mem /\ mem[i].text = plan[i]
        BY <4>1 DEF Types, CommandTypes, Progress, UpToDate
      <4>3. mem # Torn
        BY <1>1, PlanFacts DEF Manifest
      <4> QED  BY <4>1, <4>2, <4>3 DEF UpToDate
    <3>2. CASE CreationLands /\ synced
      BY <3>2 DEF CreationLands, command, planned, TextInv, UpToDate
    <3> QED  BY <1>2, <1>6, <2>14, <3>1, <3>2, SyncedSteps DEF TextInv
  <2>15. Shows(mem)' /\ (file' # Torn => Shows(file)')
    BY <2>11, <2>12 DEF Shows
  <2>16. (pc = "save" => Item \in Tardy \/ issues[mem[Item].num].text = plan[Item])'
    BY <2>11
  <2>17. (pc \in {"create", "recheck"} =>
            Item \in Tardy \/ \A n \in Found : issues[n].text = plan[Item])'
    BY <2>13
  <2>18. (synced => pc = "idle" /\ file # Torn /\ \A i \in Items : UpToDate(file, i))'
    BY <2>14 DEF UpToDate
  <2> QED  BY <2>15, <2>16, <2>17, <2>18 DEF TextInv
<1> QED  BY <1>4, <1>5, <1>6

(* What a successful run leaves is what the plan says.                     *)
THEOREM TextInvariance == Spec => [](Types /\ TextInv)
<1>1. Init => Types /\ TextInv
  <2>1. ASSUME Init PROVE TextInv
    BY <2>1, NoRecordsFacts DEF Init, TextInv, Shows
  <2> QED  BY <2>1, InitTypes
<1>2. Types /\ TextInv /\ [Next]_vars => (Types /\ TextInv)'
  BY StepTypes, StepTexts
<1> QED  BY <1>1, <1>2, PTL DEF Spec

(* SyncedMeansUpToDate: after a run without an error every item that is    *)
(* not adrift, and not created late, has an issue with the plan's text.    *)
THEOREM SyncsAreUpToDate == Spec => []SyncedMeansUpToDate
<1>1. Types /\ TextInv => SyncedMeansUpToDate
  BY DEF Types, TextInv, SyncedMeansUpToDate, Shows, UpToDate
<1> QED  BY <1>1, TextInvariance, PTL

----------------------------------------------------------------------------
(* The links.                                                              *)

(* The issue of a task has a parent, unless a number reads like a 422.     *)
ParentDone(m, t) ==
  {m[t].num, m[SprintOf(t)].num} \intersect Misread = {} => issues[m[t].num].parent # 0

(* ... and is blocked by the issues of the tasks that block the task.      *)
BlockersAreDone(m, t) ==
  \A b \in LinkedBlockers(t) :
    {m[t].num, m[b].num} \intersect Misread = {} => m[b].num \in issues[m[t].num].blockers

(* A parent is an issue of the task's sprint, and the links are done up to *)
(* the command's place.                                                    *)
LinkInv ==
  /\ \A n \in Numbers : issues[n].parent # 0 => issues[n].parent \in IssuesOf(SprintOf(issues[n].item))
  /\ pc \notin {"children", "child", "blockers", "blocker", "finish"} => listed = {}
  /\ pc \in {"children", "child"} =>
       /\ \A n \in listed : issues[n].parent # 0
       /\ \A j \in 1..(at - 1) : ParentDone(mem, OrderedTasks[j])
  /\ pc \in {"blockers", "blocker", "finish"} => \A t \in Tasks : ParentDone(mem, t)
  /\ pc \in {"blockers", "blocker"} =>
       \A j \in 1..(at - 1) : BlockersAreDone(mem, OrderedTasks[j])
  /\ pc = "blocker" =>
       \A n \in listed : n \in issues[Child].blockers \/ {Child, n} \intersect Misread # {}
  /\ pc = "finish" => \A t \in Tasks : BlockersAreDone(mem, t)
  /\ synced => pc = "idle" /\ file # Torn /\ \A t \in Tasks : ParentDone(file, t) /\ BlockersAreDone(file, t)

(* A link that is there stays.                                             *)
LEMMA LinksStay ==
  ASSUME Types, Growth, NEW m, Manifest(m), Items \subseteq DOMAIN m, NEW t \in Tasks
  PROVE  /\ ParentDone(m, t) =>
              ({m[t].num, m[SprintOf(t)].num} \intersect Misread = {} => issues'[m[t].num].parent # 0)
         /\ BlockersAreDone(m, t) =>
              \A b \in LinkedBlockers(t) :
                {m[t].num, m[b].num} \intersect Misread = {} => m[b].num \in issues'[m[t].num].blockers
<1>1. m[t].num \in Numbers
  BY PlanFacts, NumberFacts DEF Manifest
<1>2. /\ issues[m[t].num].parent # 0 => issues'[m[t].num].parent # 0
      /\ issues[m[t].num].blockers \subseteq issues'[m[t].num].blockers
  BY <1>1 DEF Growth
<1> QED  BY <1>2 DEF ParentDone, BlockersAreDone

(* A parent stays an issue of the sprint.                                  *)
LEMMA ParentsStay ==
  ASSUME Types, Growth, LinkInv
  PROVE  \A n \in Numbers' : issues'[n].parent # 0 =>
           \A s : s = SprintOf(issues'[n].item) => issues'[n].parent \in IssuesOf(s)'
<1> SUFFICES ASSUME NEW n \in Numbers', issues'[n].parent # 0
             PROVE  \A s : s = SprintOf(issues'[n].item) => issues'[n].parent \in IssuesOf(s)'
  OBVIOUS
<1>1. n \in Numbers
  BY DEF Growth, NewIssue, Types, Creations
<1>2. issues'[n].item = issues[n].item
  BY <1>1 DEF Growth
<1>3. CASE issues'[n].parent = issues[n].parent
  BY <1>1, <1>2, <1>3, IssuesStay DEF LinkInv
<1>4. CASE pc = "child" /\ n = Child /\ issues'[n].parent = Parent
  <2>1. issues[Child].item = Task /\ Parent \in IssuesOf(SprintOf(Task))
    BY <1>4, PlaceFacts DEF IssuesOf
  <2> QED  BY <1>2, <1>4, <2>1, IssuesStay
<1> QED  BY <1>1, <1>3, <1>4 DEF Growth

(* What the steps that do not work on links do to the list of links.       *)
LEMMA ListedSteps ==
  ASSUME [Next]_vars
  PROVE  \/ UNCHANGED vars \/ CreationLands
         \/ ItemsDone \/ ListSubIssues \/ AddSubIssue \/ AddSubIssueMisread \/ ChildrenDone
         \/ ListBlockedBy \/ AddBlockedBy \/ AddBlockedByMisread \/ BlockersDone
         \/ Exit
         \/ /\ pc \notin {"children", "child", "blockers", "blocker", "finish"} /\ listed' = listed
            /\ pc' \notin {"children", "child", "blockers", "blocker", "finish"}
<1>1. CASE Start \/ RemoveTornManifest \/ EditPlan
  BY <1>1 DEF Start, RemoveTornManifest, EditPlan, Go, command
<1>2. CASE SyncItem \/ UpdateIssue \/ CreateIssue \/ Save \/ CreateUnanswered
  BY <1>2 DEF SyncItem, UpdateIssue, CreateIssue, Save, CreateUnanswered, Remember, Go
<1>3. CASE Recheck \/ RecheckFails
  BY <1>3 DEF Recheck, RecheckFails, Remember, TryAgain, Go
<1>4. CASE LastSave \/ DanglingDependency \/ UpdateCutOff \/ SaveCutOff \/ Abort
  BY <1>4 DEF LastSave, DanglingDependency, UpdateCutOff, SaveCutOff, Abort
<1> QED  BY <1>1, <1>2, <1>3, <1>4 DEF Next, Step, Fault

(* LinkInv is inductive, given the types and what the items' steps leave.  *)
LEMMA StepLinks ==
  ASSUME Types, Types', Growth, TextInv, LinkInv, [Next]_vars
  PROVE  LinkInv'
<1> DEFINE Linking == {"children", "child", "blockers", "blocker", "finish"}
           ParentLater(t) == {mem[t].num, mem[SprintOf(t)].num} \intersect Misread = {}
                               => issues'[mem[t].num].parent # 0
           BlockersLater(t) == \A b \in LinkedBlockers(t) :
                {mem[t].num, mem[b].num} \intersect Misread = {}
                  => mem[b].num \in issues'[mem[t].num].blockers
<1>1. /\ Manifest(mem)
      /\ pc \in Linking => \A i \in Items : i \in DOMAIN mem
      /\ pc \in {"children", "blockers"} => at \in 1..(Len(OrderedTasks) + 1)
      /\ pc \in {"child", "blocker"} => at \in 1..Len(OrderedTasks)
      /\ synced \in BOOLEAN
  BY DEF Types, CommandTypes, Progress, InList, UpToDate
<1>2. /\ Len(OrderedTasks) \in Nat
      /\ \A j \in 1..Len(OrderedTasks) : OrderedTasks[j] \in Tasks
      /\ \A t \in Tasks : \E j \in 1..Len(OrderedTasks) : OrderedTasks[j] = t
  BY WorkFacts
<1>3. ASSUME pc \in Linking, NEW t \in Tasks
      PROVE  /\ ParentDone(mem, t) => ParentLater(t)
             /\ BlockersAreDone(mem, t) => BlockersLater(t)
  BY <1>1, <1>3, LinksStay
<1>4. (\A n \in Numbers : issues[n].parent # 0 => issues[n].parent \in IssuesOf(SprintOf(issues[n].item)))'
  BY ParentsStay
<1>5. ASSUME pc \in Linking PROVE ~synced
  BY <1>5 DEF LinkInv
<1>6. CASE UNCHANGED vars
  <2>1. UNCHANGED <<plan, issues, file, mem, pc, at, listed, synced>>
    BY <1>6 DEF vars, planned, command
  <2>2. /\ Child' = Child
        /\ \A t : ParentDone(mem, t)' = ParentDone(mem, t) /\ BlockersAreDone(mem, t)' = BlockersAreDone(mem, t)
        /\ \A t : ParentDone(file, t)' = ParentDone(file, t) /\ BlockersAreDone(file, t)' = BlockersAreDone(file, t)
    BY <2>1, DependenciesStay DEF Child, Task, ParentDone, BlockersAreDone
  <2> HIDE DEF Linking
  <2> QED  BY <1>4, <2>1, <2>2 DEF LinkInv
<1>7. ASSUME pc' \notin Linking, listed' = {}, ~synced'
      PROVE  LinkInv'
  BY <1>4, <1>7 DEF LinkInv
<1>8. CASE ItemsDone
  <2>1. /\ pc = "item" /\ pc' = "children" /\ at' = 1 /\ listed' = listed /\ synced' = synced
    BY <1>8 DEF ItemsDone, Go
  <2>2. listed = {} /\ ~synced
    BY <2>1 DEF LinkInv
  <2> QED  BY <1>4, <2>1, <2>2 DEF LinkInv
<1>9. CASE ListSubIssues
  <2>1. /\ pc = "children" /\ pc' = "child" /\ at' = at /\ at <= Len(OrderedTasks)
        /\ UNCHANGED <<issues, mem, synced>>
        /\ listed' = listed \/ listed' = {n \in Numbers : issues[n].parent = Parent}
    BY <1>9 DEF ListSubIssues, Go
  <2>2. Parent # 0
    BY <2>1, PlaceFacts, NumberFacts
  <2>3. \A n \in listed' : issues'[n].parent # 0
    BY <2>1, <2>2 DEF LinkInv
  <2>4. \A j \in 1..(at - 1) : ParentDone(mem, OrderedTasks[j])
    BY <2>1 DEF LinkInv
  <2>5. \A j \in 1..(at' - 1) : ParentDone(mem, OrderedTasks[j])'
    BY <2>1, <2>4 DEF ParentDone
  <2> QED  BY <1>4, <1>5, <2>1, <2>3, <2>5 DEF LinkInv
<1>10. CASE AddSubIssue \/ AddSubIssueMisread
  <2>1. /\ pc = "child" /\ pc' = "children" /\ at' = at + 1 /\ UNCHANGED <<mem, listed, synced>>
    BY <1>10 DEF AddSubIssue, AddSubIssueMisread, Go
  <2>2. /\ Task \in Tasks /\ at \in 1..Len(OrderedTasks) /\ Task = OrderedTasks[at]
        /\ Child \in Numbers /\ Parent \in Numbers /\ Parent # 0
    BY <2>1, PlaceFacts, NumberFacts DEF Task
  <2>3. /\ \A n \in listed : issues[n].parent # 0
        /\ \A j \in 1..(at - 1) : ParentDone(mem, OrderedTasks[j])
        /\ listed \subseteq Numbers
    BY <2>1 DEF LinkInv, Types, CommandTypes
  <2>4. \A n \in listed' : issues'[n].parent # 0
    BY <2>1, <2>3 DEF Growth
  <2>5. ParentLater(Task)
    <3>1. CASE AddSubIssue
      <4>1. CASE issues' = Link(Child, Parent)
        <5>1. issues[Child] \in IssueRecords /\ issues \in Seq(IssueRecords)
          BY <2>2, NumberFacts DEF Types, IssueTypes
        <5>2. issues'[Child].parent = Parent
          BY <2>2, <4>1, <5>1 DEF Link, Numbers, IssueRecords
        <5> QED  BY <2>2, <5>2 DEF Child
      <4>2. CASE Child \in listed \/ issues[Child].parent # 0
        <5>1. issues[Child].parent # 0 /\ issues' = issues
          BY <2>3, <3>1, <4>2 DEF AddSubIssue
        <5> QED  BY <5>1 DEF Child
      <4> QED  BY <3>1, <4>1, <4>2 DEF AddSubIssue
    <3>2. CASE AddSubIssueMisread
      BY <3>2 DEF AddSubIssueMisread, Child, Parent
    <3> QED  BY <1>10, <3>1, <3>2
  <2>6. \A j \in 1..at : ParentLater(OrderedTasks[j])
    <3>1. \A j \in 1..(at - 1) : ParentLater(OrderedTasks[j])
      <4> HIDE DEF ParentLater
      <4> QED  BY <1>2, <1>3, <2>1, <2>2, <2>3
    <3>2. \A j \in 1..at : j \in 1..(at - 1) \/ j = at
      BY <1>2, <2>2
    <3> HIDE DEF ParentLater
    <3>3. ParentLater(OrderedTasks[at])
      BY <2>2, <2>5
    <3> QED  BY <3>1, <3>2, <3>3
  <2>7. (\A j \in 1..(at - 1) : ParentDone(mem, OrderedTasks[j]))'
    <3>1. \A j \in 1..(at' - 1) : j \in 1..at
      BY <1>2, <2>1, <2>2
    <3> QED  BY <2>1, <2>6, <3>1 DEF ParentDone
  <2> QED  BY <1>4, <1>5, <2>1, <2>4, <2>7 DEF LinkInv
<1>11. CASE ChildrenDone
  <2>1. /\ pc = "children" /\ at > Len(OrderedTasks) /\ pc' = "blockers" /\ at' = 1
        /\ UNCHANGED <<issues, mem, synced>>
    BY <1>11 DEF ChildrenDone, Go
  <2>2. \A j \in 1..(at - 1) : ParentDone(mem, OrderedTasks[j])
    BY <2>1 DEF LinkInv
  <2>3. \A t \in Tasks : ParentDone(mem, t)
    BY <1>1, <1>2, <2>1, <2>2
  <2>4. \A t \in Tasks : ParentDone(mem, t)'
    BY <2>1, <2>3 DEF ParentDone
  <2> QED  BY <1>4, <1>5, <2>1, <2>4 DEF LinkInv
<1>12. ASSUME pc \in {"blockers", "blocker"}, mem' = mem
       PROVE  /\ \A t \in Tasks : ParentDone(mem, t)'
              /\ \A j \in 1..(at - 1) : BlockersLater(OrderedTasks[j])
  <2>1. /\ \A t \in Tasks : ParentDone(mem, t)
        /\ \A j \in 1..(at - 1) : BlockersAreDone(mem, OrderedTasks[j])
        /\ \A j \in 1..(at - 1) : OrderedTasks[j] \in Tasks
    BY <1>1, <1>2, <1>12 DEF LinkInv
  <2>2. \A t \in Tasks : ParentLater(t)
    <3> HIDE DEF ParentLater
    <3> QED  BY <1>3, <1>12, <2>1
  <2>3. \A j \in 1..(at - 1) : BlockersLater(OrderedTasks[j])
    <3> HIDE DEF BlockersLater
    <3> QED  BY <1>3, <1>12, <2>1
  <2> QED  BY <1>12, <2>2, <2>3 DEF ParentDone
<1>13. CASE ListBlockedBy
  <2>1. /\ pc = "blockers" /\ pc' = "blocker" /\ at' = at
        /\ UNCHANGED <<plan, issues, mem, synced>> /\ listed' = issues[Child].blockers
    BY <1>13 DEF ListBlockedBy, Go, planned
  <2>2. Child' = Child
    BY <2>1 DEF Child, Task
  <2>3. \A j \in 1..(at' - 1) : BlockersAreDone(mem, OrderedTasks[j])'
    BY <1>12, <2>1, DependenciesStay DEF BlockersAreDone
  <2> QED  BY <1>4, <1>5, <1>12, <2>1, <2>2, <2>3 DEF LinkInv
<1>14. CASE AddBlockedBy \/ AddBlockedByMisread
  <2>1. pc = "blocker" /\ mem' = mem /\ synced' = synced /\ plan' = plan
    BY <1>14 DEF AddBlockedBy, AddBlockedByMisread, planned
  <2>2. /\ Task \in Tasks /\ at \in 1..Len(OrderedTasks) /\ Task = OrderedTasks[at]
        /\ Child \in Numbers
    BY <2>1, PlaceFacts, NumberFacts DEF Task
  <2>3. \A n \in listed : n \in issues[Child].blockers \/ {Child, n} \intersect Misread # {}
    BY <2>1 DEF LinkInv
  <2>4. CASE AddBlockedBy /\ Missing = {} /\ Go("blockers", at + 1) /\ UNCHANGED <<issues, listed>>
    <3>1. BlockersLater(Task)
      BY <2>3, <2>4 DEF Missing, Child
    <3>2. \A j \in 1..(at' - 1) : j \in 1..(at - 1) \/ j = at
      BY <1>2, <2>2, <2>4 DEF Go
    <3>3. \A j \in 1..(at' - 1) : BlockersLater(OrderedTasks[j])
      <4> HIDE DEF BlockersLater
      <4>1. BlockersLater(OrderedTasks[at])
        BY <2>2, <3>1
      <4> QED  BY <1>12, <2>1, <3>2, <4>1
    <3>4. (\A j \in 1..(at - 1) : BlockersAreDone(mem, OrderedTasks[j]))'
      BY <2>1, <3>3, DependenciesStay DEF BlockersAreDone
    <3> QED  BY <1>4, <1>5, <1>12, <2>1, <2>4, <3>4 DEF LinkInv, Go
  <2>5. ASSUME NEW n \in Missing, pc' = pc, at' = at, listed' = listed \union {n},
               \/ {Child, n} \intersect Misread # {} /\ issues' = issues
               \/ issues' = Block(Child, n)
        PROVE  LinkInv'
    <3>1. Child' = Child
      BY <2>1, <2>5 DEF Child, Task
    <3>2. issues[Child].blockers \subseteq issues'[Child].blockers
      BY <2>2 DEF Growth
    <3>3. n \in issues'[Child].blockers \/ {Child, n} \intersect Misread # {}
      <4>1. CASE issues' = Block(Child, n)
        <5>1. issues[Child] \in IssueRecords /\ issues \in Seq(IssueRecords)
          BY <2>2, NumberFacts DEF Types, IssueTypes
        <5>2. issues'[Child].blockers = issues[Child].blockers \union {n}
          BY <2>2, <4>1, <5>1 DEF Block, Numbers, IssueRecords
        <5> QED  BY <5>2
      <4> QED  BY <2>5, <4>1
    <3>4. \A k \in listed' : k \in issues'[Child'].blockers \/ {Child', k} \intersect Misread # {}
      BY <2>3, <2>5, <3>1, <3>2, <3>3
    <3>5. (\A j \in 1..(at - 1) : BlockersAreDone(mem, OrderedTasks[j]))'
      BY <1>12, <2>1, <2>5, DependenciesStay DEF BlockersAreDone
    <3> QED  BY <1>4, <1>5, <1>12, <2>1, <2>5, <3>4, <3>5 DEF LinkInv
  <2>6. CASE AddBlockedBy /\ \E n \in Missing :
               issues' = Block(Child, n) /\ listed' = listed \union {n} /\ UNCHANGED <<pc, at>>
    BY <2>5, <2>6
  <2>7. CASE AddBlockedByMisread
    BY <2>5, <2>7 DEF AddBlockedByMisread
  <2> QED  BY <1>14, <2>4, <2>6, <2>7 DEF AddBlockedBy
<1>15. CASE BlockersDone
  <2>1. /\ pc = "blockers" /\ at > Len(OrderedTasks) /\ pc' = "finish" /\ at' = 1
        /\ UNCHANGED <<plan, issues, mem, synced>>
    BY <1>15 DEF BlockersDone, Go, planned
  <2>2. \A j \in 1..(at - 1) : BlockersAreDone(mem, OrderedTasks[j])
    BY <2>1 DEF LinkInv
  <2>3. \A t \in Tasks : BlockersAreDone(mem, t)
    BY <1>1, <1>2, <2>1, <2>2
  <2>4. \A t \in Tasks : BlockersAreDone(mem, t)'
    BY <2>1, <2>3, DependenciesStay DEF BlockersAreDone
  <2> QED  BY <1>4, <1>5, <1>12, <2>1, <2>4 DEF LinkInv
<1>16. CASE LastSave
  <2>1. /\ pc = "finish" /\ file' = mem /\ pc' = "idle" /\ listed' = {} /\ issues' = issues
        /\ plan' = plan
    BY <1>16 DEF LastSave, Exit, Go, planned
  <2>2. \A t \in Tasks : ParentDone(mem, t) /\ BlockersAreDone(mem, t)
    BY <2>1 DEF LinkInv
  <2>3. mem # Torn
    BY <1>1, PlanFacts DEF Manifest
  <2>4. \A t \in Tasks : ParentDone(file, t)' /\ BlockersAreDone(file, t)'
    BY <2>1, <2>2, DependenciesStay DEF ParentDone, BlockersAreDone
  <2> QED  BY <1>4, <2>1, <2>3, <2>4 DEF LinkInv
<1>17. CASE CreationLands
  <2>1. UNCHANGED <<plan, file, mem, pc, at, listed, synced>>
    BY <1>17 DEF CreationLands, planned, command
  <2>2. Child' = Child /\ \A t : LinkedBlockers(t)' = LinkedBlockers(t)
    BY <2>1, DependenciesStay DEF Child, Task
  <2>3. ASSUME pc \in Linking, NEW t \in Tasks
        PROVE  /\ ParentDone(mem, t) => ParentDone(mem, t)'
               /\ BlockersAreDone(mem, t) => BlockersAreDone(mem, t)'
    BY <1>3, <2>1, <2>2, <2>3 DEF ParentDone, BlockersAreDone
  <2>4. ASSUME synced, NEW t \in Tasks
        PROVE  ParentDone(file, t)' /\ BlockersAreDone(file, t)'
    <3>1. Manifest(file) /\ Items \subseteq DOMAIN file
      BY <2>4 DEF Types, TextInv, UpToDate
    <3>2. ParentDone(file, t) /\ BlockersAreDone(file, t)
      BY <2>4 DEF LinkInv
    <3> QED  BY <2>1, <2>2, <3>1, <3>2, LinksStay DEF ParentDone, BlockersAreDone
  <2>5. \A n \in listed : issues[n].parent # 0 => issues'[n].parent # 0
    BY DEF Types, CommandTypes, Growth
  <2>6. ASSUME pc = "blocker"
        PROVE  issues[Child].blockers \subseteq issues'[Child].blockers
    BY <2>6, PlaceFacts, NumberFacts DEF Growth
  <2>7. /\ pc \in {"children", "child", "blockers", "blocker"} =>
             \A j \in 1..(at - 1) : OrderedTasks[j] \in Tasks
    BY <1>1, <1>2
  <2>8. (pc \in {"children", "child"} =>
           /\ \A n \in listed : issues[n].parent # 0
           /\ \A j \in 1..(at - 1) : ParentDone(mem, OrderedTasks[j]))'
    BY <2>1, <2>3, <2>5, <2>7 DEF LinkInv
  <2>9. /\ (pc \in {"blockers", "blocker", "finish"} => \A t \in Tasks : ParentDone(mem, t))'
        /\ (pc \in {"blockers", "blocker"} =>
             \A j \in 1..(at - 1) : BlockersAreDone(mem, OrderedTasks[j]))'
        /\ (pc = "finish" => \A t \in Tasks : BlockersAreDone(mem, t))'
    BY <2>1, <2>3, <2>7 DEF LinkInv
  <2>10. (pc = "blocker" =>
            \A n \in listed : n \in issues[Child].blockers \/ {Child, n} \intersect Misread # {})'
    BY <2>1, <2>2, <2>6 DEF LinkInv
  <2>11. (synced => /\ pc = "idle" /\ file # Torn
                    /\ \A t \in Tasks : ParentDone(file, t) /\ BlockersAreDone(file, t))'
    BY <2>1, <2>4 DEF LinkInv
  <2> QED  BY <1>4, <2>1, <2>8, <2>9, <2>10, <2>11 DEF LinkInv
<1>18. CASE ~LastSave /\ ~CreationLands /\ ~UNCHANGED vars /\ Exit
  <2>1. ~synced'
    BY <1>1, <1>18, SyncedSteps DEF LinkInv
  <2> QED  BY <1>7, <1>18, <2>1 DEF Exit, Go
<1>19. CASE /\ ~LastSave /\ ~CreationLands /\ ~UNCHANGED vars
            /\ pc \notin Linking /\ listed' = listed /\ pc' \notin Linking
  <2>1. ~synced'
    BY <1>1, <1>19, SyncedSteps DEF LinkInv
  <2>2. listed = {}
    BY <1>19 DEF LinkInv
  <2> QED  BY <1>7, <1>19, <2>1, <2>2
<1> QED  BY <1>6, <1>8, <1>9, <1>10, <1>11, <1>13, <1>14, <1>15, <1>16, <1>17, <1>18, <1>19,
         ListedSteps

(* Every parent is an issue of the task's sprint, and the command has made *)
(* the links of the tasks before its place, in any run.                    *)
THEOREM LinkInvariance == Spec => [](Types /\ TextInv /\ LinkInv)
<1>1. Init => Types /\ TextInv /\ LinkInv
  <2>1. ASSUME Init PROVE TextInv
    BY <2>1, NoRecordsFacts DEF Init, TextInv, Shows
  <2>2. ASSUME Init PROVE LinkInv
    BY <2>2 DEF Init, LinkInv, Numbers
  <2> QED  BY <2>1, <2>2, InitTypes
<1>2. Types /\ TextInv /\ LinkInv /\ [Next]_vars => (Types /\ TextInv /\ LinkInv)'
  BY StepTypes, StepTexts, StepLinks
<1> QED  BY <1>1, <1>2, PTL DEF Spec

(* SyncedMeansLinked: after a run without an error a task's issue hangs    *)
(* under an issue of its sprint and is blocked by the issues of the tasks  *)
(* it depends on, as far as no number reads like a 422.                    *)
THEOREM SyncsAreLinked == Spec => []SyncedMeansLinked
<1>1. ASSUME Types, TextInv, LinkInv PROVE SyncedMeansLinked
  <2> SUFFICES ASSUME synced, NEW t \in Tasks
               PROVE  LET n == file[t].num  s == SprintOf(t)  p == issues[n].parent
                      IN  /\ {n, file[s].num} \intersect Misread = {} =>
                               p \in IssuesOf(s) /\ (p = file[s].num \/ Cardinality(IssuesOf(s)) > 1)
                          /\ \A b \in LinkedBlockers(t) :
                               {n, file[b].num} \intersect Misread = {} => file[b].num \in issues[n].blockers
    BY DEF SyncedMeansLinked
  <2> DEFINE n == file[t].num
             s == SprintOf(t)
             p == issues[n].parent
  <2>1. Manifest(file) /\ Items \subseteq DOMAIN file
    BY <1>1 DEF TextInv, Types, UpToDate
  <2>2. n \in IssuesOf(t) /\ s \in Sprints /\ file[s].num \in IssuesOf(s)
    BY <2>1, PlanFacts DEF Manifest
  <2>3. ParentDone(file, t) /\ BlockersAreDone(file, t)
    BY <1>1 DEF LinkInv
  <2>4. ASSUME {n, file[s].num} \intersect Misread = {}
        PROVE  p \in IssuesOf(s) /\ (p = file[s].num \/ Cardinality(IssuesOf(s)) > 1)
    <3>1. p # 0 /\ n \in Numbers /\ issues[n].item = t
      BY <2>2, <2>3, <2>4 DEF ParentDone, IssuesOf
    <3>2. p \in IssuesOf(s)
      BY <1>1, <3>1 DEF LinkInv
    <3>3. IsFiniteSet(IssuesOf(s)) /\ Cardinality(IssuesOf(s)) \in Nat
      BY <1>1, NumberFacts, FS_CardinalityType
    <3>4. ASSUME Cardinality(IssuesOf(s)) = 1 PROVE p = file[s].num
      <4>1. \E k : IssuesOf(s) = {k}
        BY <3>3, <3>4, FS_Singleton
      <4> QED  BY <2>2, <3>2, <4>1
    <3>5. Cardinality(IssuesOf(s)) # 0
      BY <2>2, <3>3, FS_EmptySet
    <3> HIDE DEF s, p
    <3> QED  BY <3>2, <3>3, <3>4, <3>5
  <2> QED  BY <2>3, <2>4 DEF BlockersAreDone
<1> QED  BY <1>1, LinkInvariance, PTL

----------------------------------------------------------------------------
(* One issue per item.                                                     *)

(* An item whose title has not changed, and of which no answer has been    *)
(* lost twice: its issues show the title, and while they fit on a page     *)
(* there is one at most, and none when the command is about to create it.  *)
Once(i) ==
  /\ plan[i].title = 0
  /\ \A n \in IssuesOf(i) : issues[n].text.title = 0
  /\ OnOnePage(i) => \A n, k \in IssuesOf(i) : n = k
  /\ pc = "create" /\ Item = i /\ OnOnePage(i) => IssuesOf(i) = {}

OnceInv == \A i \in Items \ (blind \union Tardy \union retitled) : Once(i)

(* When the issues of a kind fit on a page, the lookup sees them all.      *)
LEMMA LookupSeesAll ==
  ASSUME Types, NEW i \in {Item}, OnOnePage(i), plan[i].title = 0,
         \A n \in IssuesOf(i) : issues[n].text.title = 0
  PROVE  Found = IssuesOf(i)
<1> SUFFICES ASSUME NEW n \in IssuesOf(i) PROVE n \in Page(Kind(i))
  BY PlaceFacts DEF Found, FindIssueByTitle, IssuesOf
<1> DEFINE S == {j \in Numbers : j > n /\ Kind(issues[j].item) = Kind(i)}
           R == {j \in Numbers : Kind(issues[j].item) = Kind(i)}
<1>1. n \in R /\ n \notin S /\ S \subseteq R /\ R \subseteq Numbers /\ Cardinality(R) <= PageSize
  BY NumberFacts DEF IssuesOf, OnOnePage
<1> HIDE DEF S, R
<1>2. IsFiniteSet(R)
  BY <1>1, NumberFacts
<1>3. S \subseteq R \ {n}
  BY <1>1
<1>4. IsFiniteSet(R \ {n}) /\ Cardinality(R \ {n}) = Cardinality(R) - 1
  BY <1>1, <1>2, FS_RemoveElement
<1>5. Cardinality(S) <= Cardinality(R \ {n}) /\ IsFiniteSet(S)
  BY <1>3, <1>4, FS_Subset
<1>6. Cardinality(S) \in Nat /\ Cardinality(R) \in Nat
  BY <1>2, <1>5, FS_CardinalityType
<1>7. Cardinality(S) < PageSize
  BY <1>1, <1>4, <1>5, <1>6, PlanFacts
<1> QED  BY <1>1, <1>7 DEF Page, S, R

(* Issues that fit on a page did so before one was added.                  *)
LEMMA PageFit ==
  ASSUME Types, Growth
  PROVE  \A i : OnOnePage(i)' => OnOnePage(i)
<1> SUFFICES ASSUME NEW i, OnOnePage(i)' PROVE OnOnePage(i)
  OBVIOUS
<1> DEFINE S == {n \in Numbers : Kind(issues[n].item) = Kind(i)}
           R == {n \in Numbers' : Kind(issues'[n].item) = Kind(i)}
<1>1. Cardinality(R) <= PageSize
  BY DEF OnOnePage, Kind
<1>2. IsFiniteSet(R)
  <2>1. Numbers' = 1..Len(issues') /\ Len(issues') \in Nat
    BY DEF Growth, IssueTypes, Numbers
  <2>2. IsFiniteSet(1..Len(issues')) /\ R \subseteq 1..Len(issues')
    BY <2>1, FS_Interval
  <2> QED  BY <2>2, FS_Subset
<1>3. S \subseteq R
  BY DEF Growth
<1>4. Cardinality(S) \in Nat /\ Cardinality(R) \in Nat /\ Cardinality(S) <= Cardinality(R)
  BY <1>2, <1>3, FS_Subset, FS_CardinalityType
<1>5. Cardinality(S) <= PageSize
  <2> HIDE DEF S, R
  <2> QED  BY <1>1, <1>4, PlanFacts
<1> QED  BY <1>5 DEF OnOnePage

(* The plan's title of an item changes only by an edit that is noted, and  *)
(* what has been noted stays.                                              *)
LEMMA NotedSteps ==
  ASSUME Types, [Next]_vars
  PROVE  /\ blind \subseteq blind' /\ retitled \subseteq retitled'
         /\ \A i \in Items \ retitled' : plan'[i].title = plan[i].title
         /\ pc # "idle" => plan' = plan
         /\ RecheckFails => Item \in blind'
         /\ Tardy \subseteq Tardy'
<1>1. Tardy \subseteq Tardy'
  BY LateSteps
<1>2. CASE UNCHANGED vars
  <2>1. UNCHANGED <<plan, retitled, blind, pc>>
    BY <1>2 DEF vars, planned, command, history
  <2>2. ~RecheckFails
    <3>1. ASSUME RecheckFails PROVE FALSE
      <4>1. faults' = faults + 1 /\ faults' = faults /\ faults \in 0..MaxFaults
        BY <1>2, <3>1 DEF RecheckFails, Faulty, vars, Types
      <4> QED  BY <4>1, PlanFacts
    <3> QED  BY <3>1
  <2> QED  BY <1>1, <2>1, <2>2
<1>3. CASE SyncItem \/ UpdateIssue \/ CreateIssue \/ Recheck \/ Save \/ ItemsDone \/ ListSubIssues
  BY <1>1, <1>3 DEF SyncItem, UpdateIssue, CreateIssue, Recheck, Save, ItemsDone, ListSubIssues,
              planned, history, RecheckFails
<1>4. CASE AddSubIssue \/ ChildrenDone \/ ListBlockedBy \/ AddBlockedBy \/ DanglingDependency
           \/ BlockersDone \/ LastSave
  BY <1>1, <1>4 DEF AddSubIssue, ChildrenDone, ListBlockedBy, AddBlockedBy, DanglingDependency,
              BlockersDone, LastSave, planned, history, RecheckFails
<1>5. CASE UpdateCutOff \/ CreateUnanswered \/ SaveCutOff \/ Abort \/ AddSubIssueMisread
           \/ AddBlockedByMisread
  BY <1>1, <1>5 DEF UpdateCutOff, CreateUnanswered, SaveCutOff, Abort, AddSubIssueMisread,
              AddBlockedByMisread, planned, history, RecheckFails
<1>6. CASE RecheckFails
  BY <1>1, <1>6 DEF RecheckFails, planned
<1>7. CASE Start \/ CreationLands \/ RemoveTornManifest
  BY <1>1, <1>7 DEF Start, CreationLands, RemoveTornManifest, planned, history, RecheckFails
<1>8. CASE EditPlan
  <2>1. PICK i \in Items, text \in Texts :
          /\ plan' = [plan EXCEPT ![i] = text]
          /\ retitled' = IF text.title # plan[i].title THEN retitled \union {i} ELSE retitled
    BY <1>8 DEF EditPlan
  <2>2. plan \in [Items -> Texts]
    BY DEF Types
  <2>3. retitled \subseteq retitled' /\ \A j \in Items \ retitled' : plan'[j].title = plan[j].title
    BY <2>1, <2>2
  <2> QED  BY <1>1, <1>8, <2>3 DEF EditPlan, history, RecheckFails
<1> QED  BY <1>1, <1>2, <1>3, <1>4, <1>5, <1>6, <1>7, <1>8 DEF Next, Step, Fault

(* OnceInv is inductive, given the types.                                  *)
LEMMA StepOnce ==
  ASSUME Types, Growth, OnceInv, [Next]_vars
  PROVE  OnceInv'
<1> SUFFICES ASSUME NEW i \in Items, i \notin blind', i \notin Tardy', i \notin retitled'
             PROVE  Once(i)'
  BY DEF OnceInv
<1>1. /\ plan[i].title = 0 /\ \A n \in IssuesOf(i) : issues[n].text.title = 0
      /\ OnOnePage(i) => \A n, k \in IssuesOf(i) : n = k
      /\ pc = "create" /\ Item = i /\ OnOnePage(i) => IssuesOf(i) = {}
  BY NotedSteps DEF OnceInv, Once
<1>2. i \notin Tardy
  BY NotedSteps
<1>3. plan'[i].title = 0
  BY <1>1, NotedSteps
<1>4. OnOnePage(i)' => OnOnePage(i)
  BY PageFit
<1>5. \A n \in IssuesOf(i)' : issues'[n].text.title = 0
  <2> SUFFICES ASSUME NEW n \in IssuesOf(i)' PROVE issues'[n].text.title = 0
    OBVIOUS
  <2>1. n \in Numbers' /\ issues'[n].item = i
    BY DEF IssuesOf
  <2>2. CASE n \in Numbers
    <3>1. n \in IssuesOf(i)
      BY <2>1, <2>2 DEF Growth, IssuesOf
    <3>2. CASE issues'[n].text = issues[n].text
      BY <1>1, <3>1, <3>2
    <3>3. CASE pc = "update" /\ n = Target /\ issues'[n].text = plan[Item]
      <4>1. issues[n].item = Item
        BY <3>3, PlaceFacts DEF IssuesOf
      <4>2. i = Item
        BY <3>1, <4>1 DEF IssuesOf
      <4> QED  BY <1>1, <3>3, <4>2
    <3> QED  BY <2>2, <3>2, <3>3 DEF Growth
  <2>3. CASE n \notin Numbers
    <3>1. issues'[n] = NewIssue
      BY <1>2, <2>1, <2>3 DEF Growth, Tardy
    <3>2. i = Item /\ issues'[n].text = plan[i]
      BY <2>1, <3>1 DEF NewIssue
    <3> QED  BY <1>1, <3>2
  <2> QED  BY <2>2, <2>3
<1>6. ASSUME OnOnePage(i)'
      PROVE  \A n, k \in IssuesOf(i)' : n = k
  <2>1. CASE pc = "create" /\ i = Item
    <3>1. IssuesOf(i) = {}
      BY <1>1, <1>4, <1>6, <2>1
    <3>2. \A n \in IssuesOf(i)' : n = Len(issues) + 1
      BY <1>2, <3>1, IssuesStay
    <3> QED  BY <3>2
  <2>2. CASE ~(pc = "create" /\ i = Item)
    <3>1. \A n \in IssuesOf(i)' : n \in IssuesOf(i)
      BY <1>2, <2>2, IssuesStay
    <3> QED  BY <1>1, <1>4, <1>6, <3>1
  <2> QED  BY <2>1, <2>2
<1>7. ASSUME OnOnePage(i)', pc' = "create", Item' = i
      PROVE  IssuesOf(i)' = {}
  <2>1. CASE UNCHANGED vars
    <3>1. UNCHANGED <<issues, pc, at>>
      BY <2>1 DEF vars, command
    <3>2. pc = "create" /\ Item = i /\ IssuesOf(i)' = IssuesOf(i)
      BY <1>7, <3>1 DEF Item, IssuesOf, Numbers
    <3> QED  BY <1>1, <1>4, <1>7, <3>2
  <2>2. CASE CreationLands /\ pc' = pc /\ at' = at
    <3>1. Item = i /\ IssuesOf(i)' = IssuesOf(i)
      BY <1>2, <1>7, <2>2, Lands DEF Item
    <3> QED  BY <1>1, <1>4, <1>7, <2>2, <3>1
  <2>3. CASE at' = at /\ issues' = issues
    <3>1. i \in {Item} /\ IssuesOf(i)' = IssuesOf(i)
      BY <1>7, <2>3 DEF Item, IssuesOf, Numbers
    <3>2. Found = IssuesOf(i)
      BY <1>1, <1>4, <1>7, <3>1, LookupSeesAll
    <3>3. CASE Found = {}
      BY <3>1, <3>2, <3>3
    <3>4. CASE Cardinality(Found) # 1
      <4>1. ASSUME NEW n \in Found PROVE FALSE
        <5>1. Found = {n}
          BY <1>1, <1>4, <1>7, <3>2, <4>1
        <5>2. Cardinality({n}) = 1
          BY FS_Singleton
        <5> QED  BY <3>4, <5>1, <5>2
      <4> QED  BY <3>1, <3>2, <4>1
    <3>5. CASE RecheckFails
      BY <3>1, <3>5, NotedSteps
    <3>6. \/ UNCHANGED vars \/ (CreationLands /\ pc' = pc) \/ Found = {} \/ RecheckFails
          \/ Cardinality(Found) # 1
      BY <1>7, <2>3, LookSteps
    <3> QED  BY <2>1, <2>2, <2>3, <3>3, <3>4, <3>5, <3>6
  <2>4. UNCHANGED vars \/ (CreationLands /\ pc' = pc /\ at' = at) \/ (at' = at /\ issues' = issues)
    BY <1>7, LookSteps
  <2> QED  BY <2>1, <2>2, <2>3, <2>4
<1> QED  BY <1>3, <1>5, <1>6, <1>7 DEF Once

(* However a run ends and the next one starts, the issues of an item keep  *)
(* its title and are found by it.                                          *)
THEOREM OnceInvariance == Spec => [](Types /\ OnceInv)
<1>1. Init => Types /\ OnceInv
  <2>1. ASSUME Init PROVE OnceInv
    <3>1. Numbers = {} /\ pc = "idle" /\ \A i \in Items : plan[i].title = 0
      BY <2>1 DEF Init, Numbers
    <3> QED  BY <3>1 DEF OnceInv, Once, IssuesOf
  <2> QED  BY <2>1, InitTypes
<1>2. Types /\ OnceInv /\ [Next]_vars => (Types /\ OnceInv)'
  BY StepTypes, StepOnce
<1> QED  BY <1>1, <1>2, PTL DEF Spec

(* OneIssuePerItem: however often the command is cut off, loses an answer  *)
(* or loses its manifest, an item has one issue at most, unless its title  *)
(* changed, the lookup after a lost answer failed, a creation came late,   *)
(* or the issues of its kind outgrow a page.                               *)
THEOREM NoItemTwice == Spec => []OneIssuePerItem
<1>1. ASSUME Types, OnceInv PROVE OneIssuePerItem
  <2> SUFFICES ASSUME NEW i \in Items \ (blind \union Tardy \union retitled), OnOnePage(i)
               PROVE  Cardinality(IssuesOf(i)) <= 1
    BY DEF OneIssuePerItem
  <2>1. \A n, k \in IssuesOf(i) : n = k
    BY <1>1 DEF OnceInv, Once
  <2>2. CASE IssuesOf(i) = {}
    BY <2>2, FS_EmptySet
  <2>3. ASSUME NEW n \in IssuesOf(i) PROVE Cardinality(IssuesOf(i)) <= 1
    <3>1. IssuesOf(i) = {n}
      BY <2>1, <2>3
    <3>2. Cardinality({n}) = 1
      BY FS_Singleton
    <3> QED  BY <3>1, <3>2
  <2> QED  BY <2>2, <2>3
<1> QED  BY <1>1, OnceInvariance, PTL
=============================================================================
