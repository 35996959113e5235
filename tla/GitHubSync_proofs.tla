-------------------------- MODULE GitHubSync_proofs --------------------------
(***************************************************************************)
(* Theorems about GitHubSync for any sprints, issues, ids and callers, and *)
(* any number of changes and operations: the tables agree with each other, *)
(* a webhook never replaces newer by older and takes effect, and what is   *)
(* written while GitHub stood still is exactly GitHub.                     *)
(***************************************************************************)
EXTENDS GitHubSync, TLAPS

(* Functions from a part of S to T.                                        *)
Partial(S, T) == UNION {[D -> T] : D \in SUBSET S}

CallRecords ==
  [op : {"none", "full", "reconcile", "webhook"},
   at : {"idle", "list", "tasks", "read", "apply"},
   target : Things \union {None}, ver : Versions,
   todo : SUBSET Sprints, scope : SUBSET Sprints, open : SUBSET Issues,
   found : Partial(Sprints, Versions), kids : Partial(Sprints, SUBSET Issues),
   seen : Partial(Issues, IssueStates), pulls : Partial(Ids, PullStates),
   quiet : BOOLEAN]

(* What an operation is about, and how far it has read.                    *)
Progress(r) ==
  /\ r.op = "none" <=> r.at = "idle"
  /\ r.op \in {"none", "full"} => r.target = None
  /\ r.op \in {"reconcile", "webhook"} => r.target \in Things
  /\ r.at = "tasks" => r.op = "full"
  /\ r.at = "list" => r.target \notin Sprints
  /\ r.at \in {"list", "tasks"} => DOMAIN r.kids = {}
  /\ r.todo # {} => r.target \in Issues /\ r.at = "read"
  /\ DOMAIN r.kids \subseteq DOMAIN r.found
  /\ r.at = "apply" =>
       /\ r.scope = DOMAIN r.kids /\ DOMAIN r.seen = Kids(r)
       /\ r.pulls \in [Ids -> PullStates]

(* Only deliveries are received.                                           *)
Delivered(r) == r.op = "webhook" => Delivery(r) \in sent

Types ==
  /\ sprint \in [Sprints -> [open : BOOLEAN, ver : Versions]]
  /\ issue \in [Issues -> IssueStates]
  /\ parent \in [Issues -> Sprints \union {None}]
  /\ pull \in [Ids -> PullStates]
  /\ sent \subseteq Targets /\ events \subseteq sent
  /\ sprints \in Partial(Sprints, Versions)
  /\ tasks \in Partial(Ids, TaskRows)
  /\ prs \in Partial(Ids, PullStates)
  /\ findings \subseteq Ids /\ lock \in Callers \union {None}
  /\ edits \in 0..MaxEdits /\ calls \in 0..MaxCalls
  /\ call \in [Callers -> CallRecords]
  /\ \A c \in Callers : Progress(call[c]) /\ Delivered(call[c])

(* What partial functions are, and how they come about.                    *)
LEMMA PartialFacts ==
  ASSUME NEW S, NEW T, NEW f
  PROVE  f \in Partial(S, T) <=> DOMAIN f \subseteq S /\ f \in [DOMAIN f -> T]
BY DEF Partial

(* The values of a partial function.                                       *)
LEMMA PartialRange ==
  ASSUME NEW S, NEW T, NEW f \in Partial(S, T)
  PROVE  Range(f) \subseteq T
BY PartialFacts DEF Range

(* The function from nothing.                                              *)
LEMMA PartialEmpty ==
  ASSUME NEW S, NEW T
  PROVE  Empty \in Partial(S, T) /\ DOMAIN Empty = {}
<1>1. DOMAIN Empty = {} /\ Empty \in [{} -> T]
  BY DEF Empty
<1> QED  BY <1>1, PartialFacts

(* What Put changes.                                                       *)
LEMMA PutValues ==
  ASSUME NEW f, NEW x, NEW v
  PROVE  /\ DOMAIN Put(f, x, v) = DOMAIN f \union {x}
         /\ \A y \in DOMAIN Put(f, x, v) : \/ y \in DOMAIN f /\ Put(f, x, v)[y] = f[y]
                                           \/ y = x /\ Put(f, x, v)[y] = v
BY DEF Put

(* Put keeps a partial function one.                                       *)
LEMMA PartialPut ==
  ASSUME NEW S, NEW T, NEW f \in Partial(S, T), NEW x \in S, NEW v \in T
  PROVE  Put(f, x, v) \in Partial(S, T)
<1>1. DOMAIN f \subseteq S /\ f \in [DOMAIN f -> T]
  BY PartialFacts
<1>2. Put(f, x, v) \in [DOMAIN f \union {x} -> T]
  BY <1>1 DEF Put
<1>3. DOMAIN Put(f, x, v) \subseteq S /\ Put(f, x, v) \in [DOMAIN Put(f, x, v) -> T]
  BY <1>1, <1>2
<1> QED  BY <1>3, PartialFacts

(* A function from a part of S is partial on S.                            *)
LEMMA PartialMake ==
  ASSUME NEW S, NEW T, NEW D, D \subseteq S, NEW f \in [D -> T]
  PROVE  f \in Partial(S, T) /\ DOMAIN f = D
BY PartialFacts

(* Types is the type invariant of the runs, and more.                      *)
LEMMA TypesAreTypes == Types => TypeOK
<1> SUFFICES ASSUME Types PROVE TypeOK
  OBVIOUS
<1>1. /\ DOMAIN sprints \subseteq Sprints /\ Range(sprints) \subseteq Versions
      /\ DOMAIN tasks \subseteq Ids /\ Range(tasks) \subseteq TaskRows
      /\ DOMAIN prs \subseteq Ids /\ Range(prs) \subseteq PullStates
  BY PartialFacts, PartialRange DEF Types
<1>2. ASSUME NEW c \in Callers
      PROVE  LET r == call[c] IN
             /\ r.op \in {"none", "full", "reconcile", "webhook"}
             /\ r.at \in {"idle", "list", "tasks", "read", "apply"}
             /\ r.target \in Things \union {None} /\ r.ver \in Versions
             /\ r.todo \union r.scope \union DOMAIN r.found \union DOMAIN r.kids \subseteq Sprints
             /\ r.open \union DOMAIN r.seen \subseteq Issues /\ r.quiet \in BOOLEAN
             /\ Range(r.seen) \subseteq IssueStates /\ Range(r.pulls) \subseteq PullStates
  <2>1. call[c] \in CallRecords
    BY DEF Types
  <2> DEFINE r == call[c]
  <2>2. /\ r.found \in Partial(Sprints, Versions)
        /\ r.kids \in Partial(Sprints, SUBSET Issues)
        /\ r.seen \in Partial(Issues, IssueStates)
        /\ r.pulls \in Partial(Ids, PullStates)
    BY <2>1 DEF CallRecords
  <2>3. /\ DOMAIN r.found \subseteq Sprints /\ DOMAIN r.kids \subseteq Sprints
        /\ DOMAIN r.seen \subseteq Issues
        /\ Range(r.seen) \subseteq IssueStates /\ Range(r.pulls) \subseteq PullStates
    BY <2>2, PartialFacts, PartialRange
  <2> QED  BY <2>1, <2>3 DEF CallRecords
<1> QED  BY <1>1, <1>2 DEF Types, TypeOK

(* What the constants are.                                                 *)
LEMMA Names ==
  /\ None \notin Things /\ None \notin Callers
  /\ Sprints \subseteq Things /\ Issues \subseteq Things /\ Ids \subseteq Things
  /\ \A x \in Sprints : x \notin Issues /\ x \notin Ids
  /\ \A x \in Issues : x \notin Ids
  /\ SprintOf \in [Ids -> Sprints] /\ BlockedBy \in [Issues -> SUBSET Issues]
  /\ FirstId \in [Issues -> Ids]
  /\ MaxEdits \in Nat /\ MaxCalls \in Nat
BY GitHubAssumption DEF Things

----------------------------------------------------------------------------
(* Steps that read.                                                        *)

Reads(c) ==
  \/ ListSprints(c) \/ ListOpenTasks(c) \/ ListPullRequests(c)
  \/ \E s \in Sprints : SearchSprint(c, s) \/ ReadSprint(c, s)
  \/ \E k \in Issues : ReadIssue(c, k)

SubIssues(s) == {k \in Issues : parent[k] = s}

(* Where an operation with the record r, and then n, looks for sprints.    *)
LooksFurther(r, n) ==
  \/ r.at = "list" /\ n.target = None /\ n.scope = OpenSprints
  \/ /\ r.at = "list" /\ n.target \in Ids
     /\ n.scope = {SprintOf[n.target]} \intersect OpenSprints
  \/ /\ r.at = "list" /\ n.target \in Issues
     /\ n.scope = r.scope /\ n.todo = OpenSprints
  \/ /\ r.at # "list" /\ r.scope \subseteq n.scope
     /\ \A s \in r.todo : s \in n.todo \union n.scope \/ parent[n.target] # s

(* All that n knows and r does not is what GitHub shows now.               *)
ReadsMore(r, n) ==
  /\ n.op = r.op /\ n.target = r.target /\ n.ver = r.ver /\ n.quiet = r.quiet
  /\ r.at \in {"list", "tasks", "read"} /\ n.at \in {"tasks", "read", "apply"}
  /\ \A s \in DOMAIN n.found : \/ s \in DOMAIN r.found /\ n.found[s] = r.found[s]
                               \/ n.found[s] = sprint[s].ver
  /\ \A s \in DOMAIN n.kids : \/ s \in DOMAIN r.kids /\ n.kids[s] = r.kids[s]
                              \/ n.kids[s] = SubIssues(s)
  /\ \A k \in DOMAIN n.seen : \/ k \in DOMAIN r.seen /\ n.seen[k] = r.seen[k]
                              \/ n.seen[k] = issue[k]
  /\ n.pulls = IF n.at = "apply" THEN pull ELSE r.pulls
  /\ LooksFurther(r, n)

(* Listing the open sprints says where the operation looks.                *)
LEMMA ListSprintsReads ==
  ASSUME Types, NEW c \in Callers, ListSprints(c)
  PROVE  \E n \in CallRecords : /\ call' = [call EXCEPT ![c] = n]
                                /\ ReadsMore(call[c], n) /\ Progress(n)
<1> DEFINE r == call[c]
           x == r.target
<1>1. r \in CallRecords /\ r.at = "list" /\ Progress(r) /\ call \in [Callers -> CallRecords]
  BY DEF Types, ListSprints
<1>2. OpenSprints \subseteq Sprints /\ x \in Things \union {None} /\ x \notin Sprints
  BY <1>1 DEF OpenSprints, CallRecords, Progress
<1>3. CASE x = None
  <2> DEFINE f == [s \in OpenSprints |-> sprint[s].ver]
             n == [r EXCEPT !.at = "tasks", !.scope = OpenSprints, !.found = f]
  <2>1. f \in Partial(Sprints, Versions) /\ DOMAIN f = OpenSprints
    <3>1. f \in [OpenSprints -> Versions]
      BY <1>2 DEF Types
    <3> HIDE DEF f
    <3> QED  BY <1>2, <3>1, PartialMake
  <2>2. call' = [call EXCEPT ![c] = n]
    BY <1>1, <1>3 DEF ListSprints
  <2>3. \A s \in DOMAIN f : f[s] = sprint[s].ver
    OBVIOUS
  <2> HIDE DEF f
  <2>4. n \in CallRecords
    BY <1>1, <1>2, <2>1 DEF CallRecords
  <2>5. /\ n.op = r.op /\ n.target = x /\ n.ver = r.ver /\ n.quiet = r.quiet /\ n.at = "tasks"
        /\ n.found = f /\ n.kids = r.kids /\ n.seen = r.seen /\ n.pulls = r.pulls
        /\ n.scope = OpenSprints /\ n.todo = r.todo
    BY <1>1 DEF CallRecords
  <2> HIDE DEF n
  <2>6. ReadsMore(r, n)
    BY <1>1, <1>3, <2>3, <2>5 DEF ReadsMore, LooksFurther
  <2>7. Progress(n)
    BY <1>1, <1>3, <2>5, Names DEF Progress, CallRecords
  <2> QED  BY <2>2, <2>4, <2>6, <2>7
<1>4. CASE x \in Ids
  <2> DEFINE n == [r EXCEPT !.at = "read", !.scope = {SprintOf[x]} \intersect OpenSprints]
  <2>1. call' = [call EXCEPT ![c] = n]
    BY <1>1, <1>4, Names DEF ListSprints
  <2>2. n \in CallRecords
    BY <1>1, <1>2 DEF CallRecords
  <2>3. /\ n.op = r.op /\ n.target = x /\ n.ver = r.ver /\ n.quiet = r.quiet /\ n.at = "read"
        /\ n.found = r.found /\ n.kids = r.kids /\ n.seen = r.seen /\ n.pulls = r.pulls
        /\ n.scope = {SprintOf[x]} \intersect OpenSprints /\ n.todo = r.todo
    BY <1>1 DEF CallRecords
  <2> HIDE DEF n
  <2>4. ReadsMore(r, n)
    BY <1>1, <1>4, <2>3 DEF ReadsMore, LooksFurther
  <2>5. Progress(n)
    BY <1>1, <1>4, <2>3, Names DEF Progress
  <2> QED  BY <2>1, <2>2, <2>4, <2>5
<1>5. CASE x \in Issues
  <2> DEFINE n == [r EXCEPT !.at = "read", !.todo = OpenSprints]
  <2>1. call' = [call EXCEPT ![c] = n]
    BY <1>1, <1>5, Names DEF ListSprints
  <2>2. n \in CallRecords
    BY <1>1, <1>2 DEF CallRecords
  <2>3. /\ n.op = r.op /\ n.target = x /\ n.ver = r.ver /\ n.quiet = r.quiet /\ n.at = "read"
        /\ n.found = r.found /\ n.kids = r.kids /\ n.seen = r.seen /\ n.pulls = r.pulls
        /\ n.scope = r.scope /\ n.todo = OpenSprints
    BY <1>1 DEF CallRecords
  <2> HIDE DEF n
  <2>4. ReadsMore(r, n)
    BY <1>1, <1>5, <2>3 DEF ReadsMore, LooksFurther
  <2>5. Progress(n)
    BY <1>1, <1>5, <2>3, Names DEF Progress
  <2> QED  BY <2>1, <2>2, <2>4, <2>5
<1> QED  BY <1>2, <1>3, <1>4, <1>5 DEF Things

(* Listing the open tasks of a full reconcile.                             *)
LEMMA ListOpenTasksReads ==
  ASSUME Types, NEW c \in Callers, ListOpenTasks(c)
  PROVE  \E n \in CallRecords : /\ call' = [call EXCEPT ![c] = n]
                                /\ ReadsMore(call[c], n) /\ Progress(n)
<1> DEFINE r == call[c]
           open == {k \in Issues : issue[k].open}
           n == [r EXCEPT !.at = "read", !.open = open]
<1>1. r \in CallRecords /\ r.at = "tasks" /\ Progress(r) /\ call \in [Callers -> CallRecords]
  BY DEF Types, ListOpenTasks
<1>2. call' = [call EXCEPT ![c] = n]
  BY <1>1 DEF ListOpenTasks
<1>3. open \subseteq Issues
  OBVIOUS
<1> HIDE DEF open
<1>4. n \in CallRecords
  BY <1>1, <1>3 DEF CallRecords
<1>5. /\ n.op = r.op /\ n.target = r.target /\ n.ver = r.ver /\ n.quiet = r.quiet
      /\ n.at = "read" /\ n.found = r.found /\ n.kids = r.kids /\ n.seen = r.seen
      /\ n.pulls = r.pulls /\ n.scope = r.scope /\ n.todo = r.todo
  BY <1>1 DEF CallRecords
<1> HIDE DEF n
<1>6. ReadsMore(r, n)
  BY <1>1, <1>5 DEF ReadsMore, LooksFurther
<1>7. Progress(n)
  BY <1>1, <1>5, Names DEF Progress
<1> QED  BY <1>2, <1>4, <1>6, <1>7

(* Searching a sprint for the target puts it in scope, or out of question. *)
LEMMA SearchSprintReads ==
  ASSUME Types, NEW c \in Callers, NEW s \in Sprints, SearchSprint(c, s)
  PROVE  \E n \in CallRecords : /\ call' = [call EXCEPT ![c] = n]
                                /\ ReadsMore(call[c], n) /\ Progress(n)
<1> DEFINE r == call[c]
           scope == IF parent[r.target] = s THEN r.scope \union {s} ELSE r.scope
           n == [r EXCEPT !.todo = @ \ {s}, !.scope = scope]
<1>1. r \in CallRecords /\ r.at = "read" /\ Progress(r) /\ call \in [Callers -> CallRecords]
  BY DEF Types, SearchSprint
<1>2. call' = [call EXCEPT ![c] = n]
  BY <1>1 DEF SearchSprint
<1>3. /\ r.scope \subseteq scope /\ scope \subseteq Sprints
      /\ parent[r.target] = s => s \in scope
  BY <1>1 DEF CallRecords
<1> HIDE DEF scope
<1>4. n \in CallRecords
  BY <1>1, <1>3 DEF CallRecords
<1>5. /\ n.op = r.op /\ n.target = r.target /\ n.ver = r.ver /\ n.quiet = r.quiet
      /\ n.at = "read" /\ n.found = r.found /\ n.kids = r.kids /\ n.seen = r.seen
      /\ n.pulls = r.pulls /\ n.scope = scope /\ n.todo = r.todo \ {s}
  BY <1>1 DEF CallRecords
<1> HIDE DEF n
<1>6. ReadsMore(r, n)
  BY <1>1, <1>3, <1>5 DEF ReadsMore, LooksFurther
<1>7. Progress(n)
  BY <1>1, <1>5, Names DEF Progress
<1> QED  BY <1>2, <1>4, <1>6, <1>7

(* Reading a sprint: its issue, where it is not known, and its sub-issues. *)
LEMMA ReadSprintReads ==
  ASSUME Types, NEW c \in Callers, NEW s \in Sprints, ReadSprint(c, s)
  PROVE  \E n \in CallRecords : /\ call' = [call EXCEPT ![c] = n]
                                /\ ReadsMore(call[c], n) /\ Progress(n)
<1> DEFINE r == call[c]
           found == IF s \in DOMAIN r.found THEN r.found ELSE Put(r.found, s, sprint[s].ver)
           kids == Put(r.kids, s, SubIssues(s))
           n == [r EXCEPT !.found = found, !.kids = kids]
<1>1. r \in CallRecords /\ r.at = "read" /\ Progress(r) /\ call \in [Callers -> CallRecords]
  BY DEF Types, ReadSprint
<1>2. call' = [call EXCEPT ![c] = n]
  BY <1>1 DEF ReadSprint, SubIssues
<1>3. /\ r.found \in Partial(Sprints, Versions) /\ r.kids \in Partial(Sprints, SUBSET Issues)
      /\ sprint[s].ver \in Versions /\ SubIssues(s) \in SUBSET Issues
  BY <1>1 DEF Types, CallRecords, SubIssues
<1>4. /\ found \in Partial(Sprints, Versions)
      /\ DOMAIN found = DOMAIN r.found \union {s}
      /\ \A q \in DOMAIN found : \/ q \in DOMAIN r.found /\ found[q] = r.found[q]
                                 \/ found[q] = sprint[q].ver
  <2> DEFINE put == Put(r.found, s, sprint[s].ver)
  <2>1. /\ DOMAIN put = DOMAIN r.found \union {s}
        /\ \A q \in DOMAIN put : \/ q \in DOMAIN r.found /\ put[q] = r.found[q]
                                 \/ q = s /\ put[q] = sprint[s].ver
    BY PutValues
  <2>5. put \in Partial(Sprints, Versions)
    BY <1>3, PartialPut
  <2> HIDE DEF put
  <2>2. found = IF s \in DOMAIN r.found THEN r.found ELSE put
    BY DEF put
  <2> HIDE DEF found
  <2>3. CASE s \in DOMAIN r.found
    <3>1. found = r.found
      BY <2>2, <2>3
    <3> QED  BY <1>3, <2>3, <3>1
  <2>4. CASE s \notin DOMAIN r.found
    <3>1. found = put
      BY <2>2, <2>4
    <3> QED  BY <2>1, <2>5, <3>1
  <2> QED  BY <2>3, <2>4
<1>5. /\ kids \in Partial(Sprints, SUBSET Issues)
      /\ DOMAIN kids = DOMAIN r.kids \union {s}
      /\ \A q \in DOMAIN kids : \/ q \in DOMAIN r.kids /\ kids[q] = r.kids[q]
                                \/ kids[q] = SubIssues(q)
  <2>1. /\ DOMAIN kids = DOMAIN r.kids \union {s}
        /\ \A q \in DOMAIN kids : \/ q \in DOMAIN r.kids /\ kids[q] = r.kids[q]
                                  \/ q = s /\ kids[q] = SubIssues(s)
    BY PutValues
  <2>2. kids \in Partial(Sprints, SUBSET Issues)
    BY <1>3, PartialPut
  <2> HIDE DEF kids
  <2> QED  BY <2>1, <2>2
<1> HIDE DEF found, kids
<1>6. n \in CallRecords
  BY <1>1, <1>4, <1>5 DEF CallRecords
<1>7. /\ n.op = r.op /\ n.target = r.target /\ n.ver = r.ver /\ n.quiet = r.quiet
      /\ n.at = "read" /\ n.found = found /\ n.kids = kids /\ n.seen = r.seen
      /\ n.pulls = r.pulls /\ n.scope = r.scope /\ n.todo = r.todo
  BY <1>1 DEF CallRecords
<1> HIDE DEF n
<1>8. ReadsMore(r, n)
  BY <1>1, <1>4, <1>5, <1>7 DEF ReadsMore, LooksFurther
<1>9. Progress(n)
  BY <1>1, <1>4, <1>5, <1>7, Names DEF Progress
<1> QED  BY <1>2, <1>6, <1>8, <1>9

(* Reading an issue.                                                       *)
LEMMA ReadIssueReads ==
  ASSUME Types, NEW c \in Callers, NEW k \in Issues, ReadIssue(c, k)
  PROVE  \E n \in CallRecords : /\ call' = [call EXCEPT ![c] = n]
                                /\ ReadsMore(call[c], n) /\ Progress(n)
<1> DEFINE r == call[c]
           seen == Put(r.seen, k, issue[k])
           n == [r EXCEPT !.seen = seen]
<1>1. r \in CallRecords /\ r.at = "read" /\ Progress(r) /\ call \in [Callers -> CallRecords]
  BY DEF Types, ReadIssue, AllSprintsRead
<1>2. call' = [call EXCEPT ![c] = n]
  BY <1>1 DEF ReadIssue
<1>3. r.seen \in Partial(Issues, IssueStates) /\ issue[k] \in IssueStates
  BY <1>1 DEF Types, CallRecords
<1>4. /\ seen \in Partial(Issues, IssueStates)
      /\ \A l \in DOMAIN seen : \/ l \in DOMAIN r.seen /\ seen[l] = r.seen[l]
                                \/ seen[l] = issue[l]
  <2>1. \A l \in DOMAIN seen : \/ l \in DOMAIN r.seen /\ seen[l] = r.seen[l]
                               \/ l = k /\ seen[l] = issue[k]
    BY PutValues
  <2>2. seen \in Partial(Issues, IssueStates)
    BY <1>3, PartialPut
  <2> HIDE DEF seen
  <2> QED  BY <2>1, <2>2
<1> HIDE DEF seen
<1>5. n \in CallRecords
  BY <1>1, <1>4 DEF CallRecords
<1>6. /\ n.op = r.op /\ n.target = r.target /\ n.ver = r.ver /\ n.quiet = r.quiet
      /\ n.at = "read" /\ n.found = r.found /\ n.kids = r.kids /\ n.seen = seen
      /\ n.pulls = r.pulls /\ n.scope = r.scope /\ n.todo = r.todo
  BY <1>1 DEF CallRecords
<1> HIDE DEF n
<1>7. ReadsMore(r, n)
  BY <1>1, <1>4, <1>6 DEF ReadsMore, LooksFurther
<1>8. Progress(n)
  BY <1>1, <1>6, Names DEF Progress
<1> QED  BY <1>2, <1>5, <1>7, <1>8

(* Listing the pull requests ends the reading.                             *)
LEMMA ListPullRequestsReads ==
  ASSUME Types, NEW c \in Callers, ListPullRequests(c)
  PROVE  \E n \in CallRecords : /\ call' = [call EXCEPT ![c] = n]
                                /\ ReadsMore(call[c], n) /\ Progress(n)
<1> DEFINE r == call[c]
           n == [r EXCEPT !.at = "apply", !.pulls = pull]
<1>1. /\ r \in CallRecords /\ r.at = "read" /\ r.todo = {} /\ r.scope = DOMAIN r.kids
      /\ Kids(r) = DOMAIN r.seen /\ Progress(r) /\ call \in [Callers -> CallRecords]
  BY DEF Types, ListPullRequests, AllSprintsRead
<1>2. call' = [call EXCEPT ![c] = n]
  BY <1>1 DEF ListPullRequests
<1>3. pull \in [Ids -> PullStates] /\ pull \in Partial(Ids, PullStates)
  BY PartialFacts DEF Types
<1>4. n \in CallRecords
  BY <1>1, <1>3 DEF CallRecords
<1>5. /\ n.op = r.op /\ n.target = r.target /\ n.ver = r.ver /\ n.quiet = r.quiet
      /\ n.at = "apply" /\ n.found = r.found /\ n.kids = r.kids /\ n.seen = r.seen
      /\ n.pulls = pull /\ n.scope = r.scope /\ n.todo = r.todo
  BY <1>1 DEF CallRecords
<1> HIDE DEF n
<1>6. ReadsMore(r, n)
  BY <1>1, <1>5 DEF ReadsMore, LooksFurther
<1>7. Progress(n)
  BY <1>1, <1>3, <1>5, Names DEF Progress, Kids
<1> QED  BY <1>2, <1>4, <1>6, <1>7

(* A step that reads adds to what its operation has read, and does no more.*)
LEMMA ReadSteps ==
  ASSUME Types, NEW c \in Callers, Reads(c)
  PROVE  /\ \E n \in CallRecords : /\ call' = [call EXCEPT ![c] = n]
                                   /\ ReadsMore(call[c], n) /\ Progress(n)
         /\ UNCHANGED <<github, tables, findings, events, lock, calls>>
<1>1. UNCHANGED <<github, tables, findings, events, lock, calls>>
  BY DEF Reads, ListSprints, ListOpenTasks, ListPullRequests, SearchSprint, ReadSprint,
         ReadIssue, Read
<1> QED
  BY <1>1, ListSprintsReads, ListOpenTasksReads, ListPullRequestsReads, SearchSprintReads,
     ReadSprintReads, ReadIssueReads DEF Reads

----------------------------------------------------------------------------
(* Steps that begin and end an operation.                                  *)

(* What operations can be about.                                           *)
Subjects == Things \union {None}

Begun(op, x, v) ==
  [Idle EXCEPT !.op = op, !.target = x, !.ver = v,
     !.scope = IF x = None THEN {} ELSE TrackedSprints(x),
     !.at = IF x \in Sprints \/ (x \in Ids /\ TrackedSprints(x) # {}) THEN "read" ELSE "list"]

(* The tables name sprints only.                                           *)
LEMMA TrackedType ==
  ASSUME Types, NEW x \in Things
  PROVE  TrackedSprints(x) \subseteq Sprints
<1>1. DOMAIN tasks \subseteq Ids
  BY PartialFacts DEF Types
<1>2. CASE x \in Sprints
  BY <1>2, Names DEF TrackedSprints
<1>3. CASE x \in Ids
  BY <1>3, Names DEF TrackedSprints
<1>4. CASE x \in Issues
  <2>1. TrackedSprints(x) = {SprintOf[i] : i \in {j \in DOMAIN tasks : tasks[j].num = x}}
    BY <1>4, Names DEF TrackedSprints
  <2> QED  BY <1>1, <2>1, Names
<1> QED  BY <1>2, <1>3, <1>4 DEF Things

(* The record of no operation.                                             *)
LEMMA IdleFacts ==
  /\ Idle \in CallRecords /\ Progress(Idle) /\ Delivered(Idle)
  /\ Idle.op = "none" /\ Idle.at = "idle" /\ Idle.quiet = TRUE
  /\ DOMAIN Idle.found = {} /\ DOMAIN Idle.seen = {} /\ DOMAIN Idle.pulls = {}
<1>1. /\ Empty \in Partial(Sprints, Versions) /\ Empty \in Partial(Sprints, SUBSET Issues)
      /\ Empty \in Partial(Issues, IssueStates) /\ Empty \in Partial(Ids, PullStates)
  BY PartialEmpty
<1>2. 0 \in Versions
  BY Names DEF Versions
<1>3. Idle \in CallRecords
  BY <1>1, <1>2 DEF Idle, CallRecords
<1>4. /\ Idle.op = "none" /\ Idle.at = "idle" /\ Idle.quiet = TRUE /\ Idle.target = None
      /\ Idle.todo = {} /\ Idle.kids = Empty /\ Idle.found = Empty
      /\ Idle.seen = Empty /\ Idle.pulls = Empty
  BY DEF Idle
<1>5. Progress(Idle) /\ Delivered(Idle)
  BY <1>4 DEF Progress, Delivered
<1> QED  BY <1>3, <1>4, <1>5, PartialEmpty

(* n is an operation that has just begun, about x and version v of it.     *)
HasBegun(n, op, x, v) ==
  /\ n \in CallRecords /\ Progress(n)
  /\ n.op = op /\ n.target = x /\ n.ver = v /\ n.quiet = TRUE /\ n.at \in {"list", "read"}
  /\ DOMAIN n.found = {} /\ DOMAIN n.kids = {} /\ DOMAIN n.seen = {} /\ DOMAIN n.pulls = {}
  /\ n.scope = IF x = None THEN {} ELSE TrackedSprints(x)
  /\ n.at = "list" <=> ~(x \in Sprints \/ (x \in Ids /\ TrackedSprints(x) # {}))

(* The record that Begin makes.                                            *)
LEMMA BegunFacts ==
  ASSUME Types, NEW op \in {"full", "reconcile", "webhook"},
         NEW x \in Subjects, NEW v \in Versions, x = None <=> op = "full"
  PROVE  HasBegun(Begun(op, x, v), op, x, v)
<1> DEFINE n == Begun(op, x, v)
           scope == IF x = None THEN {} ELSE TrackedSprints(x)
           at == IF x \in Sprints \/ (x \in Ids /\ TrackedSprints(x) # {}) THEN "read" ELSE "list"
<1>1. scope \subseteq Sprints
  BY TrackedType DEF Subjects
<1>2. /\ at \in {"list", "read"}
      /\ at = "list" <=> ~(x \in Sprints \/ (x \in Ids /\ TrackedSprints(x) # {}))
  OBVIOUS
<1>3. n = [Idle EXCEPT !.op = op, !.target = x, !.ver = v, !.scope = scope, !.at = at]
  BY DEF Begun
<1> HIDE DEF scope, at
<1>4. n \in CallRecords
  BY <1>1, <1>2, <1>3, IdleFacts DEF CallRecords, Subjects
<1>5. /\ n.op = op /\ n.target = x /\ n.ver = v /\ n.scope = scope /\ n.at = at /\ n.quiet = TRUE
      /\ n.todo = {} /\ n.found = Empty /\ n.kids = Empty /\ n.seen = Empty /\ n.pulls = Empty
  <2>1. /\ Idle.todo = {} /\ Idle.found = Empty /\ Idle.kids = Empty /\ Idle.seen = Empty
        /\ Idle.pulls = Empty
    BY DEF Idle
  <2> QED  BY <1>3, <2>1, IdleFacts DEF CallRecords
<1> HIDE DEF n
<1>6. DOMAIN Empty = {}
  BY PartialEmpty
<1>7. Progress(n)
  BY <1>2, <1>5, <1>6, Names DEF Progress, Subjects
<1> QED  BY <1>2, <1>4, <1>5, <1>6, <1>7 DEF scope, n, HasBegun

Begins(c) ==
  \/ FullReconcile(c)
  \/ \E x \in Asked : Reconcile(c, x)
  \/ \E d \in sent : Receive(c, d)

(* A step that begins an operation: a webhook takes the lock with it.      *)
LEMMA BeginSteps ==
  ASSUME Types, NEW c \in Callers, Begins(c)
  PROVE  \E op \in {"full", "reconcile", "webhook"}, x \in Subjects, v \in Versions :
           /\ x = None <=> op = "full"
           /\ call[c].at = "idle" /\ call' = [call EXCEPT ![c] = Begun(op, x, v)]
           /\ op = "webhook" => /\ [target |-> x, ver |-> v] \in sent
                                /\ lock = None /\ lock' = c
           /\ op # "webhook" => lock' = lock
           /\ calls' \in 0..MaxCalls
           /\ UNCHANGED <<github, tables, findings, events>>
<1>1. calls < MaxCalls => calls + 1 \in 0..MaxCalls
  BY Names DEF Types, Versions
<1>2. CASE FullReconcile(c)
  <2>1. 0 \in Versions
    BY Names DEF Versions
  <2> QED  BY <1>1, <1>2, <2>1 DEF FullReconcile, Begin, Begun, Subjects
<1>3. ASSUME NEW x \in Asked, Reconcile(c, x)
      PROVE  /\ x \in Things /\ x # None /\ call[c].at = "idle"
             /\ call' = [call EXCEPT ![c] = Begun("reconcile", x, 0)]
             /\ lock' = lock /\ calls' \in 0..MaxCalls /\ 0 \in Versions
             /\ UNCHANGED <<github, tables, findings, events>>
  <2>1. 0 \in Versions /\ x \in Things /\ x # None
    BY Names, GitHubAssumption DEF Versions
  <2> QED  BY <1>1, <1>3, <2>1 DEF Reconcile, Begin, Begun
<1>4. ASSUME NEW d \in sent, Receive(c, d)
      PROVE  /\ d.target \in Things /\ d.target # None /\ d.ver \in Versions
             /\ call[c].at = "idle" /\ [target |-> d.target, ver |-> d.ver] = d
             /\ call' = [call EXCEPT ![c] = Begun("webhook", d.target, d.ver)]
             /\ lock = None /\ lock' = c /\ calls' \in 0..MaxCalls
             /\ UNCHANGED <<github, tables, findings, events>>
  <2>1. /\ d.target \in Things /\ d.target # None /\ d.ver \in Versions
        /\ [target |-> d.target, ver |-> d.ver] = d
    BY Names DEF Types, Targets
  <2> QED  BY <1>1, <1>4, <2>1 DEF Receive, Begin, Begun, Opens
<1>5. CASE \E x \in Asked : Reconcile(c, x)
  <2>1. PICK x \in Asked : Reconcile(c, x)
    BY <1>5
  <2>2. "reconcile" \in {"full", "reconcile", "webhook"} /\ "reconcile" # "full"
        /\ "reconcile" # "webhook"
    OBVIOUS
  <2> QED  BY <1>3, <2>1, <2>2 DEF Subjects
<1>6. CASE \E d \in sent : Receive(c, d)
  <2>1. PICK d \in sent : Receive(c, d)
    BY <1>6
  <2>2. "webhook" \in {"full", "reconcile", "webhook"} /\ "webhook" # "full"
    OBVIOUS
  <2> QED  BY <1>4, <2>1, <2>2 DEF Subjects
<1> QED  BY <1>2, <1>5, <1>6 DEF Begins

(* The record of an operation that begins.                                 *)
LEMMA BeginRecords ==
  ASSUME Types, NEW c \in Callers, Begins(c)
  PROVE  \E n \in CallRecords, x \in Subjects, v \in Versions :
           /\ HasBegun(n, n.op, x, v)
           /\ x = None <=> n.op = "full"
           /\ n.op \in {"full", "reconcile", "webhook"}
           /\ call[c].at = "idle" /\ call' = [call EXCEPT ![c] = n]
           /\ n.op = "webhook" => Delivery(n) \in sent /\ lock = None /\ lock' = c
           /\ n.op # "webhook" => lock' = lock
           /\ calls' \in 0..MaxCalls
           /\ UNCHANGED <<github, tables, findings, events>>
<1>1. PICK op \in {"full", "reconcile", "webhook"}, x \in Subjects, v \in Versions :
        /\ x = None <=> op = "full"
        /\ call[c].at = "idle" /\ call' = [call EXCEPT ![c] = Begun(op, x, v)]
        /\ op = "webhook" => /\ [target |-> x, ver |-> v] \in sent
                             /\ lock = None /\ lock' = c
        /\ op # "webhook" => lock' = lock
        /\ calls' \in 0..MaxCalls
        /\ UNCHANGED <<github, tables, findings, events>>
  BY BeginSteps
<1> DEFINE n == Begun(op, x, v)
<1>2. HasBegun(n, op, x, v)
  BY <1>1, BegunFacts
<1> HIDE DEF n
<1>3. n \in CallRecords /\ n.op = op /\ Delivery(n) = [target |-> x, ver |-> v]
  BY <1>2 DEF HasBegun, Delivery
<1>4. call' = [call EXCEPT ![c] = n]
  BY <1>1 DEF n
<1> QED  BY <1>1, <1>2, <1>3, <1>4

Ends(c) == Reject(c) \/ Abort(c)

(* A step that ends an operation without writing.                          *)
LEMMA EndSteps ==
  ASSUME NEW c \in Callers, Ends(c)
  PROVE  /\ call' = [call EXCEPT ![c] = Idle] /\ lock' = IF lock = c THEN None ELSE lock
         /\ UNCHANGED <<github, tables, findings, events, calls>>
BY DEF Ends, Reject, Abort, Done

Works(i) == StartTask(i) \/ RecordFinding(i)

(* What work on a task changes of it.                                      *)
LEMMA WorkSteps ==
  ASSUME Types, NEW i \in Worked, Works(i)
  PROVE  /\ lock = None
         /\ UNCHANGED <<github, sprints, prs, events, lock, call, calls>>
         /\ tasks' \in Partial(Ids, TaskRows) /\ DOMAIN tasks' = DOMAIN tasks
         /\ \A j \in DOMAIN tasks : /\ tasks'[j].num = tasks[j].num /\ tasks'[j].ver = tasks[j].ver
                                    /\ tasks'[j].pr = tasks[j].pr /\ tasks'[j].deps = tasks[j].deps
         /\ findings \subseteq findings' /\ findings' \subseteq findings \union DOMAIN tasks
<1>1. DOMAIN tasks \subseteq Ids /\ tasks \in [DOMAIN tasks -> TaskRows]
  BY PartialFacts DEF Types
<1>2. CASE StartTask(i)
  <2>1. tasks' = [tasks EXCEPT ![i].status = "in_progress"] /\ i \in DOMAIN tasks
    BY <1>2 DEF StartTask
  <2>2. /\ tasks' \in [DOMAIN tasks -> TaskRows]
        /\ \A j \in DOMAIN tasks : /\ tasks'[j].num = tasks[j].num /\ tasks'[j].ver = tasks[j].ver
                                   /\ tasks'[j].pr = tasks[j].pr /\ tasks'[j].deps = tasks[j].deps
    BY <1>1, <2>1 DEF TaskRows
  <2>3. tasks' \in Partial(Ids, TaskRows)
    BY <1>1, <2>2, PartialMake
  <2> QED  BY <1>2, <2>2, <2>3 DEF StartTask
<1>3. CASE RecordFinding(i)
  BY <1>3 DEF RecordFinding, tables, Types
<1> QED  BY <1>2, <1>3 DEF Works
----------------------------------------------------------------------------
(* Steps of people on GitHub.                                              *)

Edits ==
  \/ \E i \in Ids \intersect Changing : EditPull(i)
  \/ \E k \in Issues \intersect Changing : EditIssue(k) \/ MoveIssue(k)
  \/ \E s \in Sprints \intersect Changing : CloseOrReopenSprint(s)

(* The version GitHub has of a thing.                                      *)
Current(x) ==
  IF x \in Sprints THEN sprint[x].ver ELSE IF x \in Issues THEN issue[x].ver ELSE pull[x].ver

(* n is r, unless its operation is not quiet any more.                     *)
Disturbed(r, n) ==
  /\ n.op = r.op /\ n.at = r.at /\ n.target = r.target /\ n.ver = r.ver /\ n.todo = r.todo
  /\ n.scope = r.scope /\ n.open = r.open /\ n.found = r.found /\ n.kids = r.kids
  /\ n.seen = r.seen /\ n.pulls = r.pulls
  /\ n.quiet = (r.at = "idle")

(* What GitHub shows has its type, and what has changed a new version, of  *)
(* which a webhook tells.                                                  *)
GitHubMoves ==
  /\ sprint' \in [Sprints -> [open : BOOLEAN, ver : Versions]]
  /\ issue' \in [Issues -> IssueStates]
  /\ parent' \in [Issues -> Sprints \union {None}]
  /\ pull' \in [Ids -> PullStates]
  /\ \A x \in Things : Current(x)' \in {Current(x), edits + 1}
  /\ \/ sent' = sent
     \/ \E x \in Things : /\ Current(x)' = edits + 1
                          /\ sent' = sent \union {[target |-> x, ver |-> edits + 1]}

(* What a change on GitHub does to the operations under way.               *)
LEMMA ChangeSteps ==
  ASSUME Types, Change
  PROVE  /\ edits' = edits + 1 /\ edits' \in Versions
         /\ call' \in [Callers -> CallRecords]
         /\ \A c \in Callers : Disturbed(call[c], call'[c])
         /\ UNCHANGED <<tables, findings, events, lock, calls>>
<1>1. edits' = edits + 1 /\ edits' \in Versions
  BY Names DEF Change, Types, Versions
<1>2. ASSUME NEW c \in Callers
      PROVE  call'[c] \in CallRecords /\ Disturbed(call[c], call'[c])
  <2>1. call[c] \in CallRecords
    BY DEF Types
  <2>2. call'[c] = [call[c] EXCEPT !.quiet = call[c].at = "idle"]
    BY DEF Change
  <2>3. (call[c].at = "idle") \in BOOLEAN
    OBVIOUS
  <2> QED  BY <2>1, <2>2, <2>3 DEF CallRecords, Disturbed
<1>3. call' = [c \in Callers |-> [call[c] EXCEPT !.quiet = call[c].at = "idle"]]
  BY DEF Change
<1>4. call' \in [Callers -> CallRecords]
  BY <1>2, <1>3
<1> QED  BY <1>1, <1>2, <1>4 DEF Change

(* Every edit is a change, of one thing.                                   *)
LEMMA EditSteps ==
  ASSUME Types, Edits
  PROVE  Change /\ GitHubMoves
<1>1. edits + 1 \in Versions \/ ~Change
  BY Names DEF Change, Types, Versions
<1>2. ASSUME NEW k \in Issues, EditIssue(k)
      PROVE  Change /\ GitHubMoves
  <2>1. PICK i \in Ids, open \in BOOLEAN :
          issue' = [issue EXCEPT ![k] = [id |-> i, open |-> open, ver |-> edits + 1]]
    BY <1>2 DEF EditIssue
  <2>2. Change /\ edits + 1 \in Versions
    BY <1>1, <1>2 DEF EditIssue
  <2>3. issue' \in [Issues -> IssueStates]
    BY <2>1, <2>2 DEF Types, IssueStates
  <2>4. UNCHANGED <<sprint, pull, parent>>
    BY <1>2 DEF EditIssue
  <2>5. issue'[k].ver = edits + 1 /\ \A l \in Issues \ {k} : issue'[l] = issue[l]
    BY <2>1 DEF Types
  <2>6. \A x \in Things : Current(x)' \in {Current(x), edits + 1}
    BY <2>4, <2>5, Names DEF Current
  <2>7. k \in Things /\ Current(k)' = edits + 1
    BY <2>5, Names DEF Current
  <2>8. sent' = sent \union {[target |-> k, ver |-> edits + 1]}
    BY <1>2 DEF EditIssue, Sends
  <2> QED  BY <2>2, <2>3, <2>4, <2>6, <2>7, <2>8 DEF GitHubMoves, Types
<1>3. ASSUME NEW k \in Issues, MoveIssue(k)
      PROVE  Change /\ GitHubMoves
  <2>1. PICK s \in Sprints \union {None} : parent' = [parent EXCEPT ![k] = s]
    BY <1>3 DEF MoveIssue
  <2>2. parent' \in [Issues -> Sprints \union {None}]
    BY <2>1 DEF Types
  <2>3. Change /\ UNCHANGED <<sprint, issue, pull, sent>>
    BY <1>3 DEF MoveIssue
  <2>4. \A x \in Things : Current(x)' = Current(x)
    BY <2>3 DEF Current
  <2> QED  BY <2>2, <2>3, <2>4 DEF GitHubMoves, Types
<1>4. ASSUME NEW s \in Sprints, CloseOrReopenSprint(s)
      PROVE  Change /\ GitHubMoves
  <2>1. /\ sprint' = [sprint EXCEPT ![s] = [open |-> ~sprint[s].open, ver |-> edits + 1]]
        /\ Change /\ UNCHANGED <<issue, pull, parent>>
        /\ sent' = sent \union {[target |-> s, ver |-> edits + 1]}
    BY <1>4 DEF CloseOrReopenSprint, Sends
  <2>2. edits + 1 \in Versions
    BY <1>1, <2>1
  <2>3. sprint' \in [Sprints -> [open : BOOLEAN, ver : Versions]]
    BY <2>1, <2>2 DEF Types
  <2>4. sprint'[s].ver = edits + 1 /\ \A q \in Sprints \ {s} : sprint'[q] = sprint[q]
    BY <2>1 DEF Types
  <2>5. \A x \in Things : Current(x)' \in {Current(x), edits + 1}
    BY <2>1, <2>4 DEF Current
  <2>6. s \in Things /\ Current(s)' = edits + 1
    BY <2>4, Names DEF Current
  <2> QED  BY <2>1, <2>3, <2>5, <2>6 DEF GitHubMoves, Types
<1>5. ASSUME NEW i \in Ids, EditPull(i)
      PROVE  Change /\ GitHubMoves
  <2>1. PICK p \in {"open", "merged"} :
          pull' = [pull EXCEPT ![i] = [state |-> p, ver |-> edits + 1]]
    BY <1>5 DEF EditPull
  <2>2. /\ Change /\ UNCHANGED <<sprint, issue, parent>>
        /\ sent' = sent \union {[target |-> i, ver |-> edits + 1]}
    BY <1>5 DEF EditPull, Sends
  <2>3. edits + 1 \in Versions
    BY <1>1, <2>2
  <2>4. pull' \in [Ids -> PullStates]
    BY <2>1, <2>3 DEF Types, PullStates
  <2>5. pull'[i].ver = edits + 1 /\ \A j \in Ids \ {i} : pull'[j] = pull[j]
    BY <2>1 DEF Types
  <2>6. \A x \in Things : Current(x)' \in {Current(x), edits + 1}
    BY <2>2, <2>5, Names DEF Current, Things
  <2>7. i \in Things /\ Current(i)' = edits + 1
    BY <2>5, Names DEF Current
  <2> QED  BY <2>2, <2>4, <2>6, <2>7 DEF GitHubMoves, Types
<1> QED  BY <1>2, <1>3, <1>4, <1>5 DEF Edits

----------------------------------------------------------------------------
(* Steps that write.                                                       *)

(* What an operation that writes has read.                                 *)
LEMMA WrittenFacts ==
  ASSUME NEW r \in CallRecords, Progress(r), r.at = "apply", WellFormed(r)
  PROVE  /\ r.found \in [DOMAIN r.found -> Versions] /\ r.scope \subseteq DOMAIN r.found
         /\ r.seen \in [DOMAIN r.seen -> IssueStates] /\ DOMAIN r.seen \subseteq Issues
         /\ r.pulls \in [Ids -> PullStates]
         /\ r.scope \subseteq Sprints
         /\ \A k \in DOMAIN r.seen : SprintOf[r.seen[k].id] \in r.scope
         /\ \A k \in DOMAIN r.seen : k \in r.kids[SprintOf[r.seen[k].id]]
         /\ \A s \in r.scope : r.kids[s] \subseteq DOMAIN r.seen
<1>1. /\ r.found \in [DOMAIN r.found -> Versions]
      /\ r.seen \in [DOMAIN r.seen -> IssueStates] /\ DOMAIN r.seen \subseteq Issues
  BY PartialFacts DEF CallRecords
<1>2. /\ DOMAIN r.kids \subseteq DOMAIN r.found /\ r.scope = DOMAIN r.kids
      /\ DOMAIN r.seen = UNION {r.kids[s] : s \in r.scope} /\ r.pulls \in [Ids -> PullStates]
  BY DEF Progress, Kids, Range
<1>3. \A k \in DOMAIN r.seen : \E s \in r.scope : k \in r.kids[s]
  BY <1>2
<1>4. \A s \in r.scope : \A k \in r.kids[s] : SprintOf[r.seen[k].id] = s
  BY DEF WellFormed
<1>5. \A s \in r.scope : r.kids[s] \subseteq DOMAIN r.seen
  BY <1>2
<1> QED  BY <1>1, <1>2, <1>3, <1>4, <1>5 DEF CallRecords

(* The ids and issues of such an operation belong together.                *)
LEMMA IssueFacts ==
  ASSUME NEW r \in CallRecords, Progress(r), r.at = "apply", WellFormed(r)
  PROVE  /\ IdsOf(r) \subseteq Ids
         /\ \A i \in IdsOf(r) : /\ IssueOf(r, i) \in DOMAIN r.seen
                                /\ r.seen[IssueOf(r, i)].id = i
                                /\ SprintOf[i] \in r.scope
         /\ \A k \in DOMAIN r.seen : r.seen[k].id \in IdsOf(r) /\ IssueOf(r, r.seen[k].id) = k
<1>1. /\ r.seen \in [DOMAIN r.seen -> IssueStates]
      /\ \A k \in DOMAIN r.seen : SprintOf[r.seen[k].id] \in r.scope
  BY WrittenFacts
<1>2. IdsOf(r) = {r.seen[k].id : k \in DOMAIN r.seen}
  BY DEF IdsOf, Range
<1>3. ASSUME NEW i \in IdsOf(r)
      PROVE  IssueOf(r, i) \in DOMAIN r.seen /\ r.seen[IssueOf(r, i)].id = i
  <2>1. \E k \in DOMAIN r.seen : r.seen[k].id = i
    BY <1>2, <1>3
  <2> QED  BY <2>1 DEF IssueOf
<1>4. ASSUME NEW k \in DOMAIN r.seen
      PROVE  r.seen[k].id \in IdsOf(r) /\ IssueOf(r, r.seen[k].id) = k
  <2>1. r.seen[k].id \in IdsOf(r)
    BY <1>2
  <2>2. \A l \in DOMAIN r.seen : r.seen[k].id = r.seen[l].id => k = l
    BY DEF WellFormed
  <2> QED  BY <1>3, <2>1, <2>2
<1>5. IdsOf(r) \subseteq Ids
  BY <1>1, <1>2 DEF IssueStates
<1> QED  BY <1>1, <1>3, <1>4, <1>5

(* The row that is written for a task.                                     *)
LEMMA RowFacts ==
  ASSUME Types, NEW r \in CallRecords, Progress(r), r.at = "apply", WellFormed(r),
         NEW i \in IdsOf(r)
  PROVE  /\ TaskRow(r, i) \in TaskRows
         /\ TaskRow(r, i).num = IssueOf(r, i)
         /\ TaskRow(r, i).ver = r.seen[IssueOf(r, i)].ver
         /\ TaskRow(r, i).pr = (r.pulls[i].state = "open")
         /\ TaskRow(r, i).deps = {r.seen[b].id : b \in BlockedBy[IssueOf(r, i)]}
         /\ \A b \in BlockedBy[IssueOf(r, i)] :
              b \in DOMAIN r.seen /\ SprintOf[r.seen[b].id] = SprintOf[i]
<1> DEFINE k == IssueOf(r, i)
           deps == {r.seen[b].id : b \in BlockedBy[k]}
           status == IF i \in DOMAIN tasks THEN tasks[i].status ELSE ProjectedStatus(r.seen[k].open)
<1>1. /\ k \in DOMAIN r.seen /\ r.seen[k].id = i /\ DOMAIN r.seen \subseteq Issues
      /\ r.seen \in [DOMAIN r.seen -> IssueStates]
  BY IssueFacts, WrittenFacts
<1>2. \A b \in BlockedBy[k] : b \in DOMAIN r.seen /\ SprintOf[r.seen[b].id] = SprintOf[i]
  BY <1>1 DEF WellFormed
<1>3. deps \in SUBSET Ids
  BY <1>1, <1>2 DEF IssueStates
<1>4. status \in {"todo", "in_progress", "done"}
  <2>1. \A j \in DOMAIN tasks : tasks[j] \in TaskRows
    BY PartialFacts DEF Types
  <2> QED  BY <2>1 DEF ProjectedStatus, TaskRows
<1>5. k \in Issues /\ r.seen[k].ver \in Versions
  BY <1>1 DEF IssueStates
<1>6. IsActive(r, i) = (r.pulls[i].state = "open") /\ IsActive(r, i) \in BOOLEAN
  BY DEF IsActive
<1>7. TaskRow(r, i) = [num |-> k, ver |-> r.seen[k].ver, pr |-> IsActive(r, i),
                       status |-> status, deps |-> deps]
  BY DEF TaskRow
<1> HIDE DEF k, deps, status
<1>8. TaskRow(r, i) \in TaskRows
  BY <1>3, <1>4, <1>5, <1>6, <1>7 DEF TaskRows
<1> QED  BY <1>2, <1>6, <1>7, <1>8 DEF k, deps

(* What the transaction of an operation writes.                            *)
LEMMA ApplySteps ==
  ASSUME Types, NEW c \in Callers, Apply(c)
  PROVE  LET r == call[c] IN
         /\ r \in CallRecords /\ Progress(r) /\ r.at = "apply" /\ lock \in {None, c}
         /\ WellFormed(r) /\ ~Pinned(r) /\ ~NumberTaken(r)
         /\ sprints' \in Partial(Sprints, Versions)
         /\ DOMAIN sprints' = DOMAIN sprints \union r.scope
         /\ \A s \in DOMAIN sprints' : sprints'[s] = IF s \in r.scope THEN r.found[s] ELSE sprints[s]
         /\ tasks' \in Partial(Ids, TaskRows)
         /\ DOMAIN tasks' = (DOMAIN tasks \ Stale(r)) \union IdsOf(r)
         /\ \A i \in DOMAIN tasks' : tasks'[i] = IF i \in IdsOf(r) THEN TaskRow(r, i) ELSE tasks[i]
         /\ prs' \in Partial(Ids, PullStates)
         /\ DOMAIN prs' = PullsAfter(r)
         /\ \A i \in DOMAIN prs' : prs'[i] = IF SprintOf[i] \in r.scope THEN r.pulls[i] ELSE prs[i]
         /\ events' = IF r.op = "webhook" THEN events \union {Delivery(r)} ELSE events
         /\ call' = [call EXCEPT ![c] = Idle] /\ lock' = IF lock = c THEN None ELSE lock
         /\ UNCHANGED <<github, findings, calls>>
<1> DEFINE r == call[c]
<1>1. /\ r \in CallRecords /\ Progress(r) /\ r.at = "apply" /\ lock \in {None, c}
      /\ WellFormed(r) /\ ~Pinned(r) /\ ~NumberTaken(r)
  BY DEF Types, Apply
<1>2. /\ sprints' = [s \in DOMAIN sprints \union r.scope |->
                       IF s \in r.scope THEN r.found[s] ELSE sprints[s]]
      /\ tasks' = [i \in (DOMAIN tasks \ Stale(r)) \union IdsOf(r) |->
                     IF i \in IdsOf(r) THEN TaskRow(r, i) ELSE tasks[i]]
      /\ prs' = [i \in PullsAfter(r) |-> IF SprintOf[i] \in r.scope THEN r.pulls[i] ELSE prs[i]]
      /\ events' = IF r.op = "webhook" THEN events \union {Delivery(r)} ELSE events
      /\ call' = [call EXCEPT ![c] = Idle] /\ lock' = IF lock = c THEN None ELSE lock
      /\ UNCHANGED <<github, findings, calls>>
  BY DEF Apply, Done
<1> HIDE DEF r
<1>3. /\ DOMAIN sprints \subseteq Sprints /\ sprints \in [DOMAIN sprints -> Versions]
      /\ DOMAIN tasks \subseteq Ids /\ tasks \in [DOMAIN tasks -> TaskRows]
      /\ DOMAIN prs \subseteq Ids /\ prs \in [DOMAIN prs -> PullStates]
  BY PartialFacts DEF Types
<1>4. /\ r.found \in [DOMAIN r.found -> Versions] /\ r.scope \subseteq DOMAIN r.found
      /\ r.pulls \in [Ids -> PullStates] /\ r.scope \subseteq Sprints
  BY <1>1, WrittenFacts
<1>5. sprints' \in Partial(Sprints, Versions)
  <2>1. sprints' \in [DOMAIN sprints \union r.scope -> Versions]
    BY <1>2, <1>3, <1>4
  <2>2. DOMAIN sprints \union r.scope \subseteq Sprints
    BY <1>3, <1>4
  <2> QED  BY <2>1, <2>2, PartialMake
<1>6. tasks' \in Partial(Ids, TaskRows)
  <2>1. \A i \in IdsOf(r) : TaskRow(r, i) \in TaskRows
    BY <1>1, RowFacts
  <2>2. tasks' \in [(DOMAIN tasks \ Stale(r)) \union IdsOf(r) -> TaskRows]
    BY <1>2, <1>3, <2>1
  <2>3. (DOMAIN tasks \ Stale(r)) \union IdsOf(r) \subseteq Ids
    BY <1>1, <1>3, IssueFacts
  <2> QED  BY <2>2, <2>3, PartialMake
<1>7. prs' \in Partial(Ids, PullStates)
  <2>1. PullsAfter(r) \subseteq Ids
    BY DEF PullsAfter
  <2>2. \A i \in PullsAfter(r) : SprintOf[i] \in r.scope \/ i \in DOMAIN prs
    BY DEF PullsAfter
  <2>3. prs' \in [PullsAfter(r) -> PullStates]
    BY <1>2, <1>3, <1>4, <2>1, <2>2
  <2> QED  BY <2>1, <2>3, PartialMake
<1>8. /\ DOMAIN sprints' = DOMAIN sprints \union r.scope
      /\ \A s \in DOMAIN sprints' : sprints'[s] = IF s \in r.scope THEN r.found[s] ELSE sprints[s]
      /\ DOMAIN tasks' = (DOMAIN tasks \ Stale(r)) \union IdsOf(r)
      /\ \A i \in DOMAIN tasks' : tasks'[i] = IF i \in IdsOf(r) THEN TaskRow(r, i) ELSE tasks[i]
      /\ DOMAIN prs' = PullsAfter(r)
      /\ \A i \in DOMAIN prs' : prs'[i] = IF SprintOf[i] \in r.scope THEN r.pulls[i] ELSE prs[i]
  BY <1>2
<1> QED  BY <1>1, <1>2, <1>5, <1>6, <1>7, <1>8 DEF r

(* Every step reads, begins, ends, writes, works on a task or is a change  *)
(* on GitHub.                                                              *)
LEMMA StepKinds ==
  ASSUME Next
  PROVE  \/ \E c \in Callers : Begins(c) \/ Reads(c) \/ Apply(c) \/ Ends(c)
         \/ \E i \in Worked : Works(i)
         \/ Edits
BY DEF Next, Begins, Reads, Ends, Works, Edits

----------------------------------------------------------------------------
(* Type correctness.                                                       *)

(* The rows the tables begin with.                                         *)
LEMMA InitialRows ==
  ASSUME Init
  PROVE  /\ DOMAIN tasks = {j \in Range(FirstId) : SprintOf[j] \in Known}
         /\ \A i \in DOMAIN tasks :
              \E k \in Issues : /\ FirstId[k] = i
                                /\ tasks[i] = [num |-> k, ver |-> 0, status |-> "todo", pr |-> FALSE,
                                               deps |-> {FirstId[b] : b \in BlockedBy[k]}]
         /\ tasks \in Partial(Ids, TaskRows)
<1> DEFINE D == {j \in Range(FirstId) : SprintOf[j] \in Known}
           num(i) == CHOOSE n \in Issues : FirstId[n] = i
           row(k) == [num |-> k, ver |-> 0, status |-> "todo", pr |-> FALSE,
                      deps |-> {FirstId[b] : b \in BlockedBy[k]}]
<1>1. tasks = [i \in D |-> row(num(i))]
  BY DEF Init
<1>2. D \subseteq Ids /\ \A i \in D : \E k \in Issues : FirstId[k] = i
  BY Names DEF Range
<1>3. \A i \in D : num(i) \in Issues /\ FirstId[num(i)] = i
  BY <1>2
<1>4. \A k \in Issues : row(k) \in TaskRows
  <2>1. 0 \in Versions
    BY Names DEF Versions
  <2>2. \A k \in Issues : {FirstId[b] : b \in BlockedBy[k]} \in SUBSET Ids
    BY Names
  <2> QED  BY <2>1, <2>2 DEF TaskRows
<1> HIDE DEF D, num
<1>5. DOMAIN tasks = D /\ \A i \in D : tasks[i] = row(num(i))
  BY <1>1
<1> HIDE DEF row
<1>6. tasks \in [D -> TaskRows]
  BY <1>1, <1>3, <1>4
<1>7. tasks \in Partial(Ids, TaskRows)
  BY <1>2, <1>6, PartialMake
<1> QED  BY <1>3, <1>5, <1>7 DEF D, row

(* The initial state has the types.                                        *)
LEMMA InitTypes == Init => Types
<1> SUFFICES ASSUME Init PROVE Types
  OBVIOUS
<1>1. 0 \in Versions /\ 0 \in 0..MaxEdits /\ 0 \in 0..MaxCalls
  BY Names DEF Versions
<1>2. /\ sprint = [s \in Sprints |-> [open |-> TRUE, ver |-> 0]]
      /\ issue = [k \in Issues |-> [id |-> FirstId[k], open |-> TRUE, ver |-> 0]]
      /\ parent = [k \in Issues |-> SprintOf[FirstId[k]]]
      /\ pull = [i \in Ids |-> [state |-> "none", ver |-> 0]]
      /\ sent = {} /\ events = {} /\ findings = {} /\ prs = Empty
      /\ sprints = [s \in Known |-> 0] /\ lock = None /\ call = [c \in Callers |-> Idle]
      /\ edits = 0 /\ calls = 0
  BY DEF Init
<1>3. /\ sprint \in [Sprints -> [open : BOOLEAN, ver : Versions]]
      /\ issue \in [Issues -> IssueStates] /\ parent \in [Issues -> Sprints \union {None}]
      /\ pull \in [Ids -> PullStates]
  BY <1>1, <1>2, Names DEF IssueStates, PullStates
<1>4. sprints \in Partial(Sprints, Versions) /\ prs \in Partial(Ids, PullStates)
  <2>1. sprints \in [Known -> Versions]
    BY <1>1, <1>2
  <2>2. sprints \in Partial(Sprints, Versions)
    BY <2>1, GitHubAssumption, PartialMake
  <2> QED  BY <1>2, <2>2, PartialEmpty
<1>5. call \in [Callers -> CallRecords] /\ \A c \in Callers : call[c] = Idle
  BY <1>2, IdleFacts
<1>6. \A c \in Callers : Progress(call[c]) /\ Delivered(call[c])
  BY <1>5, IdleFacts
<1> QED  BY <1>1, <1>2, <1>3, <1>4, <1>5, <1>6, InitialRows DEF Types

(* One operation's record changes to one of its type.                      *)
LEMMA CallTypes ==
  ASSUME Types, NEW c \in Callers, NEW n \in CallRecords, Progress(n),
         n.op = "webhook" => Delivery(n) \in sent, call' = [call EXCEPT ![c] = n], sent' = sent
  PROVE  /\ call' \in [Callers -> CallRecords]
         /\ \A d \in Callers : (Progress(call[d]) /\ Delivered(call[d]))'
<1>1. call' \in [Callers -> CallRecords] /\ call'[c] = n /\ \A d \in Callers \ {c} : call'[d] = call[d]
  BY DEF Types
<1>2. ASSUME NEW d \in Callers PROVE (Progress(call[d]) /\ Delivered(call[d]))'
  <2>1. CASE d = c
    BY <1>1, <2>1 DEF Progress, Kids, Delivered
  <2>2. CASE d # c
    BY <1>1, <2>2 DEF Types, Progress, Kids, Delivered
  <2> QED  BY <2>1, <2>2
<1> QED  BY <1>1, <1>2

(* Every step keeps the types.                                             *)
LEMMA StepTypes == Types /\ [Next]_vars => Types'
<1> SUFFICES ASSUME Types, [Next]_vars PROVE Types'
  OBVIOUS
<1>1. CASE UNCHANGED vars
  BY <1>1 DEF Types, Progress, Kids, Delivered, vars, github, tables
<1>2. ASSUME NEW c \in Callers, Begins(c)
      PROVE  Types'
  <2>1. PICK n \in CallRecords, x \in Subjects, v \in Versions :
          /\ HasBegun(n, n.op, x, v)
          /\ call' = [call EXCEPT ![c] = n]
          /\ n.op = "webhook" => Delivery(n) \in sent /\ lock = None /\ lock' = c
          /\ n.op # "webhook" => lock' = lock
          /\ calls' \in 0..MaxCalls
          /\ UNCHANGED <<github, tables, findings, events>>
    BY <1>2, BeginRecords, Zenon
  <2>2. Progress(n) /\ sent' = sent
    BY <2>1 DEF HasBegun, github
  <2>3. call' \in [Callers -> CallRecords] /\ \A d \in Callers : (Progress(call[d]) /\ Delivered(call[d]))'
    BY <2>1, <2>2, CallTypes
  <2> QED  BY <2>1, <2>3 DEF Types, github, tables
<1>3. ASSUME NEW c \in Callers, Reads(c)
      PROVE  Types'
  <2>1. PICK n \in CallRecords : /\ call' = [call EXCEPT ![c] = n]
                                 /\ ReadsMore(call[c], n) /\ Progress(n)
    BY <1>3, ReadSteps
  <2>2. UNCHANGED <<github, tables, findings, events, lock, calls>>
    BY <1>3, ReadSteps
  <2>3. n.op = "webhook" => Delivery(n) \in sent
    BY <2>1 DEF ReadsMore, Delivery, Delivered, Types
  <2>4. call' \in [Callers -> CallRecords] /\ \A d \in Callers : (Progress(call[d]) /\ Delivered(call[d]))'
    BY <2>1, <2>2, <2>3, CallTypes DEF github
  <2> QED  BY <2>2, <2>4 DEF Types, github, tables
<1>4. ASSUME NEW c \in Callers, call' = [call EXCEPT ![c] = Idle], sent' = sent
      PROVE  /\ call' \in [Callers -> CallRecords]
             /\ \A d \in Callers : (Progress(call[d]) /\ Delivered(call[d]))'
  BY <1>4, CallTypes, IdleFacts
<1>5. ASSUME NEW c \in Callers, Ends(c)
      PROVE  Types'
  <2>1. /\ call' = [call EXCEPT ![c] = Idle] /\ lock' = IF lock = c THEN None ELSE lock
        /\ UNCHANGED <<github, tables, findings, events, calls>>
    BY <1>5, EndSteps
  <2> QED  BY <1>4, <2>1 DEF Types, github, tables
<1>6. ASSUME NEW c \in Callers, Apply(c)
      PROVE  Types'
  <2> DEFINE r == call[c]
  <2>1. /\ sprints' \in Partial(Sprints, Versions) /\ tasks' \in Partial(Ids, TaskRows)
        /\ prs' \in Partial(Ids, PullStates)
        /\ events' = IF r.op = "webhook" THEN events \union {Delivery(r)} ELSE events
        /\ call' = [call EXCEPT ![c] = Idle] /\ lock' = IF lock = c THEN None ELSE lock
        /\ UNCHANGED <<github, findings, calls>>
    BY <1>6, ApplySteps
  <2>2. events' \subseteq sent
    BY <2>1 DEF Types, Delivered
  <2> QED  BY <1>4, <2>1, <2>2 DEF Types, github
<1>7. ASSUME NEW i \in Worked, Works(i)
      PROVE  Types'
  <2>1. /\ UNCHANGED <<github, sprints, prs, events, lock, call, calls>>
        /\ tasks' \in Partial(Ids, TaskRows)
        /\ findings' \subseteq findings \union DOMAIN tasks
    BY <1>7, WorkSteps
  <2>2. DOMAIN tasks \subseteq Ids
    BY PartialFacts DEF Types
  <2> QED  BY <2>1, <2>2 DEF Types, Progress, Kids, Delivered, github
<1>8. CASE Edits
  <2>1. Change /\ GitHubMoves
    BY <1>8, EditSteps
  <2>2. /\ edits' = edits + 1 /\ edits' \in Versions
        /\ call' \in [Callers -> CallRecords]
        /\ \A c \in Callers : Disturbed(call[c], call'[c])
        /\ UNCHANGED <<tables, findings, events, lock, calls>>
    BY <2>1, ChangeSteps
  <2>3. sent' \subseteq Targets /\ sent \subseteq sent'
    BY <2>1, <2>2 DEF GitHubMoves, Targets, Types
  <2>4. ASSUME NEW c \in Callers
        PROVE  (Progress(call[c]) /\ Delivered(call[c]))'
    <3>1. Disturbed(call[c], call'[c]) /\ Progress(call[c]) /\ Delivered(call[c])
      BY <2>2 DEF Types
    <3>2. Progress(call'[c])
      BY <3>1 DEF Disturbed, Progress, Kids
    <3>3. Delivery(call'[c]) = Delivery(call[c]) /\ call'[c].op = call[c].op
      BY <3>1 DEF Disturbed, Delivery
    <3> QED  BY <2>3, <3>1, <3>2, <3>3 DEF Progress, Kids, Delivered, Delivery
  <2> QED  BY <2>1, <2>2, <2>3, <2>4 DEF Types, GitHubMoves, tables, Versions
<1> QED  BY <1>1, <1>2, <1>3, <1>5, <1>6, <1>7, <1>8, StepKinds

(* The type invariant.                                                     *)
THEOREM TypeInvariance == Spec => []Types
BY InitTypes, StepTypes, PTL DEF Spec

(* TypeOK: every variable of the projection has its type.                  *)
THEOREM TypeCorrect == Spec => []TypeOK
BY TypesAreTypes, TypeInvariance, PTL

----------------------------------------------------------------------------
(* The tables agree with each other.                                       *)

(* What a row of the table was or is written from.                         *)
LEMMA RowsWritten ==
  ASSUME Types, NEW c \in Callers, Apply(c), NEW i \in DOMAIN tasks'
  PROVE  LET r == call[c] IN
         \/ /\ i \in IdsOf(r) /\ SprintOf[i] \in r.scope
            /\ tasks'[i].num = IssueOf(r, i) /\ tasks'[i].num \in DOMAIN r.seen
            /\ r.seen[tasks'[i].num].id = i
            /\ tasks'[i].ver = r.seen[tasks'[i].num].ver
            /\ tasks'[i].pr = (r.pulls[i].state = "open")
            /\ tasks'[i].deps = {r.seen[b].id : b \in BlockedBy[tasks'[i].num]}
            /\ \A b \in BlockedBy[tasks'[i].num] :
                 b \in DOMAIN r.seen /\ SprintOf[r.seen[b].id] = SprintOf[i]
         \/ /\ i \in DOMAIN tasks \ Stale(r) /\ i \notin IdsOf(r) /\ SprintOf[i] \notin r.scope
            /\ tasks'[i] = tasks[i]
<1> DEFINE r == call[c]
<1>1. /\ r \in CallRecords /\ Progress(r) /\ r.at = "apply" /\ WellFormed(r)
      /\ DOMAIN tasks' = (DOMAIN tasks \ Stale(r)) \union IdsOf(r)
      /\ tasks'[i] = IF i \in IdsOf(r) THEN TaskRow(r, i) ELSE tasks[i]
  BY ApplySteps
<1> HIDE DEF r
<1>2. CASE i \in IdsOf(r)
  <2>1. /\ IssueOf(r, i) \in DOMAIN r.seen /\ r.seen[IssueOf(r, i)].id = i
        /\ SprintOf[i] \in r.scope
    BY <1>1, <1>2, IssueFacts
  <2>2. /\ TaskRow(r, i).num = IssueOf(r, i)
        /\ TaskRow(r, i).ver = r.seen[IssueOf(r, i)].ver
        /\ TaskRow(r, i).pr = (r.pulls[i].state = "open")
        /\ TaskRow(r, i).deps = {r.seen[b].id : b \in BlockedBy[IssueOf(r, i)]}
        /\ \A b \in BlockedBy[IssueOf(r, i)] :
             b \in DOMAIN r.seen /\ SprintOf[r.seen[b].id] = SprintOf[i]
    BY <1>1, <1>2, RowFacts
  <2>3. tasks'[i] = TaskRow(r, i)
    BY <1>1, <1>2
  <2> QED  BY <1>2, <2>1, <2>2, <2>3 DEF r
<1>3. CASE i \notin IdsOf(r)
  <2>1. i \in DOMAIN tasks \ Stale(r)
    BY <1>1, <1>3
  <2>2. SprintOf[i] \notin r.scope
    BY <1>3, <2>1 DEF Stale
  <2> QED  BY <1>1, <1>3, <2>1, <2>2 DEF r
<1> QED  BY <1>2, <1>3

(* A snapshot that is written leaves tables that agree.                    *)
LEMMA ApplyAgrees ==
  ASSUME Types, TablesAgree, NEW c \in Callers, Apply(c)
  PROVE  TablesAgree'
<1> DEFINE r == call[c]
<1>1. /\ r \in CallRecords /\ Progress(r) /\ r.at = "apply"
      /\ WellFormed(r) /\ ~Pinned(r) /\ ~NumberTaken(r)
      /\ DOMAIN sprints' = DOMAIN sprints \union r.scope
      /\ DOMAIN tasks' = (DOMAIN tasks \ Stale(r)) \union IdsOf(r)
      /\ DOMAIN prs' = PullsAfter(r)
      /\ \A i \in DOMAIN prs' : prs'[i] = IF SprintOf[i] \in r.scope THEN r.pulls[i] ELSE prs[i]
      /\ findings' = findings
  BY ApplySteps
<1> DEFINE New(i) == i \in IdsOf(r) /\ SprintOf[i] \in r.scope
           Old(i) == /\ i \in DOMAIN tasks \ Stale(r) /\ i \notin IdsOf(r)
                     /\ SprintOf[i] \notin r.scope /\ tasks'[i] = tasks[i]
<1>2. \A i \in DOMAIN tasks' : New(i) \/ Old(i)
  BY RowsWritten
<1>3. \A i \in IdsOf(r) :
        /\ tasks'[i].num = IssueOf(r, i) /\ tasks'[i].num \in DOMAIN r.seen
        /\ r.seen[tasks'[i].num].id = i
        /\ tasks'[i].pr = (r.pulls[i].state = "open")
        /\ tasks'[i].deps = {r.seen[b].id : b \in BlockedBy[tasks'[i].num]}
        /\ \A b \in BlockedBy[tasks'[i].num] :
             b \in DOMAIN r.seen /\ SprintOf[r.seen[b].id] = SprintOf[i]
  BY <1>1, RowsWritten
<1>4. DOMAIN tasks \subseteq Ids /\ IdsOf(r) \subseteq Ids
  BY <1>1, PartialFacts, IssueFacts DEF Types
<1>5. \A k \in DOMAIN r.seen : r.seen[k].id \in IdsOf(r)
  BY <1>1, IssueFacts
<1> HIDE DEF r
<1>6. ASSUME NEW i \in DOMAIN tasks', NEW j \in DOMAIN tasks', tasks'[i].num = tasks'[j].num
      PROVE  i = j
  <2>1. ASSUME NEW a \in DOMAIN tasks', NEW b \in DOMAIN tasks', New(a), Old(b), a # b
        PROVE  tasks'[a].num # tasks'[b].num
    <3>1. tasks'[a].num = IssueOf(r, a)
      BY <1>3, <2>1
    <3>2. tasks[b].num # IssueOf(r, a)
      BY <1>1, <2>1 DEF NumberTaken
    <3> QED  BY <2>1, <3>1, <3>2
  <2>2. CASE New(i) /\ New(j)
    BY <1>3, <1>6, <2>2
  <2>3. CASE Old(i) /\ Old(j)
    BY <1>6, <2>3 DEF TablesAgree
  <2> QED  BY <1>2, <1>6, <2>1, <2>2, <2>3
<1>7. ASSUME NEW i \in DOMAIN tasks'
      PROVE  /\ tasks'[i].pr <=> i \in DOMAIN prs' /\ prs'[i].state = "open"
             /\ SprintOf[i] \in DOMAIN sprints'
             /\ \A d \in tasks'[i].deps : d \in DOMAIN tasks' /\ SprintOf[d] = SprintOf[i]
  <2>1. CASE New(i)
    <3>1. i \in DOMAIN prs' <=> r.pulls[i].state # "none"
      BY <1>1, <1>4, <2>1 DEF PullsAfter
    <3>2. i \in DOMAIN prs' => prs'[i] = r.pulls[i]
      BY <1>1, <2>1
    <3>3. tasks'[i].pr <=> i \in DOMAIN prs' /\ prs'[i].state = "open"
      BY <1>3, <2>1, <3>1, <3>2
    <3>4. \A d \in tasks'[i].deps : d \in IdsOf(r) /\ SprintOf[d] = SprintOf[i]
      BY <1>3, <1>5, <2>1
    <3> QED  BY <1>1, <2>1, <3>3, <3>4
  <2>2. CASE Old(i)
    <3>1. /\ i \in DOMAIN prs' <=> i \in DOMAIN prs
          /\ i \in DOMAIN prs' => prs'[i] = prs[i]
      BY <1>1, <1>4, <2>2 DEF PullsAfter
    <3>2. /\ tasks[i].pr <=> i \in DOMAIN prs /\ prs[i].state = "open"
          /\ SprintOf[i] \in DOMAIN sprints
          /\ \A d \in tasks[i].deps : d \in DOMAIN tasks /\ SprintOf[d] = SprintOf[i]
      BY <2>2 DEF TablesAgree
    <3>3. \A d \in tasks[i].deps : d \notin Stale(r)
      BY <2>2, <3>2 DEF Stale
    <3> QED  BY <1>1, <2>2, <3>1, <3>2, <3>3
  <2> QED  BY <1>2, <2>1, <2>2
<1>8. findings' \union DOMAIN prs' \subseteq DOMAIN tasks'
  <2>1. findings \union DOMAIN prs \subseteq DOMAIN tasks \ Stale(r)
    BY <1>1 DEF Pinned, TablesAgree
  <2>2. \A i \in PullsAfter(r) : i \in IdsOf(r) \/ i \in DOMAIN prs
    BY <1>1 DEF PullsAfter, WellFormed
  <2> QED  BY <1>1, <2>1, <2>2
<1> QED  BY <1>6, <1>7, <1>8 DEF TablesAgree

(* In every reachable state the tables agree.                              *)
THEOREM TablesInvariance == Spec => [](Types /\ TablesAgree)
<1>1. Init => TablesAgree
  <2> SUFFICES ASSUME Init PROVE TablesAgree
    OBVIOUS
  <2>1. /\ DOMAIN tasks = {j \in Range(FirstId) : SprintOf[j] \in Known}
        /\ \A i \in DOMAIN tasks :
             \E k \in Issues : /\ FirstId[k] = i
                               /\ tasks[i] = [num |-> k, ver |-> 0, status |-> "todo", pr |-> FALSE,
                                              deps |-> {FirstId[b] : b \in BlockedBy[k]}]
    BY InitialRows
  <2>2. findings = {} /\ DOMAIN prs = {} /\ DOMAIN sprints = Known
    BY PartialEmpty DEF Init
  <2>3. ASSUME NEW i \in DOMAIN tasks
        PROVE  \E k \in Issues : /\ FirstId[k] = i /\ tasks[i].num = k /\ tasks[i].pr = FALSE
                                 /\ tasks[i].deps = {FirstId[b] : b \in BlockedBy[k]}
    <3> DEFINE ids(k) == {FirstId[b] : b \in BlockedBy[k]}
    <3>1. PICK k \in Issues : /\ FirstId[k] = i
                              /\ tasks[i] = [num |-> k, ver |-> 0, status |-> "todo", pr |-> FALSE,
                                             deps |-> ids(k)]
      BY <2>1
    <3> HIDE DEF ids
    <3>2. tasks[i].num = k /\ tasks[i].pr = FALSE /\ tasks[i].deps = ids(k)
      BY <3>1
    <3> QED  BY <3>1, <3>2 DEF ids
  <2>4. \A i, j \in DOMAIN tasks : tasks[i].num = tasks[j].num => i = j
    <3>1. \A i \in DOMAIN tasks : FirstId[tasks[i].num] = i
      BY <2>3
    <3> QED  BY <3>1
  <2>5. ASSUME NEW i \in DOMAIN tasks, NEW d \in tasks[i].deps
        PROVE  d \in DOMAIN tasks /\ SprintOf[d] = SprintOf[i]
    <3>1. PICK k \in Issues : /\ FirstId[k] = i
                              /\ tasks[i].deps = {FirstId[b] : b \in BlockedBy[k]}
      BY <2>3
    <3>2. PICK b \in BlockedBy[k] : d = FirstId[b]
      BY <2>5, <3>1
    <3>3. b \in Issues /\ SprintOf[d] = SprintOf[i]
      BY <3>1, <3>2, GitHubAssumption
    <3>4. d \in Range(FirstId)
      BY <3>2, <3>3, Names DEF Range
    <3> QED  BY <2>1, <3>3, <3>4
  <2>6. ASSUME NEW i \in DOMAIN tasks
        PROVE  (tasks[i].pr <=> i \in DOMAIN prs /\ prs[i].state = "open") /\ SprintOf[i] \in DOMAIN sprints
    BY <2>1, <2>2, <2>3
  <2> QED  BY <2>2, <2>4, <2>5, <2>6 DEF TablesAgree
<1>2. Types /\ TablesAgree /\ [Next]_vars => TablesAgree'
  <2> SUFFICES ASSUME Types, TablesAgree, [Next]_vars PROVE TablesAgree'
    OBVIOUS
  <2>1. CASE UNCHANGED <<tables, findings>>
    BY <2>1 DEF TablesAgree, tables
  <2>2. ASSUME NEW c \in Callers, Begins(c) \/ Reads(c) \/ Ends(c)
        PROVE  UNCHANGED <<tables, findings>>
    BY <2>2, BeginSteps, ReadSteps, EndSteps
  <2>3. Edits => UNCHANGED <<tables, findings>>
    BY EditSteps, ChangeSteps
  <2>4. ASSUME NEW i \in Worked, Works(i)
        PROVE  TablesAgree'
    <3>1. /\ UNCHANGED <<sprints, prs>> /\ DOMAIN tasks' = DOMAIN tasks
          /\ \A j \in DOMAIN tasks : /\ tasks'[j].num = tasks[j].num /\ tasks'[j].pr = tasks[j].pr
                                     /\ tasks'[j].deps = tasks[j].deps
          /\ findings' \subseteq findings \union DOMAIN tasks
      BY <2>4, WorkSteps
    <3> QED  BY <3>1 DEF TablesAgree
  <2>5. UNCHANGED vars => UNCHANGED <<tables, findings>>
    BY DEF vars
  <2> QED  BY <2>1, <2>2, <2>3, <2>4, <2>5, ApplyAgrees, StepKinds
<1> QED  BY <1>1, <1>2, TypeInvariance, PTL DEF Spec

(* TablesAgree, whatever snapshots have been written in whatever order.    *)
THEOREM TablesAlwaysAgree == Spec => []TablesAgree
BY TablesInvariance, PTL

----------------------------------------------------------------------------
(* Nothing that was read, written or sent is newer than what GitHub has.   *)

ReadBefore(r) ==
  /\ \A s \in DOMAIN r.found : r.found[s] <= Current(s)
  /\ \A k \in DOMAIN r.seen : r.seen[k].ver <= Current(k)
  /\ \A i \in DOMAIN r.pulls : r.pulls[i].ver <= Current(i)

NothingNewer ==
  /\ \A x \in Things : Current(x) <= edits
  /\ \A d \in sent : d.ver <= Current(d.target)
  /\ \A s \in DOMAIN sprints : sprints[s] <= Current(s)
  /\ \A i \in DOMAIN tasks, k \in Issues : tasks[i].num = k => tasks[i].ver <= Current(k)
  /\ \A i \in DOMAIN prs : prs[i].ver <= Current(i)
  /\ \A c \in Callers : ReadBefore(call[c])

(* Versions are numbers.                                                   *)
LEMMA VersionTypes ==
  ASSUME Types
  PROVE  /\ \A x \in Things : Current(x) \in Nat
         /\ edits \in Nat /\ Versions \subseteq Nat
         /\ \A s \in Sprints : Current(s) = sprint[s].ver
         /\ \A k \in Issues : Current(k) = issue[k].ver
         /\ \A i \in Ids : Current(i) = pull[i].ver
         /\ \A d \in sent : d.ver \in Nat /\ d.target \in Things
         /\ DOMAIN sprints \subseteq Sprints /\ \A s \in DOMAIN sprints : sprints[s] \in Nat
         /\ DOMAIN tasks \subseteq Ids
         /\ \A i \in DOMAIN tasks : tasks[i].ver \in Nat /\ tasks[i].num \in Issues
         /\ DOMAIN prs \subseteq Ids /\ \A i \in DOMAIN prs : prs[i].ver \in Nat
<1>1. Versions \subseteq Nat /\ edits \in Nat
  BY Names DEF Types, Versions
<1>2. /\ \A s \in Sprints : Current(s) = sprint[s].ver /\ Current(s) \in Nat
      /\ \A k \in Issues : Current(k) = issue[k].ver /\ Current(k) \in Nat
      /\ \A i \in Ids : Current(i) = pull[i].ver /\ Current(i) \in Nat
  BY <1>1, Names DEF Types, Current, IssueStates, PullStates
<1>3. \A x \in Things : Current(x) \in Nat
  BY <1>2 DEF Things
<1>4. \A d \in sent : d.ver \in Nat /\ d.target \in Things
  BY <1>1 DEF Types, Targets
<1>5. /\ DOMAIN sprints \subseteq Sprints /\ \A s \in DOMAIN sprints : sprints[s] \in Nat
      /\ DOMAIN tasks \subseteq Ids
      /\ \A i \in DOMAIN tasks : tasks[i].ver \in Nat /\ tasks[i].num \in Issues
      /\ DOMAIN prs \subseteq Ids /\ \A i \in DOMAIN prs : prs[i].ver \in Nat
  <2>1. /\ DOMAIN sprints \subseteq Sprints /\ \A s \in DOMAIN sprints : sprints[s] \in Versions
        /\ DOMAIN tasks \subseteq Ids /\ \A i \in DOMAIN tasks : tasks[i] \in TaskRows
        /\ DOMAIN prs \subseteq Ids /\ \A i \in DOMAIN prs : prs[i] \in PullStates
    BY PartialFacts DEF Types
  <2> QED  BY <1>1, <2>1 DEF TaskRows, PullStates
<1> QED  BY <1>1, <1>2, <1>3, <1>4, <1>5

(* What an operation has read has versions that are numbers.               *)
LEMMA ReadTypes ==
  ASSUME Types, NEW r \in CallRecords
  PROVE  /\ DOMAIN r.found \subseteq Sprints /\ \A s \in DOMAIN r.found : r.found[s] \in Nat
         /\ DOMAIN r.seen \subseteq Issues
         /\ \A k \in DOMAIN r.seen : r.seen[k].ver \in Nat /\ r.seen[k] \in IssueStates
         /\ DOMAIN r.pulls \subseteq Ids /\ \A i \in DOMAIN r.pulls : r.pulls[i].ver \in Nat
         /\ r.ver \in Nat
<1>1. Versions \subseteq Nat
  BY VersionTypes
<1>2. /\ r.found \in Partial(Sprints, Versions) /\ r.seen \in Partial(Issues, IssueStates)
      /\ r.pulls \in Partial(Ids, PullStates) /\ r.ver \in Versions
  BY DEF CallRecords
<1>3. /\ DOMAIN r.found \subseteq Sprints /\ \A s \in DOMAIN r.found : r.found[s] \in Versions
      /\ DOMAIN r.seen \subseteq Issues /\ \A k \in DOMAIN r.seen : r.seen[k] \in IssueStates
      /\ DOMAIN r.pulls \subseteq Ids /\ \A i \in DOMAIN r.pulls : r.pulls[i] \in PullStates
  BY <1>2, PartialFacts
<1> QED  BY <1>1, <1>2, <1>3 DEF IssueStates, PullStates

(* Versions only grow.                                                     *)
LEMMA VersionsGrow ==
  ASSUME Types, NothingNewer, [Next]_vars
  PROVE  /\ \A x \in Things : Current(x) <= Current(x)' /\ Current(x)' <= edits'
         /\ \A x \in Things : Current(x)' \in Nat
         /\ \A d \in sent' : d.ver <= Current(d.target)'
<1>1. Types'
  BY StepTypes
<1>2. /\ \A x \in Things : Current(x) \in Nat /\ Current(x) <= edits
      /\ edits \in Nat /\ \A d \in sent : d.ver \in Nat /\ d.target \in Things /\ d.ver <= Current(d.target)
  BY VersionTypes DEF NothingNewer
<1>3. CASE UNCHANGED github
  BY <1>2, <1>3 DEF github, Current
<1>4. CASE Edits
  <2>1. GitHubMoves /\ edits' = edits + 1
    BY <1>4, EditSteps, ChangeSteps
  <2>2. /\ \A x \in Things : Current(x)' \in {Current(x), edits + 1}
        /\ \/ sent' = sent
           \/ \E x \in Things : /\ Current(x)' = edits + 1
                                /\ sent' = sent \union {[target |-> x, ver |-> edits + 1]}
    BY <2>1 DEF GitHubMoves
  <2>3. /\ \A x \in Things : Current(x) <= Current(x)' /\ Current(x)' <= edits'
        /\ \A x \in Things : Current(x)' \in Nat
    BY <1>2, <2>1, <2>2
  <2>4. \A d \in sent : d.ver <= Current(d.target)'
    BY <1>2, <2>3
  <2>5. ASSUME NEW d \in sent' PROVE d.ver <= Current(d.target)'
    BY <1>2, <2>2, <2>3, <2>4
  <2> QED  BY <2>3, <2>5
<1>5. \A c \in Callers : Begins(c) \/ Reads(c) \/ Apply(c) \/ Ends(c) => UNCHANGED github
  BY BeginSteps, ReadSteps, ApplySteps, EndSteps
<1>6. \A i \in Worked : Works(i) => UNCHANGED github
  BY WorkSteps
<1>7. UNCHANGED vars => UNCHANGED github
  BY DEF vars
<1> QED  BY <1>3, <1>4, <1>5, <1>6, <1>7, StepKinds

(* What is no newer than GitHub stays so.                                  *)
LEMMA StillReadBefore ==
  ASSUME Types, NothingNewer, [Next]_vars, NEW r \in CallRecords, ReadBefore(r)
  PROVE  /\ \A s \in DOMAIN r.found : r.found[s] <= Current(s)'
         /\ \A k \in DOMAIN r.seen : r.seen[k].ver <= Current(k)'
         /\ \A i \in DOMAIN r.pulls : r.pulls[i].ver <= Current(i)'
<1>1. \A x \in Things : Current(x) \in Nat /\ Current(x)' \in Nat /\ Current(x) <= Current(x)'
  BY VersionTypes, VersionsGrow
<1> QED  BY <1>1, ReadTypes, Names DEF ReadBefore

(* Reading makes nothing newer than GitHub.                                *)
LEMMA ReadsBefore ==
  ASSUME Types, NothingNewer, NEW c \in Callers, NEW n \in CallRecords, ReadsMore(call[c], n)
  PROVE  ReadBefore(n)
<1> DEFINE r == call[c]
<1>1. ReadBefore(r) /\ r \in CallRecords
  BY DEF NothingNewer, Types
<1>2. /\ DOMAIN n.found \subseteq Sprints /\ DOMAIN n.seen \subseteq Issues
      /\ DOMAIN n.pulls \subseteq Ids
  BY ReadTypes
<1>3. \A s \in DOMAIN n.found : n.found[s] <= Current(s)
  BY <1>1, <1>2, VersionTypes, Names DEF ReadsMore, ReadBefore
<1>4. \A k \in DOMAIN n.seen : n.seen[k].ver <= Current(k)
  BY <1>1, <1>2, VersionTypes, Names DEF ReadsMore, ReadBefore
<1>5. \A i \in DOMAIN n.pulls : n.pulls[i].ver <= Current(i)
  BY <1>1, <1>2, VersionTypes, Names DEF ReadsMore, ReadBefore
<1> QED  BY <1>3, <1>4, <1>5 DEF ReadBefore

(* Every step keeps what is known no newer than GitHub.                    *)
LEMMA StepNothingNewer ==
  ASSUME Types, NothingNewer, [Next]_vars
  PROVE  NothingNewer'
<1>1. /\ \A x \in Things : Current(x) <= Current(x)' /\ Current(x)' <= edits'
      /\ \A x \in Things : Current(x) \in Nat /\ Current(x)' \in Nat
      /\ \A d \in sent' : d.ver <= Current(d.target)'
  BY VersionTypes, VersionsGrow
<1>2. /\ \A s \in DOMAIN sprints : sprints[s] <= Current(s)'
      /\ \A i \in DOMAIN tasks, k \in Issues : tasks[i].num = k => tasks[i].ver <= Current(k)'
      /\ \A i \in DOMAIN prs : prs[i].ver <= Current(i)'
  <2>1. ASSUME NEW x \in Things, NEW v \in Nat, v <= Current(x)
        PROVE  v <= Current(x)'
    BY <1>1, <2>1
  <2>2. \A s \in DOMAIN sprints : s \in Things /\ sprints[s] \in Nat /\ sprints[s] <= Current(s)
    BY VersionTypes, Names DEF NothingNewer
  <2>3. \A i \in DOMAIN tasks, k \in Issues :
          tasks[i].num = k => k \in Things /\ tasks[i].ver \in Nat /\ tasks[i].ver <= Current(k)
    BY VersionTypes, Names DEF NothingNewer
  <2>4. \A i \in DOMAIN prs : i \in Things /\ prs[i].ver \in Nat /\ prs[i].ver <= Current(i)
    BY VersionTypes, Names DEF NothingNewer
  <2> QED  BY <2>1, <2>2, <2>3, <2>4
<1>3. ASSUME NEW c \in Callers, Apply(c)
      PROVE  /\ \A s \in DOMAIN sprints' : sprints'[s] <= Current(s)'
             /\ \A i \in DOMAIN tasks', k \in Issues : tasks'[i].num = k => tasks'[i].ver <= Current(k)'
             /\ \A i \in DOMAIN prs' : prs'[i].ver <= Current(i)'
  <2> DEFINE r == call[c]
  <2>1. /\ r \in CallRecords /\ Progress(r) /\ r.at = "apply" /\ WellFormed(r)
        /\ DOMAIN sprints' = DOMAIN sprints \union r.scope
        /\ \A s \in DOMAIN sprints' : sprints'[s] = IF s \in r.scope THEN r.found[s] ELSE sprints[s]
        /\ DOMAIN prs' = PullsAfter(r)
        /\ \A i \in DOMAIN prs' : prs'[i] = IF SprintOf[i] \in r.scope THEN r.pulls[i] ELSE prs[i]
    BY <1>3, ApplySteps
  <2>2. ReadBefore(r)
    BY DEF NothingNewer
  <2>3. r.scope \subseteq DOMAIN r.found /\ DOMAIN r.pulls = Ids
    BY <2>1, WrittenFacts
  <2>4. \A i \in DOMAIN tasks' :
          \/ tasks'[i].num \in DOMAIN r.seen /\ tasks'[i].ver = r.seen[tasks'[i].num].ver
          \/ i \in DOMAIN tasks /\ tasks'[i] = tasks[i]
    BY <1>3, RowsWritten
  <2>5. \A i \in PullsAfter(r) : i \in Ids /\ (SprintOf[i] \in r.scope \/ i \in DOMAIN prs)
    BY DEF PullsAfter
  <2> HIDE DEF r
  <2>6. /\ \A s \in DOMAIN r.found : r.found[s] <= Current(s)'
        /\ \A k \in DOMAIN r.seen : r.seen[k].ver <= Current(k)'
        /\ \A i \in DOMAIN r.pulls : r.pulls[i].ver <= Current(i)'
    BY <2>1, <2>2, StillReadBefore
  <2>7. \A s \in DOMAIN sprints' : sprints'[s] <= Current(s)'
    BY <1>2, <2>1, <2>3, <2>6
  <2>8. \A i \in DOMAIN tasks', k \in Issues : tasks'[i].num = k => tasks'[i].ver <= Current(k)'
    BY <1>2, <2>4, <2>6
  <2>9. \A i \in DOMAIN prs' : prs'[i].ver <= Current(i)'
    BY <1>2, <2>1, <2>3, <2>5, <2>6
  <2> QED  BY <2>7, <2>8, <2>9
<1>4. ASSUME NEW i \in Worked, Works(i)
      PROVE  /\ \A s \in DOMAIN sprints' : sprints'[s] <= Current(s)'
             /\ \A j \in DOMAIN tasks', k \in Issues : tasks'[j].num = k => tasks'[j].ver <= Current(k)'
             /\ \A j \in DOMAIN prs' : prs'[j].ver <= Current(j)'
  <2>1. /\ UNCHANGED <<github, sprints, prs>> /\ DOMAIN tasks' = DOMAIN tasks
        /\ \A j \in DOMAIN tasks : tasks'[j].num = tasks[j].num /\ tasks'[j].ver = tasks[j].ver
    BY <1>4, WorkSteps
  <2> QED  BY <1>2, <2>1
<1>5. \/ UNCHANGED tables
      \/ \E c \in Callers : Apply(c)
      \/ \E i \in Worked : Works(i)
  <2>1. \A c \in Callers : Begins(c) \/ Reads(c) \/ Ends(c) => UNCHANGED tables
    BY BeginSteps, ReadSteps, EndSteps
  <2>2. Edits => UNCHANGED tables
    BY EditSteps, ChangeSteps
  <2>3. UNCHANGED vars => UNCHANGED tables
    BY DEF vars
  <2> QED  BY <2>1, <2>2, <2>3, StepKinds
<1>6. /\ \A s \in DOMAIN sprints' : sprints'[s] <= Current(s)'
      /\ \A i \in DOMAIN tasks', k \in Issues : tasks'[i].num = k => tasks'[i].ver <= Current(k)'
      /\ \A i \in DOMAIN prs' : prs'[i].ver <= Current(i)'
  BY <1>2, <1>3, <1>4, <1>5 DEF tables
<1>7. ASSUME NEW c \in Callers
      PROVE  \E n \in CallRecords : /\ ReadBefore(n) /\ call'[c].found = n.found
                                    /\ call'[c].seen = n.seen /\ call'[c].pulls = n.pulls
  <2>1. call[c] \in CallRecords /\ ReadBefore(call[c]) /\ call \in [Callers -> CallRecords]
    BY DEF NothingNewer, Types
  <2>2. Idle \in CallRecords /\ ReadBefore(Idle)
    BY IdleFacts DEF ReadBefore
  <2>3. ASSUME NEW d \in Callers, Begins(d)
        PROVE  \E n \in CallRecords : call' = [call EXCEPT ![d] = n] /\ ReadBefore(n)
    <3>1. PICK n \in CallRecords, x \in Subjects, v \in Versions :
            HasBegun(n, n.op, x, v) /\ call' = [call EXCEPT ![d] = n]
      BY <2>3, BeginRecords, Zenon
    <3>2. DOMAIN n.found = {} /\ DOMAIN n.seen = {} /\ DOMAIN n.pulls = {}
      BY <3>1 DEF HasBegun
    <3> QED  BY <3>1, <3>2 DEF ReadBefore
  <2>4. ASSUME NEW d \in Callers, Reads(d)
        PROVE  \E n \in CallRecords : call' = [call EXCEPT ![d] = n] /\ ReadBefore(n)
    BY <2>4, ReadSteps, ReadsBefore
  <2>5. ASSUME NEW d \in Callers, Apply(d) \/ Ends(d)
        PROVE  call' = [call EXCEPT ![d] = Idle]
    BY <2>5, ApplySteps, EndSteps
  <2>6. ASSUME NEW d \in Callers, NEW n \in CallRecords, ReadBefore(n), call' = [call EXCEPT ![d] = n]
        PROVE  \E m \in CallRecords : ReadBefore(m) /\ call'[c] = m
    BY <2>1, <2>6
  <2>7. Edits => Disturbed(call[c], call'[c])
    BY EditSteps, ChangeSteps
  <2>8. \A i \in Worked : Works(i) => call' = call
    BY WorkSteps
  <2>9. UNCHANGED vars => call' = call
    BY DEF vars
  <2>10. CASE \E d \in Callers : Begins(d) \/ Reads(d) \/ Apply(d) \/ Ends(d)
    BY <2>2, <2>3, <2>4, <2>5, <2>6, <2>10
  <2>11. CASE Edits
    BY <2>1, <2>7, <2>11 DEF Disturbed
  <2>12. CASE call' = call
    BY <2>1, <2>12
  <2> QED  BY <2>8, <2>9, <2>10, <2>11, <2>12, StepKinds
<1>8. ASSUME NEW c \in Callers PROVE ReadBefore(call[c])'
  <2>1. PICK n \in CallRecords : /\ ReadBefore(n) /\ call'[c].found = n.found
                                 /\ call'[c].seen = n.seen /\ call'[c].pulls = n.pulls
    BY <1>7
  <2>2. /\ \A s \in DOMAIN n.found : n.found[s] <= Current(s)'
        /\ \A k \in DOMAIN n.seen : n.seen[k].ver <= Current(k)'
        /\ \A i \in DOMAIN n.pulls : n.pulls[i].ver <= Current(i)'
    BY <2>1, StillReadBefore
  <2> QED  BY <2>1, <2>2 DEF ReadBefore
<1> QED  BY <1>1, <1>6, <1>8 DEF NothingNewer

----------------------------------------------------------------------------
(* The holder of the lock.                                                 *)

(* What r has read is at least as new as the tables and as its delivery,   *)
(* and it reads the sprints that the tables know of its target.            *)
ReadsNewer(r) ==
  /\ \A s \in DOMAIN r.found : /\ s \in DOMAIN sprints => sprints[s] <= r.found[s]
                               /\ s = r.target => r.ver <= r.found[s]
  /\ \A k \in DOMAIN r.seen :
       /\ \A i \in DOMAIN tasks : tasks[i].num = k => tasks[i].ver <= r.seen[k].ver
       /\ k = r.target => r.ver <= r.seen[k].ver
  /\ r.at = "apply" =>
       \A i \in Ids : /\ i \in DOMAIN prs => prs[i].ver <= r.pulls[i].ver
                      /\ i = r.target => r.ver <= r.pulls[i].ver
  /\ TrackedSprints(r.target) \subseteq r.scope
  /\ r.at = "list" /\ r.target \in Ids => TrackedSprints(r.target) = {}

LockInv ==
  /\ \A c \in Callers : (lock = c) <=> (call[c].op = "webhook")
  /\ \A c \in Callers : lock = c => ReadsNewer(call[c])

(* While a webhook holds the lock nobody writes the tables, and nobody     *)
(* else changes what it has read.                                          *)
LEMMA WhileLocked ==
  ASSUME Types, LockInv, [Next]_vars, NEW c \in Callers, lock = c, lock' = c
  PROVE  /\ UNCHANGED tables
         /\ Reads(c) \/ Disturbed(call[c], call'[c]) \/ call'[c] = call[c]
<1>1. /\ call \in [Callers -> CallRecords] /\ c # None /\ None \notin Callers
      /\ call[c].op = "webhook" /\ call[c].at # "idle"
  BY Names DEF Types, LockInv, Progress
<1>2. ASSUME NEW d \in Callers, Begins(d)
      PROVE  UNCHANGED tables /\ call'[c] = call[c]
  <2>1. PICK n \in CallRecords, x \in Subjects, v \in Versions :
          /\ call[d].at = "idle" /\ call' = [call EXCEPT ![d] = n]
          /\ UNCHANGED <<github, tables, findings, events>>
    BY <1>2, BeginRecords, Zenon
  <2> QED  BY <1>1, <2>1
<1>3. ASSUME NEW d \in Callers, Reads(d)
      PROVE  UNCHANGED tables /\ (Reads(c) \/ call'[c] = call[c])
  <2>1. UNCHANGED tables /\ \E n \in CallRecords : call' = [call EXCEPT ![d] = n]
    BY <1>3, ReadSteps
  <2> QED  BY <1>1, <1>3, <2>1
<1>4. ASSUME NEW d \in Callers, Apply(d)
      PROVE  FALSE
  <2>1. lock \in {None, d} /\ lock' = IF lock = d THEN None ELSE lock
    BY <1>4, ApplySteps
  <2> QED  BY <1>1, <2>1
<1>5. ASSUME NEW d \in Callers, Ends(d)
      PROVE  UNCHANGED tables /\ call'[c] = call[c]
  <2>1. /\ call' = [call EXCEPT ![d] = Idle] /\ lock' = IF lock = d THEN None ELSE lock
        /\ UNCHANGED tables
    BY <1>5, EndSteps
  <2> QED  BY <1>1, <2>1
<1>6. \A i \in Worked : ~Works(i)
  BY <1>1, WorkSteps
<1>7. Edits => UNCHANGED tables /\ Disturbed(call[c], call'[c])
  BY EditSteps, ChangeSteps
<1>8. UNCHANGED vars => UNCHANGED tables /\ call'[c] = call[c]
  BY DEF vars
<1> QED  BY <1>2, <1>3, <1>4, <1>5, <1>6, <1>7, <1>8, StepKinds

(* A caller takes the lock when its webhook begins, and only then is an    *)
(* operation a webhook.                                                    *)
LEMMA LockHeld ==
  ASSUME Types, LockInv, [Next]_vars, NEW c \in Callers
  PROVE  /\ (lock' = c) <=> (call'[c].op = "webhook")
         /\ lock' = c /\ lock # c => Begins(c)
<1>1. /\ call \in [Callers -> CallRecords] /\ None \notin Callers
      /\ \A d \in Callers : (lock = d) <=> (call[d].op = "webhook")
  BY Names DEF Types, LockInv
<1>2. ASSUME NEW d \in Callers, Begins(d)
      PROVE  /\ (lock' = c) <=> (call'[c].op = "webhook")
             /\ lock' = c /\ lock # c => Begins(c)
  <2>1. PICK n \in CallRecords, x \in Subjects, v \in Versions :
          /\ call[d].at = "idle" /\ call' = [call EXCEPT ![d] = n]
          /\ n.op = "webhook" => Delivery(n) \in sent /\ lock = None /\ lock' = d
          /\ n.op # "webhook" => lock' = lock
    BY <1>2, BeginRecords, Zenon
  <2>2. call[d].op = "none"
    BY <2>1 DEF Types, Progress
  <2> QED  BY <1>1, <1>2, <2>1, <2>2
<1>3. ASSUME NEW d \in Callers, Reads(d)
      PROVE  lock' = lock /\ call'[c].op = call[c].op
  <2>1. lock' = lock /\ \E n \in CallRecords : call' = [call EXCEPT ![d] = n] /\ n.op = call[d].op
    BY <1>3, ReadSteps DEF ReadsMore
  <2> QED  BY <1>1, <2>1
<1>4. ASSUME NEW d \in Callers, Apply(d) \/ Ends(d)
      PROVE  /\ (lock' = c) <=> (call'[c].op = "webhook")
             /\ lock' = c => lock = c
  <2>1. call' = [call EXCEPT ![d] = Idle] /\ lock' = IF lock = d THEN None ELSE lock
    BY <1>4, ApplySteps, EndSteps
  <2> QED  BY <1>1, <2>1, IdleFacts
<1>5. \A i \in Worked : Works(i) => lock' = lock /\ call' = call
  BY WorkSteps
<1>6. Edits => lock' = lock /\ call'[c].op = call[c].op
  BY EditSteps, ChangeSteps DEF Disturbed
<1>7. UNCHANGED vars => lock' = lock /\ call' = call
  BY DEF vars
<1> QED  BY <1>1, <1>2, <1>3, <1>4, <1>5, <1>6, <1>7, StepKinds

(* What a webhook reads is at least as new as the tables, its delivery and *)
(* what it has read.                                                       *)
LEMMA HolderReads ==
  ASSUME Types, NothingNewer, LockInv, NEW c \in Callers, lock = c,
         NEW n \in CallRecords, ReadsMore(call[c], n), Progress(n)
  PROVE  ReadsNewer(n)
<1> DEFINE r == call[c]
<1>1. /\ r \in CallRecords /\ Progress(r) /\ Delivered(r) /\ ReadsNewer(r) /\ r.op = "webhook"
      /\ n.target = r.target /\ n.ver = r.ver /\ n.target \in Things
  BY DEF Types, LockInv, ReadsMore, Progress
<1>2. r.ver <= Current(r.target)
  <2>1. Delivery(r) \in sent /\ Delivery(r).ver = r.ver /\ Delivery(r).target = r.target
    BY <1>1 DEF Delivered, Delivery
  <2> QED  BY <2>1 DEF NothingNewer
<1>3. /\ DOMAIN n.found \subseteq Sprints /\ DOMAIN n.seen \subseteq Issues
      /\ n.ver \in Nat
  BY ReadTypes
<1>4. \A s \in DOMAIN n.found : /\ s \in DOMAIN sprints => sprints[s] <= n.found[s]
                                /\ s = n.target => n.ver <= n.found[s]
  <2> TAKE s \in DOMAIN n.found
  <2>1. CASE s \in DOMAIN r.found /\ n.found[s] = r.found[s]
    BY <1>1, <2>1 DEF ReadsNewer
  <2>2. CASE n.found[s] = sprint[s].ver
    <3>1. n.found[s] = Current(s)
      BY <1>3, <2>2, VersionTypes
    <3> QED  BY <1>1, <1>2, <3>1 DEF NothingNewer
  <2> QED  BY <2>1, <2>2 DEF ReadsMore
<1>5. \A k \in DOMAIN n.seen :
        /\ \A i \in DOMAIN tasks : tasks[i].num = k => tasks[i].ver <= n.seen[k].ver
        /\ k = n.target => n.ver <= n.seen[k].ver
  <2> TAKE k \in DOMAIN n.seen
  <2>1. CASE k \in DOMAIN r.seen /\ n.seen[k] = r.seen[k]
    BY <1>1, <2>1 DEF ReadsNewer
  <2>2. CASE n.seen[k] = issue[k]
    <3>1. n.seen[k].ver = Current(k) /\ k \in Issues
      BY <1>3, <2>2, VersionTypes
    <3> QED  BY <1>1, <1>2, <3>1 DEF NothingNewer
  <2> QED  BY <2>1, <2>2 DEF ReadsMore
<1>6. n.at = "apply" =>
        \A i \in Ids : /\ i \in DOMAIN prs => prs[i].ver <= n.pulls[i].ver
                       /\ i = n.target => n.ver <= n.pulls[i].ver
  <2> SUFFICES ASSUME n.at = "apply", NEW i \in Ids
               PROVE  /\ i \in DOMAIN prs => prs[i].ver <= n.pulls[i].ver
                      /\ i = n.target => n.ver <= n.pulls[i].ver
    OBVIOUS
  <2>1. n.pulls[i].ver = Current(i)
    BY VersionTypes DEF ReadsMore
  <2> QED  BY <1>1, <1>2, <2>1 DEF NothingNewer
<1>7. TrackedSprints(n.target) \subseteq n.scope
  <2>1. /\ TrackedSprints(r.target) \subseteq r.scope
        /\ r.at = "list" /\ r.target \in Ids => TrackedSprints(r.target) = {}
    BY <1>1 DEF ReadsNewer
  <2> QED  BY <1>1, <2>1, Names DEF ReadsMore, LooksFurther
<1>8. n.at # "list"
  BY DEF ReadsMore
<1> QED  BY <1>4, <1>5, <1>6, <1>7, <1>8 DEF ReadsNewer

(* Every step keeps the lock with its webhook, and what that has read new. *)
LEMMA StepLock ==
  ASSUME Types, NothingNewer, LockInv, [Next]_vars
  PROVE  LockInv'
<1>1. ASSUME NEW c \in Callers, lock' = c
      PROVE  ReadsNewer(call[c])'
  <2>1. CASE lock # c
    <3>1. PICK n \in CallRecords, x \in Subjects, v \in Versions :
            /\ HasBegun(n, n.op, x, v)
            /\ call[c].at = "idle" /\ call' = [call EXCEPT ![c] = n]
            /\ UNCHANGED <<github, tables, findings, events>>
      <4>1. Begins(c)
        BY <1>1, <2>1, LockHeld
      <4> QED  BY <4>1, BeginRecords, Zenon
    <3>2. call'[c] = n /\ n.op = "webhook"
      BY <1>1, <3>1, LockHeld DEF Types
    <3>3. n.target = x /\ x \in Things /\ x # None
      BY <3>1, <3>2, Names DEF HasBegun, Progress
    <3>4. /\ DOMAIN n.found = {} /\ DOMAIN n.seen = {} /\ n.at \in {"list", "read"}
          /\ n.scope = TrackedSprints(x)
          /\ n.at = "list" <=> ~(x \in Sprints \/ (x \in Ids /\ TrackedSprints(x) # {}))
      BY <3>1, <3>3 DEF HasBegun
    <3>5. TrackedSprints(x)' = TrackedSprints(x)
      BY <3>1 DEF TrackedSprints, tables
    <3> QED  BY <3>2, <3>3, <3>4, <3>5 DEF ReadsNewer, TrackedSprints
  <2>2. CASE lock = c
    <3>1. /\ UNCHANGED tables
          /\ Reads(c) \/ Disturbed(call[c], call'[c]) \/ call'[c] = call[c]
      BY <1>1, <2>2, WhileLocked
    <3>2. ReadsNewer(call[c])
      BY <2>2 DEF LockInv
    <3>3. ReadsNewer(call'[c])
      <4>1. ASSUME Reads(c) PROVE ReadsNewer(call'[c])
        <5>1. PICK n \in CallRecords : /\ call' = [call EXCEPT ![c] = n]
                                       /\ ReadsMore(call[c], n) /\ Progress(n)
          BY <4>1, ReadSteps
        <5>2. call'[c] = n
          BY <5>1 DEF Types
        <5> QED  BY <2>2, <5>1, <5>2, HolderReads
      <4>2. ASSUME Disturbed(call[c], call'[c]) PROVE ReadsNewer(call'[c])
        BY <3>2, <4>2 DEF Disturbed, ReadsNewer
      <4> QED  BY <3>1, <3>2, <4>1, <4>2
    <3> QED  BY <3>1, <3>3 DEF ReadsNewer, TrackedSprints, tables
  <2> QED  BY <2>1, <2>2
<1> QED  BY <1>1, LockHeld DEF LockInv


(* In every reachable state the tables agree, nothing is newer than GitHub *)
(* and the holder of the lock has read nothing older than the tables.      *)
THEOREM LockInvariance == Spec => [](Types /\ TablesAgree /\ NothingNewer /\ LockInv)
<1>1. Init => NothingNewer /\ LockInv
  <2> SUFFICES ASSUME Init PROVE NothingNewer /\ LockInv
    OBVIOUS
  <2>1. /\ sprint = [s \in Sprints |-> [open |-> TRUE, ver |-> 0]]
        /\ issue = [k \in Issues |-> [id |-> FirstId[k], open |-> TRUE, ver |-> 0]]
        /\ pull = [i \in Ids |-> [state |-> "none", ver |-> 0]]
        /\ sprints = [s \in Known |-> 0] /\ sent = {} /\ DOMAIN prs = {} /\ lock = None
        /\ call = [c \in Callers |-> Idle] /\ edits = 0
    BY PartialEmpty DEF Init
  <2>2. \A x \in Things : Current(x) = 0
    BY <2>1, Names DEF Current, Things
  <2>3. \A i \in DOMAIN tasks : tasks[i].ver = 0
    <3> TAKE i \in DOMAIN tasks
    <3> DEFINE ids(k) == {FirstId[b] : b \in BlockedBy[k]}
    <3>1. PICK k \in Issues : tasks[i] = [num |-> k, ver |-> 0, status |-> "todo", pr |-> FALSE,
                                          deps |-> ids(k)]
      BY InitialRows
    <3> QED  BY <3>1
  <2>4. \A c \in Callers : ReadBefore(call[c]) /\ call[c].op = "none" /\ c # None
    BY <2>1, IdleFacts, Names DEF ReadBefore
  <2>5. \A s \in DOMAIN sprints : s \in Things /\ sprints[s] = 0
    BY <2>1, GitHubAssumption, Names
  <2>6. NothingNewer
    BY <2>1, <2>2, <2>3, <2>4, <2>5, Names DEF NothingNewer
  <2> QED  BY <2>1, <2>4, <2>6 DEF LockInv
<1>2. Types /\ NothingNewer /\ LockInv /\ [Next]_vars => NothingNewer' /\ LockInv'
  BY StepNothingNewer, StepLock
<1> QED  BY <1>1, <1>2, TablesInvariance, PTL DEF Spec

(* What the tables show of a thing, before and after a step.               *)
LEMMA ShownFacts ==
  ASSUME Types, Types', NEW x \in Things
  PROVE  /\ \A v \in Shown(x) :
              /\ v \in Nat
              /\ \/ x \in Sprints /\ x \in DOMAIN sprints /\ v = sprints[x]
                 \/ x \in Issues /\ \E j \in DOMAIN tasks : tasks[j].num = x /\ v = tasks[j].ver
                 \/ x \in Ids /\ x \in DOMAIN prs /\ v = prs[x].ver
         /\ \A v \in Shown(x)' :
              /\ v \in Nat
              /\ \/ x \in Sprints /\ x \in DOMAIN sprints' /\ v = sprints'[x]
                 \/ x \in Issues /\ \E j \in DOMAIN tasks' : tasks'[j].num = x /\ v = tasks'[j].ver
                 \/ x \in Ids /\ x \in DOMAIN prs' /\ v = prs'[x].ver
<1>1. Versions \subseteq Nat
  BY VersionTypes
<1>2. /\ DOMAIN sprints \subseteq Sprints /\ \A s \in DOMAIN sprints : sprints[s] \in Nat
      /\ \A i \in DOMAIN tasks : tasks[i].ver \in Nat /\ tasks[i].num \in Issues
      /\ DOMAIN prs \subseteq Ids /\ \A i \in DOMAIN prs : prs[i].ver \in Nat
  BY VersionTypes
<1>3. /\ DOMAIN sprints' \subseteq Sprints /\ \A s \in DOMAIN sprints' : sprints'[s] \in Nat
      /\ \A i \in DOMAIN tasks' : tasks'[i].ver \in Nat /\ tasks'[i].num \in Issues
      /\ DOMAIN prs' \subseteq Ids /\ \A i \in DOMAIN prs' : prs'[i].ver \in Nat
  <2>1. /\ DOMAIN sprints' \subseteq Sprints /\ \A s \in DOMAIN sprints' : sprints'[s] \in Versions
        /\ \A i \in DOMAIN tasks' : tasks'[i] \in TaskRows
        /\ DOMAIN prs' \subseteq Ids /\ \A i \in DOMAIN prs' : prs'[i] \in PullStates
    BY PartialFacts DEF Types
  <2> QED  BY <1>1, <2>1 DEF TaskRows, PullStates
<1>4. ASSUME NEW v \in Shown(x)
      PROVE  /\ v \in Nat
             /\ \/ x \in Sprints /\ x \in DOMAIN sprints /\ v = sprints[x]
                \/ x \in Issues /\ \E j \in DOMAIN tasks : tasks[j].num = x /\ v = tasks[j].ver
                \/ x \in Ids /\ x \in DOMAIN prs /\ v = prs[x].ver
  BY <1>2, <1>4 DEF Shown
<1>5. ASSUME NEW v \in Shown(x)'
      PROVE  /\ v \in Nat
             /\ \/ x \in Sprints /\ x \in DOMAIN sprints' /\ v = sprints'[x]
                \/ x \in Issues /\ \E j \in DOMAIN tasks' : tasks'[j].num = x /\ v = tasks'[j].ver
                \/ x \in Ids /\ x \in DOMAIN prs' /\ v = prs'[x].ver
  BY <1>3, <1>5 DEF Shown
<1> QED  BY <1>4, <1>5

(* A webhook that writes replaces nothing by an older state of it, and the *)
(* tables show what it tells of or something newer.                        *)
LEMMA WebhookWrites ==
  ASSUME Types, Types', TablesAgree, LockInv, NEW c \in Callers, Apply(c), call[c].op = "webhook",
         NEW x \in Things, NEW w \in Shown(x)'
  PROVE  /\ \A v \in Shown(x) : v <= w
         /\ x = call[c].target => call[c].ver <= w
<1> DEFINE r == call[c]
<1>1. /\ r \in CallRecords /\ Progress(r) /\ r.at = "apply" /\ WellFormed(r) /\ ReadsNewer(r)
      /\ DOMAIN sprints' = DOMAIN sprints \union r.scope
      /\ \A s \in DOMAIN sprints' : sprints'[s] = IF s \in r.scope THEN r.found[s] ELSE sprints[s]
      /\ DOMAIN prs' = PullsAfter(r)
      /\ \A i \in DOMAIN prs' : prs'[i] = IF SprintOf[i] \in r.scope THEN r.pulls[i] ELSE prs[i]
  <2>1. lock = c
    BY DEF LockInv
  <2> QED  BY <2>1, ApplySteps DEF LockInv
<1>2. w \in Nat /\ \A v \in Shown(x) : v \in Nat
  BY ShownFacts
<1>3. CASE x \in Sprints
  <2>1. x \in DOMAIN sprints' /\ w = sprints'[x]
    BY <1>3, ShownFacts, Names
  <2>2. \A v \in Shown(x) : x \in DOMAIN sprints /\ v = sprints[x]
    BY <1>3, ShownFacts, Names
  <2>3. CASE x \in r.scope
    <3>1. w = r.found[x] /\ x \in DOMAIN r.found
      BY <1>1, <2>1, <2>3, WrittenFacts
    <3> QED  BY <1>1, <2>2, <3>1 DEF ReadsNewer
  <2>4. CASE x \notin r.scope
    <3>1. w = sprints[x] /\ x # r.target
      BY <1>1, <1>3, <2>1, <2>4, Names DEF ReadsNewer, TrackedSprints
    <3> QED  BY <1>2, <2>2, <3>1
  <2> QED  BY <2>3, <2>4
<1>4. CASE x \in Issues
  <2>1. PICK i \in DOMAIN tasks' : tasks'[i].num = x /\ w = tasks'[i].ver
    BY <1>4, ShownFacts, Names
  <2>2. \A v \in Shown(x) : \E j \in DOMAIN tasks : tasks[j].num = x /\ v = tasks[j].ver
    BY <1>4, ShownFacts, Names
  <2>3. CASE x \in DOMAIN r.seen /\ w = r.seen[x].ver
    BY <1>1, <2>2, <2>3 DEF ReadsNewer
  <2>4. CASE i \in DOMAIN tasks /\ SprintOf[i] \notin r.scope /\ tasks'[i] = tasks[i]
    <3>1. \A v \in Shown(x) : v = w
      BY <2>1, <2>2, <2>4 DEF TablesAgree
    <3>2. x # r.target
      BY <1>1, <1>4, <2>1, <2>4, Names DEF ReadsNewer, TrackedSprints
    <3> QED  BY <1>2, <3>1, <3>2
  <2> QED  BY <2>1, <2>3, <2>4, RowsWritten
<1>5. CASE x \in Ids
  <2>1. x \in PullsAfter(r) /\ w = prs'[x].ver
    BY <1>1, <1>5, ShownFacts, Names
  <2>2. \A v \in Shown(x) : x \in DOMAIN prs /\ v = prs[x].ver
    BY <1>5, ShownFacts, Names
  <2>3. CASE SprintOf[x] \in r.scope
    <3>1. w = r.pulls[x].ver
      BY <1>1, <2>1, <2>3
    <3> QED  BY <1>1, <1>5, <2>2, <3>1 DEF ReadsNewer
  <2>4. CASE SprintOf[x] \notin r.scope
    <3>1. w = prs[x].ver /\ x \in DOMAIN prs
      BY <1>1, <2>1, <2>4 DEF PullsAfter
    <3>2. SprintOf[x] \in DOMAIN sprints
      BY <3>1 DEF TablesAgree
    <3>3. x # r.target
      BY <1>1, <1>5, <2>4, <3>2, Names DEF ReadsNewer, TrackedSprints
    <3> QED  BY <1>2, <2>2, <3>1, <3>3
  <2> QED  BY <2>3, <2>4
<1> QED  BY <1>3, <1>4, <1>5 DEF Things

(* WebhookNeverGoesBack: nothing a webhook writes is older than what it    *)
(* replaces, whoever else synchronises at the same time.                   *)
THEOREM WebhooksNeverGoBack == Spec => WebhookNeverGoesBack
<1>1. ASSUME Types, Types', TablesAgree, LockInv, NEW c \in Callers, Apply(c),
             call[c].op = "webhook"
      PROVE  \A x \in Things : \A v \in Shown(x), w \in Shown(x)' : v <= w
  BY <1>1, WebhookWrites
<1>2. Types /\ Types' /\ TablesAgree /\ LockInv =>
        \A c \in Callers : Apply(c) /\ call[c].op = "webhook" =>
          \A x \in Things : \A v \in Shown(x), w \in Shown(x)' : v <= w
  BY <1>1
<1> QED  BY <1>2, LockInvariance, PTL DEF WebhookNeverGoesBack

(* DeliveryTakesEffect: an event that is committed is one the tables show. *)
THEOREM DeliveriesTakeEffect == Spec => DeliveryTakesEffect
<1>1. ASSUME Types, Types', TablesAgree, LockInv, Next, NEW d \in events' \ events
      PROVE  \A v \in Shown(d.target)' : d.ver <= v
  <2>1. PICK c \in Callers : Apply(c)
    <3>1. \A c \in Callers : Begins(c) \/ Reads(c) \/ Ends(c) => events' = events
      BY <1>1, BeginSteps, ReadSteps, EndSteps
    <3>2. Edits => events' = events
      BY <1>1, EditSteps, ChangeSteps
    <3>3. \A i \in Worked : Works(i) => events' = events
      BY <1>1, WorkSteps
    <3> QED  BY <1>1, <3>1, <3>2, <3>3, StepKinds
  <2>2. call[c].op = "webhook" /\ d = Delivery(call[c]) /\ Progress(call[c])
    <3>1. /\ events' = IF call[c].op = "webhook" THEN events \union {Delivery(call[c])} ELSE events
          /\ Progress(call[c])
      BY <1>1, <2>1, ApplySteps
    <3> QED  BY <1>1, <3>1
  <2>3. d.target = call[c].target /\ d.ver = call[c].ver /\ d.target \in Things
    BY <2>2 DEF Delivery, Progress
  <2> QED  BY <1>1, <2>1, <2>2, <2>3, WebhookWrites
<1>2. Types /\ Types' /\ TablesAgree /\ LockInv /\ Next =>
        \A d \in events' \ events : \A v \in Shown(d.target)' : d.ver <= v
  BY <1>1
<1>3. UNCHANGED vars => \A d \in events' \ events : \A v \in Shown(d.target)' : d.ver <= v
  BY DEF vars
<1> QED  BY <1>2, <1>3, LockInvariance, PTL DEF DeliveryTakesEffect, Spec

----------------------------------------------------------------------------
(* Operations during which GitHub stands still.                            *)

(* What r has read is what GitHub shows, and no open sprint it is about is *)
(* left out.                                                               *)
ReadsExactly(r) ==
  /\ \A s \in DOMAIN r.kids : r.kids[s] = SubIssues(s)
  /\ \A k \in DOMAIN r.seen : r.seen[k] = issue[k]
  /\ r.at = "apply" => r.pulls = pull
  /\ r.at \in {"tasks", "read", "apply"} => Due(r) \subseteq r.scope \union r.todo

QuietInv == \A c \in Callers : call[c].quiet /\ call[c].at # "idle" => ReadsExactly(call[c])

(* An operation that begins has read nothing, and one that skips the       *)
(* search of the open sprints knows the only one it is about.              *)
LEMMA BeginsExactly ==
  ASSUME Types, NEW n, NEW x \in Subjects, NEW v, HasBegun(n, n.op, x, v), x = None <=> n.op = "full"
  PROVE  ReadsExactly(n)
<1>1. /\ n.target = x /\ n.at \in {"list", "read"} /\ DOMAIN n.kids = {} /\ DOMAIN n.seen = {}
      /\ n.scope = IF x = None THEN {} ELSE TrackedSprints(x)
      /\ n.at = "list" <=> ~(x \in Sprints \/ (x \in Ids /\ TrackedSprints(x) # {}))
  BY DEF HasBegun
<1>2. ASSUME n.at = "read", NEW s \in Due(n)
      PROVE  s \in n.scope
  <2>1. x \in Sprints \/ (x \in Ids /\ TrackedSprints(x) # {})
    BY <1>1, <1>2
  <2>2. x # None /\ n.op # "full" /\ x \notin Issues
    BY <2>1, Names
  <2>3. s \in Sprints /\ (x = s \/ (x \in Ids /\ SprintOf[x] = s))
    BY <1>1, <1>2, <2>2 DEF Due, OpenSprints
  <2>4. CASE x \in Sprints
    BY <1>1, <2>2, <2>3, <2>4, Names DEF TrackedSprints
  <2>5. CASE x \in Ids /\ TrackedSprints(x) # {}
    BY <1>1, <2>2, <2>3, <2>5, Names DEF TrackedSprints
  <2> QED  BY <2>1, <2>4, <2>5
<1> QED  BY <1>1, <1>2 DEF ReadsExactly

(* Reading keeps what has been read exact, and finds the sprints that are  *)
(* still to be found.                                                      *)
LEMMA ReadsStayExact ==
  ASSUME Types, NEW r, NEW n, Progress(r), ReadsMore(r, n), ReadsExactly(r)
  PROVE  ReadsExactly(n)
<1>1. Due(n) = Due(r) /\ n.op = r.op /\ n.target = r.target
  BY DEF ReadsMore, Due
<1>2. /\ \A s \in DOMAIN n.kids : n.kids[s] = SubIssues(s)
      /\ \A k \in DOMAIN n.seen : n.seen[k] = issue[k]
      /\ n.at = "apply" => n.pulls = pull
  BY DEF ReadsMore, ReadsExactly
<1>3. ASSUME NEW s \in Due(r)
      PROVE  s \in n.scope \union n.todo
  <2>1. /\ s \in OpenSprints /\ s \in Sprints
        /\ \/ r.op = "full" \/ r.target = s
           \/ r.target \in Issues /\ parent[r.target] = s
           \/ r.target \in Ids /\ SprintOf[r.target] = s
    BY <1>3 DEF Due, OpenSprints
  <2>2. CASE r.at = "list" /\ n.target = None /\ n.scope = OpenSprints
    BY <2>1, <2>2
  <2>3. CASE r.at = "list" /\ n.target \in Ids /\ n.scope = {SprintOf[n.target]} \intersect OpenSprints
    BY <1>1, <2>1, <2>3, Names DEF Progress
  <2>4. CASE r.at = "list" /\ n.target \in Issues /\ n.todo = OpenSprints
    BY <2>1, <2>4
  <2>5. CASE /\ r.at # "list" /\ r.scope \subseteq n.scope
             /\ \A q \in r.todo : q \in n.todo \union n.scope \/ parent[n.target] # q
    <3>1. s \in r.scope \union r.todo
      BY <1>3, <2>5 DEF ReadsMore, ReadsExactly
    <3>2. ASSUME s \in r.todo PROVE parent[r.target] = s
      BY <2>1, <3>2, Names DEF Progress
    <3> QED  BY <1>1, <2>5, <3>1, <3>2
  <2> QED  BY <2>2, <2>3, <2>4, <2>5 DEF ReadsMore, LooksFurther
<1> QED  BY <1>1, <1>2, <1>3 DEF ReadsExactly

(* Every step keeps quiet operations exact: a change on GitHub ends their  *)
(* being quiet.                                                            *)
LEMMA StepQuiet ==
  ASSUME Types, QuietInv, [Next]_vars
  PROVE  QuietInv'
<1> SUFFICES ASSUME NEW c \in Callers, call'[c].quiet, call'[c].at # "idle"
             PROVE  ReadsExactly(call[c])'
  BY DEF QuietInv
<1>1. call \in [Callers -> CallRecords] /\ Progress(call[c])
  BY DEF Types
<1>2. ASSUME UNCHANGED github, ReadsExactly(call'[c])
      PROVE  ReadsExactly(call[c])'
  BY <1>2 DEF ReadsExactly, github, SubIssues, Due, OpenSprints
<1>3. ASSUME call'[c] = call[c]
      PROVE  ReadsExactly(call'[c])
  BY <1>3 DEF QuietInv
<1>4. ASSUME NEW d \in Callers, Begins(d)
      PROVE  ReadsExactly(call'[c]) /\ UNCHANGED github
  <2>1. PICK n \in CallRecords, x \in Subjects, v \in Versions :
          /\ HasBegun(n, n.op, x, v)
          /\ x = None <=> n.op = "full"
          /\ call' = [call EXCEPT ![d] = n]
          /\ UNCHANGED <<github, tables, findings, events>>
    BY <1>4, BeginRecords, Zenon
  <2>2. ReadsExactly(n)
    BY <2>1, BeginsExactly
  <2>3. call'[c] = n \/ call'[c] = call[c]
    BY <1>1, <2>1
  <2> QED  BY <1>3, <2>1, <2>2, <2>3
<1>5. ASSUME NEW d \in Callers, Reads(d)
      PROVE  ReadsExactly(call'[c]) /\ UNCHANGED github
  <2>1. /\ \E n \in CallRecords : call' = [call EXCEPT ![d] = n] /\ ReadsMore(call[d], n)
        /\ UNCHANGED github
    BY <1>5, ReadSteps
  <2>2. PICK n \in CallRecords : call' = [call EXCEPT ![d] = n] /\ ReadsMore(call[d], n)
    BY <2>1
  <2>3. CASE d = c
    <3>1. call'[c] = n /\ ReadsMore(call[c], n)
      BY <1>1, <2>2, <2>3
    <3>2. call[c].quiet /\ call[c].at # "idle"
      BY <3>1 DEF ReadsMore
    <3> QED  BY <1>1, <2>1, <3>1, <3>2, ReadsStayExact DEF QuietInv
  <2>4. CASE d # c
    BY <1>1, <1>3, <2>1, <2>2, <2>4
  <2> QED  BY <2>3, <2>4
<1>6. ASSUME NEW d \in Callers, Apply(d) \/ Ends(d)
      PROVE  ReadsExactly(call'[c]) /\ UNCHANGED github
  <2>1. call' = [call EXCEPT ![d] = Idle] /\ UNCHANGED github
    BY <1>6, ApplySteps, EndSteps
  <2>2. call'[c] = call[c]
    BY <1>1, <2>1, IdleFacts
  <2> QED  BY <1>3, <2>1, <2>2
<1>7. ASSUME NEW i \in Worked, Works(i)
      PROVE  call' = call /\ UNCHANGED github
  BY <1>7, WorkSteps
<1>8. CASE Edits
  <2>1. Disturbed(call[c], call'[c])
    BY <1>8, EditSteps, ChangeSteps
  <2> QED  BY <2>1 DEF Disturbed
<1>9. UNCHANGED vars => call' = call /\ UNCHANGED github
  BY DEF vars
<1> QED  BY <1>2, <1>3, <1>4, <1>5, <1>6, <1>7, <1>8, <1>9, StepKinds

(* A quiet operation that writes leaves, of a sprint it is about, exactly  *)
(* the tasks that GitHub has.                                              *)
LEMMA QuietWrites ==
  ASSUME Types, NEW c \in Callers, Apply(c), ReadsExactly(call[c]), NEW s \in Due(call[c])
  PROVE  RowsOf(s)' = Expected(s)
<1> DEFINE r == call[c]
           D == {j \in DOMAIN tasks' : SprintOf[j] = s}
           row(i) == [id |-> i, num |-> tasks'[i].num, ver |-> tasks'[i].ver, pr |-> tasks'[i].pr,
                      deps |-> tasks'[i].deps]
           exact(k) == [id |-> issue[k].id, num |-> k, ver |-> issue[k].ver,
                        pr |-> pull[issue[k].id].state = "open",
                        deps |-> {issue[b].id : b \in BlockedBy[k]}]
<1>1. /\ r \in CallRecords /\ Progress(r) /\ r.at = "apply" /\ WellFormed(r)
      /\ DOMAIN tasks' = (DOMAIN tasks \ Stale(r)) \union IdsOf(r)
  BY ApplySteps
<1>2. s \in r.scope /\ r.scope = DOMAIN r.kids
  BY <1>1 DEF Progress, ReadsExactly
<1>3. /\ r.kids[s] = SubIssues(s) /\ r.pulls = pull
      /\ \A k \in DOMAIN r.seen : r.seen[k] = issue[k]
  BY <1>1, <1>2 DEF ReadsExactly
<1>4. /\ \A k \in DOMAIN r.seen : k \in r.kids[SprintOf[r.seen[k].id]]
      /\ r.kids[s] \subseteq DOMAIN r.seen
      /\ \A k \in r.kids[s] : SprintOf[r.seen[k].id] = s
      /\ \A k \in DOMAIN r.seen : r.seen[k].id \in IdsOf(r) /\ IssueOf(r, r.seen[k].id) = k
  BY <1>1, <1>2, WrittenFacts, IssueFacts DEF WellFormed
<1>5. ASSUME NEW i \in D
      PROVE  tasks'[i].num \in SubIssues(s) /\ issue[tasks'[i].num].id = i /\ row(i) = exact(tasks'[i].num)
  <2> DEFINE k == tasks'[i].num
  <2>1. /\ k \in DOMAIN r.seen /\ r.seen[k].id = i /\ tasks'[i].ver = r.seen[k].ver
        /\ tasks'[i].pr = (r.pulls[i].state = "open")
        /\ tasks'[i].deps = {r.seen[b].id : b \in BlockedBy[k]}
        /\ \A b \in BlockedBy[k] : b \in DOMAIN r.seen
    BY <1>2, <1>5, RowsWritten
  <2>2. {r.seen[b].id : b \in BlockedBy[k]} = {issue[b].id : b \in BlockedBy[k]}
    BY <1>3, <2>1
  <2>3. issue[k].id = i /\ tasks'[i].ver = issue[k].ver /\ tasks'[i].pr = (pull[i].state = "open")
    BY <1>3, <2>1
  <2>4. k \in SubIssues(s)
    BY <1>3, <1>4, <1>5, <2>1
  <2>5. tasks'[i].deps = {issue[b].id : b \in BlockedBy[k]}
    BY <2>1, <2>2
  <2> QED  BY <2>3, <2>4, <2>5
<1>6. ASSUME NEW k \in SubIssues(s)
      PROVE  issue[k].id \in D /\ tasks'[issue[k].id].num = k
  <2>1. k \in DOMAIN r.seen /\ r.seen[k] = issue[k]
    BY <1>3, <1>4
  <2>2. issue[k].id \in IdsOf(r) /\ SprintOf[issue[k].id] = s /\ IssueOf(r, issue[k].id) = k
    BY <1>3, <1>4, <2>1
  <2> QED  BY <1>1, <2>2, RowsWritten
<1> HIDE DEF r, row, exact
<1>7. \A k \in SubIssues(s) : \E i \in D : row(i) = exact(k)
  BY <1>5, <1>6
<1>8. \A i \in D : \E k \in SubIssues(s) : row(i) = exact(k)
  BY <1>5
<1> HIDE DEF D
<1>9. {row(i) : i \in D} = {exact(k) : k \in SubIssues(s)}
  BY <1>7, <1>8
<1> QED  BY <1>9 DEF RowsOf, Expected, row, exact, D, SubIssues

(* QuietSyncIsExact: what a full reconcile, a reconcile of one thing or a  *)
(* webhook leaves when GitHub stood still while it read.                   *)
THEOREM QuietSyncsAreExact == Spec => QuietSyncIsExact
<1>1. Init => QuietInv
  <2> SUFFICES ASSUME Init, NEW c \in Callers PROVE call[c].at = "idle"
    BY DEF QuietInv
  <2> QED  BY IdleFacts DEF Init
<1>2. Spec => []QuietInv
  BY <1>1, StepQuiet, TypeInvariance, PTL DEF Spec
<1>3. ASSUME Types, QuietInv, NEW c \in Callers, Apply(c), call[c].quiet, NEW s \in Due(call[c])
      PROVE  RowsOf(s)' = Expected(s)
  <2>1. call[c].at = "apply"
    BY <1>3 DEF Apply
  <2>2. ReadsExactly(call[c])
    BY <1>3, <2>1 DEF QuietInv
  <2> QED  BY <1>3, <2>2, QuietWrites
<1>4. Types /\ QuietInv =>
        \A c \in Callers : Apply(c) /\ call[c].quiet =>
          \A s \in Due(call[c]) : RowsOf(s)' = Expected(s)
  BY <1>3
<1> QED  BY <1>2, <1>4, TypeInvariance, PTL DEF QuietSyncIsExact
=============================================================================
