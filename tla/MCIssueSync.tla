---------------------------- MODULE MCIssueSync ----------------------------
(* A plan of one sprint with two tasks.  An edit of the second task's brief *)
(* takes its dependency on the first back; one of the first's makes it     *)
(* depend on a task that there is not.                                     *)
EXTENDS IssueSync
CONSTANTS s1, t1, t2
MCSprintOrder == <<s1>>
MCTaskOrder == [s \in {s1} |-> <<t1, t2>>]
MCBlockedBy ==
  [t \in {t1, t2} |-> [r \in Revisions |->
     IF t = t2 /\ r = 0 THEN {t1} ELSE IF t = t1 /\ r = 1 THEN {Unplanned} ELSE {}]]
=============================================================================
