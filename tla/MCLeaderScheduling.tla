------------------------- MODULE MCLeaderScheduling -------------------------
(***************************************************************************)
(* Two callers; a first sprint of two tasks, of which the first may be     *)
(* blocked by the second, and a second sprint of one.                      *)
(***************************************************************************)
EXTENDS LeaderScheduling, TLC

CONSTANTS l1, l2

MCLeaders == {l1, l2}
MCSprints == {1, 2}
MCTasks   == {"1/1", "1/2", "2/1"}

MCSprintOf == [t \in MCTasks |-> IF t = "2/1" THEN 2 ELSE 1]
MCSeqNo    == [t \in MCTasks |-> IF t = "1/2" THEN 2 ELSE 1]

NeedsSecond == {<<"1/1", "1/2">>}

(* Callers that contend for the only task, once it is projected.           *)
OneSprint    == {1}
OnlyTask     == {"1/1"}
OnlySprintOf == [t \in OnlyTask |-> 1]
OnlySeqNo    == [t \in OnlyTask |-> 1]

(* GitHub has a sprint of two tasks, of which the first sync projected     *)
(* only the second: what that task depends on comes later.                 *)
FirstSprint   == {"1/1", "1/2"}
FirstSprintOf == [t \in FirstSprint |-> 1]
FirstSeqNo    == [t \in FirstSprint |-> MCSeqNo[t]]
SecondTask    == {"1/2"}
NeedsFirst    == {<<"1/2", "1/1">>}

LeaderSymmetry == Permutations(MCLeaders)
=============================================================================
