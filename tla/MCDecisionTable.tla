-------------------------- MODULE MCDecisionTable --------------------------
(***************************************************************************)
(* Every status the code names, each kind of next action, findings in and  *)
(* out of order.                                                           *)
(***************************************************************************)
EXTENDS DecisionTable

Race    == [id |-> "race", reviewer |-> "rv", sound |-> TRUE]
Leak    == [id |-> "leak", reviewer |-> "rv", sound |-> TRUE]
Foreign == [id |-> "leak", reviewer |-> "other", sound |-> TRUE]
Unsound == [id |-> "race", reviewer |-> "rv", sound |-> FALSE]

NamedStatuses == AllowedStatuses \cup {"approve", "request_changes", "awaiting_human"}

NextActions == {"proceed", "rework", "retry", "await_human", "stop"}

Answers ==
    [complete : {TRUE}, status : NamedStatuses, next : NextActions,
     fp : {NoFp, {"own"}},
     findings : {{}, {Race}, {Race, Leak}, {Race, Foreign}, {Unsound}},
     upstream : BOOLEAN]

(* The answers a reviewer may give.                                        *)
ReviewerExecutions ==
    [exit : {"ok"}, payload : {p \in Answers : ~p.upstream /\ p.fp = NoFp}]
=============================================================================
