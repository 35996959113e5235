--------------------------- MODULE MCAgentProcess ---------------------------
(***************************************************************************)
(* Every way an agent's process can end; every status the code names, each *)
(* kind of next action, findings in and out of order; a payload cut short. *)
(***************************************************************************)
EXTENDS MCDecisionTable, AgentProcess

CutShort ==
    [complete : {FALSE}, status : {"pass", "failed"}, next : {"proceed"},
     fp : {NoFp}, findings : {{}}, upstream : {FALSE}]

(* Of a process that failed, only what its payload could change is varied. *)
LeftBehind == {p \in Answers : p.fp = NoFp /\ p.findings = {} /\ ~p.upstream}

MCExecutions ==
    [exit : {"ok"}, payload : Answers \cup CutShort]
        \cup [exit : {"timeout", "rate_limited", "error"},
              payload : LeftBehind \cup CutShort]
=============================================================================
