---------------------------- MODULE AgentProcess ----------------------------
(***************************************************************************)
(* How one execution of an agent CLI comes to its end: run-agent-tool      *)
(* (internal/agentrun), the command executor (internal/command), and the   *)
(* process they run, which writes, fails, is killed, or leaves a child     *)
(* behind while its output is copied, logged and watched for the words of  *)
(* a rate limit.  It implements DecisionTable, whose variables it shares.  *)
(*                                                                         *)
(* The output is a sequence of words: the two halves "front" and "back" of *)
(* a rate limit message, which a pipe may deliver apart, and "answer", the *)
(* structured result.  Nothing is removed from it: read and watched say    *)
(* how far the result's buffer and the watcher have got.                   *)
(***************************************************************************)
EXTENDS DecisionTable, Sequences

CONSTANTS
    MaxOutput      \* bound: words an agent writes to its standard output

ASSUME MaxOutputAssumption == MaxOutput \in Nat

Words == {"front", "back", "answer"}

VARIABLES
    agent,     \* proc: the CLI's process; held: a child of it keeps the pipes
               \* open; file: it wrote last-message.json; hint: what is read of
               \* it tells of a limit where the watcher does not look
    stdout,    \* words; read, watched; copier: the goroutine that reads the
               \* pipe, "broken" once a log could not be written
    tool       \* pc; ctx: why the run's context ended; matched: the watcher's
               \* flag; err: runErr # nil; exit: what became of the command,
               \* once it is known; answered

agentVars == <<stage, execution, result, verdict, agent, stdout, tool>>

NoAgent  == [proc |-> "none", held |-> FALSE, file |-> FALSE, hint |-> FALSE]
NoOutput == [words |-> <<>>, read |-> 0, watched |-> 0, copier |-> "none"]
NoTool   == [pc |-> "prepare", ctx |-> "live", matched |-> FALSE, err |-> FALSE,
             exit |-> "none", answered |-> FALSE]

AgentInit ==
    /\ Init
    /\ agent = NoAgent
    /\ stdout = NoOutput
    /\ tool = NoTool

(* The first n words of the output hold the whole message.                 *)
TellsLimit(n) ==
    \E i \in 1..(n - 1) : stdout.words[i] = "front" /\ stdout.words[i + 1] = "back"

Written  == Len(stdout.words)
Dead     == agent.proc \in {"ok", "failed"}
Writing  == agent.proc = "running" \/ agent.held

(* A payload can be found in the file or in what was read of the output.   *)
Answered == agent.file \/ \E i \in 1..stdout.read : stdout.words[i] = "answer"

----------------------------------------------------------------------------
(* The agent and its children *)

Write ==
    /\ Writing /\ stdout.copier = "open" /\ Written < MaxOutput
    /\ \E w \in Words : stdout' = [stdout EXCEPT !.words = Append(@, w)]
    /\ UNCHANGED <<vars, agent, tool>>

WriteFile ==
    /\ agent.proc = "running"
    /\ agent' = [agent EXCEPT !.file = TRUE]
    /\ UNCHANGED <<vars, stdout, tool>>

(* The words of a limit on the standard error, or the bare rate_limit on   *)
(* either stream, which the watcher does not take for one.                 *)
Hint ==
    /\ tool.pc = "command" /\ Writing
    /\ agent' = [agent EXCEPT !.hint = TRUE]
    /\ UNCHANGED <<vars, stdout, tool>>

LeaveChild ==
    /\ agent.proc = "running"
    /\ agent' = [agent EXCEPT !.held = TRUE]
    /\ UNCHANGED <<vars, stdout, tool>>

ChildEnds ==
    /\ agent.held
    /\ agent' = [agent EXCEPT !.held = FALSE]
    /\ UNCHANGED <<vars, stdout, tool>>

Exit ==
    /\ agent.proc = "running"
    /\ \E proc \in {"ok", "failed"} : agent' = [agent EXCEPT !.proc = proc]
    /\ UNCHANGED <<vars, stdout, tool>>

----------------------------------------------------------------------------
(* The executor: its context, the pipe, the process *)

(* The watcher, at from, is given the words up to upto: it looks at all it *)
(* has seen, not only at the last chunk (the mutant).                      *)
ChunkTellsLimit(from, upto) ==
    \E i \in (from + 1)..(upto - 1) :
        stdout.words[i] = "front" /\ stdout.words[i + 1] = "back"

WatcherSees(from, upto) == TellsLimit(upto)

(* The message cancels the run's context, unless its deadline came first.  *)
Copy(n) ==
    LET upto == stdout.read + n
    IN  /\ stdout.copier = "open" /\ upto <= Written
        /\ stdout' = [stdout EXCEPT !.read = upto, !.watched = upto]
        /\ tool' = IF WatcherSees(stdout.watched, upto)
                   THEN [tool EXCEPT !.matched = TRUE,
                                     !.ctx = IF @ = "live" THEN "limit" ELSE @]
                   ELSE tool
        /\ UNCHANGED <<vars, agent>>

(* Mutant: the buffer is taken to hold what the chunk might have held.     *)
CopyBreaksAhead(n) ==
    /\ stdout.copier = "open" /\ stdout.read < Written
    /\ stdout' = [stdout EXCEPT !.read = @ + n, !.copier = "broken"]
    /\ UNCHANGED <<vars, agent, tool>>

(* A log cannot be written: the chunk is in the buffer, the watcher, last  *)
(* of the writers, does not see it, and nothing more is read.              *)
CopyBreaks(n) ==
    /\ stdout.copier = "open" /\ stdout.read + n <= Written
    /\ stdout' = [stdout EXCEPT !.read = @ + n, !.copier = "broken"]
    /\ UNCHANGED <<vars, agent, tool>>

(* The end of the output: nobody holds the pipe's other end any more.      *)
Drain ==
    /\ stdout.copier = "open" /\ stdout.read = Written
    /\ Dead /\ ~agent.held
    /\ stdout' = [stdout EXCEPT !.copier = "eof"]
    /\ UNCHANGED <<vars, agent, tool>>

(* Every run has one: a timeout that is not given is 30 minutes.           *)
Deadline ==
    /\ tool.ctx = "live"
    /\ tool.pc \in {"prepare", "command", "classify"}
    /\ tool' = [tool EXCEPT !.ctx = "deadline"]
    /\ UNCHANGED <<vars, agent, stdout>>

(* A process whose context has ended is killed; its children are not.      *)
(* Mutant: only the deadline kills.                                        *)
KillAtDeadline ==
    /\ tool.ctx = "deadline" /\ agent.proc = "running"
    /\ agent' = [agent EXCEPT !.proc = "failed"]
    /\ UNCHANGED <<vars, stdout, tool>>

Kill ==
    /\ tool.ctx # "live" /\ agent.proc = "running"
    /\ agent' = [agent EXCEPT !.proc = "failed"]
    /\ UNCHANGED <<vars, stdout, tool>>

StartCommand ==
    /\ tool.pc = "prepare" /\ tool.ctx = "live"
    /\ agent' = [agent EXCEPT !.proc = "running"]
    /\ stdout' = [stdout EXCEPT !.copier = "open"]
    /\ tool' = [tool EXCEPT !.pc = "command"]
    /\ UNCHANGED vars

(* The deadline has passed, or the CLI cannot be started.                  *)
CannotStart ==
    /\ tool.pc = "prepare"
    /\ tool' = [tool EXCEPT !.pc = "classify", !.err = TRUE]
    /\ UNCHANGED <<vars, agent, stdout>>

(* Wait returns when the process is dead and the copying is over; the      *)
(* copying of the standard error may have broken too.                      *)
CommandReturns ==
    /\ tool.pc = "command"
    /\ Dead /\ stdout.copier # "open"
    /\ \E logged \in BOOLEAN :
         tool' = [tool EXCEPT !.pc = "classify",
                              !.err = \/ tool.ctx # "live"
                                      \/ agent.proc # "ok"
                                      \/ stdout.copier = "broken"
                                      \/ ~logged]
    /\ UNCHANGED <<vars, agent, stdout>>

----------------------------------------------------------------------------
(* run-agent-tool *)

ToldOfLimit == tool.matched \/ agent.hint \/ TellsLimit(stdout.read)

(* Mutant: a limit is asked for before the deadline.                       *)
LimitFirst ==
    CASE ~tool.err             -> "ok"
      [] tool.err /\ ToldOfLimit -> "rate_limited"
      [] OTHER -> IF tool.ctx = "deadline" THEN "timeout" ELSE "error"

Outcome ==
    CASE ~tool.err                               -> "ok"
      [] tool.err /\ tool.ctx = "deadline"       -> "timeout"
      [] tool.err /\ tool.ctx # "deadline"       ->
           IF ToldOfLimit THEN "rate_limited" ELSE "error"

(* What the process was is not needed any more: its variables start over.  *)
Classify ==
    /\ tool.pc = "classify"
    /\ tool' = [NoTool EXCEPT !.pc = "parse", !.exit = Outcome, !.answered = Answered]
    /\ agent' = NoAgent
    /\ stdout' = NoOutput
    /\ UNCHANGED vars

Parse ==
    /\ tool.pc = "parse"
    /\ execution' \in {{e} : e \in {x \in Executions :
                          /\ x.exit = tool.exit
                          /\ x.payload.complete => tool.answered}}
    /\ tool' = [tool EXCEPT !.pc = "report"]
    /\ UNCHANGED <<stage, result, verdict, agent, stdout>>

(* Mutant: what a process left is returned though it failed.               *)
ToolReturnsPayload ==
    /\ tool.pc = "report"
    /\ result' = {FromPayload(e.payload) : e \in execution}
    /\ tool' = [tool EXCEPT !.pc = "done"]
    /\ UNCHANGED <<stage, execution, verdict, agent, stdout>>

ToolReturns ==
    /\ tool.pc = "report"
    /\ AgentReturns
    /\ tool' = [tool EXCEPT !.pc = "done"]
    /\ UNCHANGED <<agent, stdout>>

(* A directory, a log or the report cannot be written: the call has no     *)
(* result, and the orchestrator returns the error.                         *)
ToolFails ==
    /\ tool.pc \in {"prepare", "classify", "report"}
    /\ tool' = [tool EXCEPT !.pc = "error"]
    /\ UNCHANGED <<vars, agent, stdout>>

----------------------------------------------------------------------------

AgentStep == Write \/ WriteFile \/ Hint \/ LeaveChild \/ ChildEnds \/ Exit

CopierStep ==
    \/ \E n \in 1..MaxOutput : Copy(n) \/ CopyBreaks(n)
    \/ Drain

ToolStep ==
    \/ StartCommand \/ CannotStart \/ CommandReturns
    \/ Classify \/ Parse \/ ToolReturns \/ ToolFails

Decide == OrchestratorDecides /\ UNCHANGED <<agent, stdout, tool>>

AgentNext == AgentStep \/ CopierStep \/ Deadline \/ Kill \/ ToolStep \/ Decide

AgentSpec == AgentInit /\ [][AgentNext]_agentVars

(* The goroutines of os/exec and the timer run on; so does the tool.  The  *)
(* agent and its children need not do anything.                            *)
FairAgentSpec ==
    /\ AgentSpec
    /\ WF_agentVars(CopierStep)
    /\ WF_agentVars(Deadline)
    /\ WF_agentVars(Kill)
    /\ WF_agentVars(ToolStep)

----------------------------------------------------------------------------
(* Properties *)

Agents ==
    [proc : {"none", "running", "ok", "failed"}, held : BOOLEAN, file : BOOLEAN,
     hint : BOOLEAN]

Outputs ==
    [words : Seq(Words), read : Nat, watched : Nat,
     copier : {"none", "open", "broken", "eof"}]

Tools ==
    [pc : {"prepare", "command", "classify", "parse", "report", "done", "error"},
     ctx : {"live", "deadline", "limit"}, matched : BOOLEAN, err : BOOLEAN,
     answered : BOOLEAN,
     exit : {"none", "ok", "timeout", "rate_limited", "error"}]

(* The variables of a run keep their types, the watcher never gets ahead   *)
(* of the buffer nor the buffer of what was written.                       *)
AgentTypeOK ==
    /\ agent \in Agents /\ stdout \in Outputs /\ tool \in Tools
    /\ stdout.watched <= stdout.read /\ stdout.read <= Written

(* An answer is believed only of an agent that ended by itself, all of     *)
(* whose output was read and did not tell of a rate limit, in however many *)
(* pieces the message arrived and whenever the deadline passed.            *)
NothingCutOffIsBelieved ==
    [][Classify /\ tool'.exit = "ok" =>
         /\ agent.proc = "ok"
         /\ stdout.read = Written
         /\ ~TellsLimit(Written)]_agentVars

(* The caller can tell success, failure and timeout apart (plan/tasks/     *)
(* Sprint-04/Task-01.md:48): a timeout is a run whose deadline passed      *)
(* before it told of a limit, whatever it wrote; a rate limit is one that  *)
(* was told of; an error is of an agent nobody killed.                     *)
CallersCanTell ==
    [][Classify =>
         /\ tool'.exit = "timeout" => tool.ctx = "deadline"
         /\ tool'.exit = "rate_limited" => /\ tool.ctx # "deadline"
                                           /\ agent.hint \/ TellsLimit(Written)
         /\ tool'.exit = "error" => tool.ctx = "live" /\ ~TellsLimit(stdout.read)
      ]_agentVars

(* A run comes to its end even if the agent never does, by the deadline or *)
(* by the rate limit it has told of; only a child that keeps the pipes     *)
(* open can prevent it, and nothing stops such a child.                    *)
RunsEnd == <>(tool.pc \in {"done", "error"} \/ []agent.held)

(* The process, however it ends, is one execution of the decision table.   *)
ImplementsDecisionTable == Spec
=============================================================================
