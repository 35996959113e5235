------------------------ MODULE AgentProcess_proofs ------------------------
(***************************************************************************)
(* However an agent's process ends, whatever it writes and in however many *)
(* pieces, what run-agent-tool says of it is true, and the decision table's*)
(* theorems hold of it.                                                    *)
(***************************************************************************)
EXTENDS AgentProcess, TLAPS

(* No execution is known before the payload has been parsed.               *)
Unknown == tool.pc \in {"prepare", "command", "classify", "parse"} => execution = {}

(* The executor's part of the invariant: what the watcher's flag and the   *)
(* context say of the output, and what a command that returned without an  *)
(* error has been.                                                         *)
Watching ==
    /\ tool.matched <=> TellsLimit(stdout.watched)
    /\ tool.matched => tool.ctx # "live"
    /\ tool.ctx = "limit" => tool.matched

Copying ==
    /\ stdout.copier # "broken" => stdout.watched = stdout.read
    /\ stdout.copier = "eof" => stdout.read = Written
    /\ stdout.copier = "none" => tool.pc # "command"
    /\ stdout.copier = "open" \/ agent.proc = "running" => tool.pc = "command"
    /\ tool.pc \in {"prepare", "parse", "report", "done"} =>
         agent = NoAgent /\ stdout = NoOutput

Returned ==
    tool.pc = "classify" /\ ~tool.err =>
        agent.proc = "ok" /\ stdout.copier = "eof" /\ ~tool.matched

IInv == AgentTypeOK /\ Watching /\ Copying /\ Returned

(* What was told in a part of the output is told in a longer one.          *)
LEMMA ToldStaysTold ==
    ASSUME NEW m \in Nat, NEW n \in Nat, m <= n, TellsLimit(m)
    PROVE  TellsLimit(n)
BY DEF TellsLimit

(* An output is typed field by field.                                      *)
LEMMA OutputFields ==
    ASSUME NEW out \in Outputs
    PROVE  /\ out.words \in Seq(Words) /\ out.read \in Nat /\ out.watched \in Nat
           /\ Len(out.words) \in Nat
           /\ out.copier \in {"none", "open", "broken", "eof"}
<1>1. out.words \in Seq(Words)
  BY DEF Outputs
<1> QED  BY <1>1 DEF Outputs

(* Nothing has been written of an output that starts over.                 *)
LEMMA EmptyOutput ==
    NoOutput \in Outputs /\ NoOutput.read = 0 /\ NoOutput.watched = 0
        /\ Len(NoOutput.words) = 0
<1>1. <<>> \in Seq(Words) /\ Len(<<>>) = 0
  OBVIOUS
<1> QED  BY <1>1 DEF NoOutput, Outputs

(* The initial states satisfy the invariant.                               *)
LEMMA InitIInv == AgentInit => IInv
<1> SUFFICES ASSUME AgentInit PROVE IInv
  OBVIOUS
<1>1. agent = NoAgent /\ stdout = NoOutput
  BY DEF AgentInit
<1>2. tool = NoTool
  BY DEF AgentInit
<1>3. AgentTypeOK
  <2>1. agent \in Agents
    BY <1>1 DEF Agents, NoAgent
  <2>2. tool \in Tools
    BY <1>2 DEF Tools, NoTool
  <2> QED  BY <1>1, <2>1, <2>2, EmptyOutput DEF AgentTypeOK, Written
<1>4. Watching
  <2>1. ~TellsLimit(0)
    BY DEF TellsLimit
  <2>2. tool.matched = FALSE /\ tool.ctx = "live" /\ stdout.watched = 0
    BY <1>1, <1>2 DEF NoOutput, NoTool
  <2> QED  BY <2>1, <2>2 DEF Watching
<1>5. Copying /\ Returned
  BY <1>1, <1>2 DEF Copying, Returned, NoAgent, NoOutput, NoTool
<1> QED  BY <1>3, <1>4, <1>5 DEF IInv

(* Every step keeps the types.                                             *)
LEMMA TypeStep == ASSUME AgentTypeOK, [AgentNext]_agentVars PROVE AgentTypeOK'
<1> USE OutputFields DEF Written
<1>1. CASE Write
  <2>1. PICK w \in Words : stdout' = [stdout EXCEPT !.words = Append(@, w)]
    BY <1>1 DEF Write
  <2>2. Append(stdout.words, w) \in Seq(Words) /\ Len(Append(stdout.words, w)) = Written + 1
    BY DEF AgentTypeOK
  <2>3. stdout' \in Outputs /\ stdout'.words = Append(stdout.words, w)
        /\ stdout'.read = stdout.read /\ stdout'.watched = stdout.watched
    BY <2>1, <2>2 DEF AgentTypeOK, Outputs
  <2> QED  BY <1>1, <2>2, <2>3 DEF Write, AgentTypeOK
<1>2. CASE WriteFile \/ Hint \/ LeaveChild \/ ChildEnds \/ Exit \/ Kill
  BY <1>2 DEF WriteFile, Hint, LeaveChild, ChildEnds, Exit, Kill, AgentTypeOK, Agents
<1>3. ASSUME NEW n \in 1..MaxOutput, Copy(n) PROVE AgentTypeOK'
  <2> DEFINE upto == stdout.read + n
  <2>0. upto \in Nat /\ upto >= stdout.read /\ upto <= Len(stdout.words)
    BY <1>3, MaxOutputAssumption DEF Copy, AgentTypeOK
  <2>1. stdout' \in Outputs /\ stdout'.words = stdout.words
        /\ stdout'.read = upto /\ stdout'.watched = upto
    <3> HIDE DEF upto
    <3> QED  BY <1>3, <2>0 DEF Copy, AgentTypeOK, Outputs, upto
  <2>2. tool' \in Tools
    BY <1>3 DEF Copy, AgentTypeOK, Tools
  <2> QED  BY <1>3, <2>0, <2>1, <2>2 DEF Copy, AgentTypeOK
<1>4. ASSUME NEW n \in 1..MaxOutput, CopyBreaks(n) PROVE AgentTypeOK'
  <2> DEFINE upto == stdout.read + n
  <2>0. upto \in Nat /\ upto >= stdout.read /\ upto <= Len(stdout.words)
    BY <1>4, MaxOutputAssumption DEF CopyBreaks, AgentTypeOK
  <2>1. stdout' \in Outputs /\ stdout'.words = stdout.words
        /\ stdout'.read = upto /\ stdout'.watched = stdout.watched
    <3> HIDE DEF upto
    <3> QED  BY <1>4, <2>0 DEF CopyBreaks, AgentTypeOK, Outputs, upto
  <2> QED  BY <1>4, <2>0, <2>1 DEF CopyBreaks, AgentTypeOK
<1>5. CASE Drain
  BY <1>5 DEF Drain, AgentTypeOK, Outputs
<1>6. CASE Deadline \/ CannotStart \/ Parse \/ ToolReturns \/ ToolFails
  BY <1>6 DEF Deadline, CannotStart, Parse, ToolReturns, ToolFails, AgentTypeOK, Tools
<1>7. CASE StartCommand
  BY <1>7 DEF StartCommand, AgentTypeOK, Agents, Outputs, Tools
<1>8. CASE CommandReturns
  BY <1>8 DEF CommandReturns, AgentTypeOK, Tools
<1>9. CASE Classify
  <2>1. Outcome \in {"ok", "timeout", "rate_limited", "error"}
    BY DEF Outcome, AgentTypeOK, Tools
  <2>2. Answered \in BOOLEAN
    BY DEF Answered, AgentTypeOK, Agents
  <2>3. tool' \in Tools
    BY <1>9, <2>1, <2>2 DEF Classify, NoTool, Tools
  <2>4. agent' \in Agents /\ stdout' = NoOutput
    BY <1>9 DEF Classify, NoAgent, Agents
  <2> QED  BY <2>3, <2>4, EmptyOutput DEF AgentTypeOK
<1>10. CASE Decide \/ UNCHANGED agentVars
  BY <1>10 DEF Decide, agentVars, AgentTypeOK
<1> QED  BY <1>1, <1>2, <1>3, <1>4, <1>5, <1>6, <1>7, <1>8, <1>9, <1>10
         DEF AgentNext, AgentStep, CopierStep, ToolStep

(* The watcher's flag is exactly what it has seen.                         *)
LEMMA WatchingStep ==
    ASSUME AgentTypeOK, Watching, Copying, [AgentNext]_agentVars
    PROVE  Watching'
<1> USE OutputFields DEF Written
<1>1. CASE Write
  <2>1. PICK w \in Words : stdout' = [stdout EXCEPT !.words = Append(@, w)]
    BY <1>1 DEF Write
  <2>2. stdout'.words = Append(stdout.words, w) /\ stdout'.watched = stdout.watched
    BY <2>1 DEF AgentTypeOK, Outputs
  <2>3. \A i \in 1..Len(stdout.words) : stdout'.words[i] = stdout.words[i]
    BY <2>2 DEF AgentTypeOK
  <2>4. stdout.watched \in Nat /\ stdout.watched <= Len(stdout.words)
    BY DEF AgentTypeOK
  <2>5. TellsLimit(stdout.watched)' <=> TellsLimit(stdout.watched)
    BY <2>2, <2>3, <2>4 DEF TellsLimit
  <2>6. tool' = tool
    BY <1>1 DEF Write
  <2> QED  BY <2>5, <2>6 DEF Watching
<1>2. CASE WriteFile \/ Hint \/ LeaveChild \/ ChildEnds \/ Exit \/ Kill
           \/ Decide \/ UNCHANGED agentVars
  <2>1. stdout' = stdout /\ tool' = tool
    BY <1>2 DEF WriteFile, Hint, LeaveChild, ChildEnds, Exit, Kill, Decide, agentVars
  <2> QED  BY <2>1 DEF Watching, TellsLimit
<1>3. ASSUME NEW n \in 1..MaxOutput, Copy(n) PROVE Watching'
  <2> DEFINE upto == stdout.read + n
  <2>1. upto \in Nat /\ stdout.watched <= upto /\ stdout.watched \in Nat
    BY MaxOutputAssumption DEF AgentTypeOK
  <2>2. stdout'.words = stdout.words /\ stdout'.watched = upto
    BY <1>3 DEF Copy, AgentTypeOK, Outputs
  <2>3. TellsLimit(stdout.watched)' <=> TellsLimit(upto)
    BY <2>2 DEF TellsLimit
  <2>4. TellsLimit(stdout.watched) => TellsLimit(upto)
    BY <2>1, ToldStaysTold
  <2>5. CASE TellsLimit(upto)
    <3>1. tool'.matched = TRUE
          /\ tool'.ctx = IF tool.ctx = "live" THEN "limit" ELSE tool.ctx
      BY <1>3, <2>5 DEF Copy, WatcherSees, AgentTypeOK, Tools
    <3> QED  BY <2>3, <2>5, <3>1 DEF Watching
  <2>6. CASE ~TellsLimit(upto)
    <3>1. tool' = tool
      BY <1>3, <2>6 DEF Copy, WatcherSees
    <3> QED  BY <2>3, <2>4, <2>6, <3>1 DEF Watching
  <2> QED  BY <2>5, <2>6
<1>4. CASE (\E n \in 1..MaxOutput : CopyBreaks(n)) \/ Drain
  <2>1. stdout'.words = stdout.words /\ stdout'.watched = stdout.watched /\ tool' = tool
    BY <1>4 DEF CopyBreaks, Drain, AgentTypeOK, Outputs
  <2> QED  BY <2>1 DEF Watching, TellsLimit
<1>5. CASE Deadline
  <2>1. stdout' = stdout /\ tool'.matched = tool.matched
        /\ tool'.ctx = "deadline" /\ tool.ctx = "live"
    BY <1>5 DEF Deadline, AgentTypeOK, Tools
  <2> QED  BY <2>1 DEF Watching, TellsLimit
<1>6. CASE StartCommand \/ CannotStart \/ CommandReturns \/ Parse \/ ToolReturns \/ ToolFails
  <2>1. /\ stdout'.words = stdout.words /\ stdout'.watched = stdout.watched
        /\ tool'.matched = tool.matched /\ tool'.ctx = tool.ctx
    BY <1>6 DEF StartCommand, CannotStart, CommandReturns, Parse, ToolReturns, ToolFails,
       AgentTypeOK, Tools, Outputs
  <2> QED  BY <2>1 DEF Watching, TellsLimit
<1>7. CASE Classify
  <2>1. stdout'.watched = 0 /\ tool'.matched = FALSE /\ tool'.ctx = "live"
    BY <1>7 DEF Classify, NoOutput, NoTool
  <2>2. ~TellsLimit(stdout.watched)'
    BY <2>1 DEF TellsLimit
  <2> QED  BY <2>1, <2>2 DEF Watching
<1> QED  BY <1>1, <1>2, <1>3, <1>4, <1>5, <1>6, <1>7
         DEF AgentNext, AgentStep, CopierStep, ToolStep

(* The copying ends before the command returns.                            *)
LEMMA CopyingStep ==
    ASSUME AgentTypeOK, Copying, [AgentNext]_agentVars
    PROVE  Copying'
<1> USE OutputFields DEF Written
<1>1. CASE Write
  <2>1. tool' = tool /\ agent' = agent /\ stdout'.copier = "open" /\ tool.pc = "command"
        /\ stdout'.watched = stdout.watched /\ stdout'.read = stdout.read
        /\ stdout.copier = "open"
    BY <1>1 DEF Write, Copying, AgentTypeOK, Outputs
  <2> QED  BY <2>1 DEF Copying
<1>2. CASE WriteFile \/ Hint \/ LeaveChild \/ ChildEnds \/ Exit \/ Kill
  <2>1. stdout' = stdout /\ tool' = tool
    BY <1>2 DEF WriteFile, Hint, LeaveChild, ChildEnds, Exit, Kill
  <2>2. agent'.proc = "running" => agent.proc = "running"
    BY <1>2 DEF WriteFile, Hint, LeaveChild, ChildEnds, Exit, Kill, AgentTypeOK, Agents
  <2>3. tool.pc \notin {"prepare", "parse", "report", "done"}
    BY <1>2 DEF WriteFile, Hint, LeaveChild, ChildEnds, Exit, Kill, Copying, NoAgent
  <2> QED  BY <2>1, <2>2, <2>3 DEF Copying
<1>3. ASSUME NEW n \in 1..MaxOutput, Copy(n) PROVE Copying'
  <2>1. agent' = agent /\ tool'.pc = tool.pc /\ stdout'.copier = "open"
        /\ stdout.copier = "open" /\ stdout'.watched = stdout'.read
    BY <1>3 DEF Copy, AgentTypeOK, Outputs, Tools
  <2> QED  BY <2>1 DEF Copying
<1>4. ASSUME NEW n \in 1..MaxOutput, CopyBreaks(n) PROVE Copying'
  <2>1. agent' = agent /\ tool' = tool /\ stdout'.copier = "broken"
        /\ stdout.copier = "open"
    BY <1>4 DEF CopyBreaks, AgentTypeOK, Outputs
  <2> QED  BY <2>1 DEF Copying
<1>5. CASE Drain
  <2>1. agent' = agent /\ tool' = tool /\ stdout'.copier = "eof" /\ stdout.copier = "open"
        /\ stdout'.read = stdout.read /\ stdout'.words = stdout.words
        /\ stdout'.watched = stdout.watched /\ stdout.read = Len(stdout.words)
    BY <1>5 DEF Drain, AgentTypeOK, Outputs
  <2> QED  BY <2>1 DEF Copying
<1>6. CASE Deadline
  <2>1. agent' = agent /\ stdout' = stdout /\ tool'.pc = tool.pc
    BY <1>6 DEF Deadline, AgentTypeOK, Tools
  <2> QED  BY <2>1 DEF Copying
<1>7. CASE StartCommand
  <2>1. tool'.pc = "command" /\ stdout'.copier = "open" /\ stdout'.watched = stdout'.read
    <3>1. stdout = NoOutput
      BY <1>7 DEF StartCommand, Copying
    <3> QED  BY <1>7, <3>1 DEF StartCommand, NoOutput, AgentTypeOK, Tools
  <2> QED  BY <2>1 DEF Copying
<1>8. CASE CannotStart \/ CommandReturns
  <2>1. agent' = agent /\ stdout' = stdout /\ tool'.pc = "classify"
    BY <1>8 DEF CannotStart, CommandReturns, AgentTypeOK, Tools
  <2>2. stdout.copier # "open" /\ agent.proc # "running"
    BY <1>8 DEF CannotStart, CommandReturns, Copying, Dead
  <2> QED  BY <2>1, <2>2 DEF Copying
<1>9. CASE Classify
  <2>1. agent' = NoAgent /\ stdout' = NoOutput /\ tool'.pc = "parse"
    BY <1>9 DEF Classify, NoTool
  <2> QED  BY <2>1 DEF Copying, NoAgent, NoOutput
<1>10. CASE Parse \/ ToolReturns
  <2>1. agent' = agent /\ stdout' = stdout /\ tool'.pc \in {"report", "done"}
        /\ tool.pc \in {"parse", "report"}
    BY <1>10 DEF Parse, ToolReturns, AgentTypeOK, Tools
  <2> QED  BY <2>1 DEF Copying, NoAgent, NoOutput
<1>11. CASE ToolFails
  <2>1. agent' = agent /\ stdout' = stdout /\ tool'.pc = "error" /\ tool.pc # "command"
    BY <1>11 DEF ToolFails, AgentTypeOK, Tools
  <2> QED  BY <2>1 DEF Copying
<1>12. CASE Decide \/ UNCHANGED agentVars
  BY <1>12 DEF Decide, agentVars, Copying
<1> QED  BY <1>1, <1>2, <1>3, <1>4, <1>5, <1>6, <1>7, <1>8, <1>9, <1>10, <1>11, <1>12
         DEF AgentNext, AgentStep, CopierStep, ToolStep

(* A command that returned without an error has ended by itself, and all   *)
(* of its output has been read and watched.                                *)
LEMMA ReturnedStep ==
    ASSUME IInv, [AgentNext]_agentVars
    PROVE  Returned'
<1> USE OutputFields DEF IInv
<1>1. CASE Write \/ WriteFile \/ Hint \/ LeaveChild \/ Exit \/ Kill
           \/ (\E n \in 1..MaxOutput : Copy(n) \/ CopyBreaks(n)) \/ Drain
  <2>1. tool.pc = "command"
    BY <1>1 DEF Write, WriteFile, Hint, LeaveChild, Exit, Kill, Copy, CopyBreaks, Drain, Copying
  <2>2. tool'.pc = tool.pc
    BY <1>1 DEF Write, WriteFile, Hint, LeaveChild, Exit, Kill, Copy, CopyBreaks, Drain,
       AgentTypeOK, Tools
  <2> QED  BY <2>1, <2>2 DEF Returned
<1>2. CASE ChildEnds
  <2>1. stdout' = stdout /\ tool' = tool /\ agent'.proc = agent.proc
    BY <1>2 DEF ChildEnds, AgentTypeOK, Agents
  <2> QED  BY <2>1 DEF Returned
<1>3. CASE Deadline
  <2>1. stdout' = stdout /\ agent' = agent /\ tool'.pc = tool.pc /\ tool'.err = tool.err
        /\ tool'.matched = tool.matched
    BY <1>3 DEF Deadline, AgentTypeOK, Tools
  <2> QED  BY <2>1 DEF Returned
<1>4. CASE CannotStart
  <2>1. tool'.err = TRUE
    BY <1>4 DEF CannotStart, AgentTypeOK, Tools
  <2> QED  BY <2>1 DEF Returned
<1>5. CASE CommandReturns
  <2>1. PICK logged \in BOOLEAN :
          tool' = [tool EXCEPT !.pc = "classify",
                               !.err = \/ tool.ctx # "live"
                                       \/ agent.proc # "ok"
                                       \/ stdout.copier = "broken"
                                       \/ ~logged]
    BY <1>5 DEF CommandReturns
  <2>2. agent' = agent /\ stdout' = stdout /\ tool'.matched = tool.matched
    BY <1>5, <2>1 DEF CommandReturns, AgentTypeOK, Tools
  <2>3. ~tool'.err => tool.ctx = "live" /\ agent.proc = "ok" /\ stdout.copier # "broken"
    BY <2>1 DEF AgentTypeOK, Tools
  <2>4. stdout.copier \in {"broken", "eof"}
    BY <1>5 DEF CommandReturns, Copying, AgentTypeOK
  <2>5. tool.ctx = "live" => ~tool.matched
    BY DEF Watching
  <2> QED  BY <2>2, <2>3, <2>4, <2>5 DEF Returned
<1>6. CASE StartCommand \/ Classify \/ Parse \/ ToolReturns \/ ToolFails
  <2>1. tool'.pc # "classify"
    BY <1>6 DEF StartCommand, Classify, Parse, ToolReturns, ToolFails, NoTool, AgentTypeOK, Tools
  <2> QED  BY <2>1 DEF Returned
<1>7. CASE Decide \/ UNCHANGED agentVars
  BY <1>7 DEF Decide, agentVars, Returned
<1> QED  BY <1>1, <1>2, <1>3, <1>4, <1>5, <1>6, <1>7
         DEF AgentNext, AgentStep, CopierStep, ToolStep

----------------------------------------------------------------------------
(* The invariant holds of every behaviour.                                 *)
LEMMA Invariance == AgentSpec => []IInv
<1>1. IInv /\ [AgentNext]_agentVars => IInv'
  BY TypeStep, WatchingStep, CopyingStep, ReturnedStep DEF IInv
<1> QED  BY <1>1, InitIInv, PTL DEF AgentSpec

(* The variables of a run keep their types; no cursor passes the one it    *)
(* follows.                                                                *)
THEOREM TypeCorrect == AgentSpec => []AgentTypeOK
<1>1. IInv => AgentTypeOK
  BY DEF IInv
<1> QED  BY <1>1, Invariance, PTL

(* Only an agent that ended by itself is believed, and only when all of    *)
(* its output was read and told of no rate limit.                          *)
THEOREM AnswersAreWhole == AgentSpec => NothingCutOffIsBelieved
<1>1. ASSUME IInv, Classify, tool'.exit = "ok"
      PROVE  agent.proc = "ok" /\ stdout.read = Written /\ ~TellsLimit(Written)
  <2>1. ~tool.err
    <3>1. tool'.exit = Outcome
      BY <1>1 DEF Classify, NoTool
    <3> QED  BY <1>1, <3>1 DEF Outcome, IInv, AgentTypeOK, Tools
  <2>2. agent.proc = "ok" /\ stdout.copier = "eof" /\ ~tool.matched
    BY <1>1, <2>1 DEF Classify, IInv, Returned
  <2>3. stdout.read = Written /\ stdout.watched = stdout.read
    BY <1>1, <2>2 DEF IInv, Copying
  <2> QED  BY <1>1, <2>2, <2>3 DEF IInv, Watching
<1>2. IInv => (Classify /\ tool'.exit = "ok"
                 => agent.proc = "ok" /\ stdout.read = Written /\ ~TellsLimit(Written))
  BY <1>1
<1> QED  BY <1>2, Invariance, PTL DEF NothingCutOffIsBelieved

(* What the caller is told of a run that failed is what became of it.      *)
THEOREM FailuresAreToldApart == AgentSpec => CallersCanTell
<1> DEFINE Told ==
      /\ tool'.exit = "timeout" => tool.ctx = "deadline"
      /\ tool'.exit = "rate_limited" => /\ tool.ctx # "deadline"
                                        /\ agent.hint \/ TellsLimit(Written)
      /\ tool'.exit = "error" => tool.ctx = "live" /\ ~TellsLimit(stdout.read)
<1>1. ASSUME IInv, Classify PROVE Told
  <2>1. tool'.exit = Outcome
    BY <1>1 DEF Classify, NoTool
  <2>2. tool.err \in BOOLEAN /\ tool.ctx \in {"live", "deadline", "limit"}
    BY <1>1 DEF IInv, AgentTypeOK, Tools
  <2>3. /\ stdout.watched \in Nat /\ stdout.read \in Nat /\ Written \in Nat
        /\ stdout.watched <= Written /\ stdout.read <= Written
    BY <1>1, OutputFields DEF IInv, AgentTypeOK, Written
  <2>4. ToldOfLimit => agent.hint \/ TellsLimit(Written)
    <3>1. tool.matched => TellsLimit(stdout.watched)
      BY <1>1 DEF IInv, Watching
    <3>2. TellsLimit(stdout.watched) => TellsLimit(Written)
      BY <2>3, ToldStaysTold
    <3>3. TellsLimit(stdout.read) => TellsLimit(Written)
      BY <2>3, ToldStaysTold
    <3> QED  BY <3>1, <3>2, <3>3 DEF ToldOfLimit
  <2>5. CASE ~tool.err
    <3>1. Outcome = "ok"
      BY <2>5 DEF Outcome
    <3> QED  BY <2>1, <3>1
  <2>6. CASE tool.err /\ tool.ctx = "deadline"
    <3>1. Outcome = "timeout"
      BY <2>6 DEF Outcome
    <3> QED  BY <2>1, <2>6, <3>1
  <2>7. CASE tool.err /\ tool.ctx # "deadline" /\ ToldOfLimit
    <3>1. Outcome = "rate_limited"
      BY <2>7 DEF Outcome
    <3> QED  BY <2>1, <2>4, <2>7, <3>1
  <2>8. CASE tool.err /\ tool.ctx # "deadline" /\ ~ToldOfLimit
    <3>1. Outcome = "error"
      BY <2>8 DEF Outcome
    <3>2. tool.ctx = "live"
      BY <1>1, <2>2, <2>8 DEF IInv, Watching, ToldOfLimit
    <3> QED  BY <2>1, <2>8, <3>1, <3>2 DEF ToldOfLimit
  <2> QED  BY <2>2, <2>5, <2>6, <2>7, <2>8
<1>2. IInv => (Classify => Told)
  BY <1>1
<1> QED  BY <1>2, Invariance, PTL DEF CallersCanTell

(* Every run of an agent is one execution of the decision table, so the    *)
(* table's theorems hold of whatever the process does.                     *)
THEOREM Refinement == AgentSpec => ImplementsDecisionTable
<1>1. AgentInit => Init /\ Unknown
  BY DEF AgentInit, Init, Unknown
<1>2. ASSUME AgentTypeOK, Unknown, [AgentNext]_agentVars
      PROVE  Unknown' /\ [Next]_vars
  <2>1. CASE AgentStep \/ CopierStep \/ Deadline \/ Kill
    <3>1. vars' = vars /\ tool'.pc = tool.pc
      BY <1>2, <2>1 DEF AgentStep, CopierStep, Write, WriteFile, Hint, LeaveChild, ChildEnds,
         Exit, Copy, CopyBreaks, Drain, Deadline, Kill, AgentTypeOK, Tools
    <3> QED  BY <1>2, <3>1 DEF Unknown, vars
  <2>2. CASE StartCommand \/ CannotStart \/ CommandReturns \/ Classify \/ ToolFails
    <3>1. vars' = vars
      BY <2>2 DEF StartCommand, CannotStart, CommandReturns, Classify, ToolFails
    <3>2. tool.pc \in {"prepare", "command", "classify"} \/ tool'.pc = "error"
      BY <1>2, <2>2 DEF StartCommand, CannotStart, CommandReturns, Classify, ToolFails,
         AgentTypeOK, Tools
    <3> QED  BY <1>2, <3>1, <3>2 DEF Unknown, vars
  <2>3. CASE Parse
    <3>1. tool.pc = "parse" /\ tool'.pc = "report"
      BY <1>2, <2>3 DEF Parse, AgentTypeOK, Tools
    <3>2. AgentEnds
      BY <1>2, <2>3 DEF Parse, AgentEnds, Endings, Unknown
    <3> QED  BY <3>1, <3>2 DEF Unknown, Next
  <2>4. CASE ToolReturns
    <3>1. tool'.pc = "done" /\ AgentReturns
      BY <1>2, <2>4 DEF ToolReturns, AgentTypeOK, Tools
    <3> QED  BY <3>1 DEF Unknown, Next
  <2>5. CASE Decide
    BY <1>2, <2>5 DEF Decide, OrchestratorDecides, Unknown, Next
  <2>6. CASE UNCHANGED agentVars
    BY <1>2, <2>6 DEF agentVars, vars, Unknown
  <2> QED  BY <1>2, <2>1, <2>2, <2>3, <2>4, <2>5, <2>6 DEF AgentNext, ToolStep
<1> QED  BY <1>1, <1>2, TypeCorrect, PTL DEF AgentSpec, Spec, ImplementsDecisionTable
=============================================================================
