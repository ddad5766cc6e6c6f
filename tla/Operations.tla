------------------------------ MODULE Operations ------------------------------
(***************************************************************************)
(* What the agent loop waits for.  AgentLoop and ToolService start a model *)
(* request, a shell command or a file change and await its outcome as one  *)
(* step; each of the three is a program of its own, modelled in a module   *)
(* of its own, and so are the compactions of a session, which await the    *)
(* model too.  Here one of them runs, whichever was dispatched.            *)
(***************************************************************************)
EXTENDS ModelStream, ShellTool, FileTool, Compaction

VARIABLE body   \* the operation: "model", "shell", "file" or "compact"

operationVars == <<body, modelVars, shellVars, fileVars, chatVars>>

\* The file of another operation is of no interest.
Init ==
  /\ body \in {"model", "shell", "file", "compact"}
  /\ ModelInit /\ ShellInit /\ FileInit /\ ChatInit
  /\ body # "file" => Creates /\ Expected

StepsModel == body = "model" /\ ModelNext /\ UNCHANGED <<body, shellVars, fileVars, chatVars>>
StepsShell == body = "shell" /\ ShellNext /\ UNCHANGED <<body, modelVars, fileVars, chatVars>>
StepsFile  == body = "file" /\ FileNext /\ UNCHANGED <<body, modelVars, shellVars, chatVars>>
StepsChat  == body = "compact" /\ ChatNext /\ UNCHANGED <<body, modelVars, shellVars, fileVars>>

Next == StepsModel \/ StepsShell \/ StepsFile \/ StepsChat

Fairness ==
  /\ body = "model" => ModelFairness
  /\ body = "shell" => ShellFairness
  /\ body = "file"  => FileFairness
  /\ body = "compact" => ChatFairness

Spec == Init /\ [][Next]_operationVars /\ Fairness

Returned == CASE body = "model" -> exec.pc = "done"
              [] body = "shell" -> shell.pc = "done"
              [] body = "file"  -> tool.pc = "done"
              [] body = "compact" -> ~Awaited

(***************************************************************************)
(* The loop is answered: a model request ends although the provider stays  *)
(* silent, a command although its processes ignore every signal, a file    *)
(* change whatever fails, and so does each compaction of a session.        *)
(***************************************************************************)
OperationEnds == ~Returned ~> Returned
=============================================================================
