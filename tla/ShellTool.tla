------------------------------- MODULE ShellTool -------------------------------
(***************************************************************************)
(* One shell command: executeShellTool starts a stopped bootstrap in a     *)
(* session of its own, records it as the owner, asks beforeEffect once     *)
(* more, releases it, polls until it exits, and then ends whatever the     *)
(* session still runs.  Processes exit, fork, leave the session or hold    *)
(* the output pipes open at moments of their own; the permission check is  *)
(* answered or refused while the loop polls; reading /proc may fail.       *)
(*                                                                         *)
(* The processes of the session are its leader and one background process; *)
(* a third may have left the session with the pipes.  Output bytes, exit   *)
(* codes other than zero or not, and process identity numbers are left     *)
(* out: a recorded identity is the leader's.                               *)
(***************************************************************************)
EXTENDS Integers

VARIABLES
  shell,   \* the local variables of executeShellTool
  os,      \* the processes
  late     \* elapsed: the command's deadline, and the grace periods of the cleanup (0, 1, 2)

shellVars == <<shell, os, late>>

ShellInit ==
  /\ shell = [pc |-> "check", spawnError |-> FALSE, owner |-> FALSE, activated |-> FALSE,
              exited |-> FALSE, ended |-> FALSE, broken |-> FALSE,
              pending |-> FALSE, passed |-> FALSE, guardFailure |-> "none",
              reason |-> "completed", phase |-> "term", cleanupFailed |-> FALSE, result |-> "none"]
  /\ os = [leader |-> "none", child |-> "none", escaped |-> "none"]
  /\ late = [deadline |-> FALSE, grace |-> 0]

Spawned == os.leader # "none"
Member  == os.leader \in {"boot", "stopped", "running"} \/ os.child = "running"

Break(s, why) == [s EXCEPT !.pc = "cleanup", !.reason = why]
Unmonitored(s) == [Break(s, "cleanup_failed") EXCEPT !.cleanupFailed = TRUE]
Shells(s) == shell' = s /\ UNCHANGED <<os, late>>

-----------------------------------------------------------------------------
(***************************************************************************)
(* Before the process exists.                                              *)
(***************************************************************************)

\* Platform, workspace and sandbox are checked, then the dispatch is.
Check ==
  /\ shell.pc = "check"
  /\ \/ Shells([shell EXCEPT !.pc = "permit"])
     \/ Shells([shell EXCEPT !.pc = "done", !.result = "failed"])

Permit ==
  /\ shell.pc = "permit"
  /\ \/ Shells([shell EXCEPT !.pc = "spawn"])
     \/ Shells([shell EXCEPT !.pc = "done", !.result = "threw"])

Spawn ==
  /\ shell.pc = "spawn"
  /\ shell' = [shell EXCEPT !.pc = "look"]
  /\ os' \in {os, [os EXCEPT !.leader = "boot"]}
  /\ UNCHANGED late

-----------------------------------------------------------------------------
(***************************************************************************)
(* One round of the polling loop: what ends it, then who owns the process, *)
(* then its release.  A round may fail to read /proc at any point.         *)
(***************************************************************************)
\* A released command is checked again from time to time; an exit with no check open ends the loop.
Polled(s) ==
  {[s EXCEPT !.pending = again, !.pc = IF s.exited /\ ~again THEN "cleanup" ELSE "look"] :
     again \in {s.pending, s.pending \/ (s.activated /\ ~s.exited)}}

Releasable == shell.owner /\ ~shell.activated /\ shell.passed /\ ~shell.pending

\* Between its checks and the end of a round the loop awaits only an identity or a release.
Look ==
  /\ shell.pc = "look"
  /\ shell' \in
       CASE shell.spawnError -> {Break(shell, "tool_failed")}
         [] ~shell.spawnError /\ shell.guardFailure # "none" ->
              {Break(shell, IF shell.guardFailure = "cancelled" THEN "cancel_requested" ELSE "runner_error")}
         [] ~shell.spawnError /\ shell.guardFailure = "none" /\ late.deadline -> {Break(shell, "timeout")}
         [] OTHER -> IF shell.owner /\ ~Releasable THEN Polled(shell) ELSE {[shell EXCEPT !.pc = "act"]}
  /\ UNCHANGED <<os, late>>

\* SIGCONT to the process whose stopped identity was rechecked.
Release ==
  /\ shell.pc = "act" /\ Releasable
  /\ IF os.leader = "stopped"
     THEN shell' \in Polled([shell EXCEPT !.activated = TRUE]) /\ os' = [os EXCEPT !.leader = "running"]
     ELSE shell' = Unmonitored(shell) /\ UNCHANGED os
  /\ UNCHANGED late

\* The stopped bootstrap becomes the owner, and the dispatch is checked again.
Watch ==
  /\ shell.pc = "act" /\ ~shell.owner
  /\ shell' \in CASE os.leader = "stopped" -> Polled([shell EXCEPT !.owner = TRUE, !.pending = TRUE])
                  [] os.leader # "stopped" /\ shell.exited -> {Break(shell, "tool_failed")}
                  [] OTHER -> Polled(shell)
  /\ UNCHANGED <<os, late>>

MonitorFails == shell.pc \in {"look", "act"} /\ Shells(Unmonitored(shell))

\* beforeEffect answers: the dispatch holds, the run was cancelled, or the store or service failed.
GuardAnswers ==
  /\ shell.pending
  /\ \/ Shells([shell EXCEPT !.pending = FALSE, !.passed = TRUE])
     \/ \E why \in {"cancelled", "failed"} : Shells([shell EXCEPT !.pending = FALSE, !.guardFailure = why])

-----------------------------------------------------------------------------
(***************************************************************************)
(* Cleanup.  A bootstrap that was never released is killed, not resumed.   *)
(***************************************************************************)
Unproven(s) == [s EXCEPT !.pc = "settle", !.cleanupFailed = TRUE]

Cleanup ==
  /\ shell.pc = "cleanup"
  /\ LET owner == shell.owner \/ os.leader = "stopped"
     IN Shells(CASE owner -> [shell EXCEPT !.owner = TRUE, !.pc = "drain",
                                          !.phase = IF shell.activated THEN "term" ELSE "kill"]
                 [] ~owner /\ (shell.spawnError \/ (shell.exited /\ shell.ended)) /\ ~shell.broken ->
                      [shell EXCEPT !.pc = "settle"]
                 [] OTHER -> Unproven(shell))

\* Cleanup that trusts the leader's exit.
FaultyQuiet == shell.exited

Quiet == ~Member /\ shell.exited /\ shell.ended

Drain ==
  /\ shell.pc = "drain"
  /\ \/ Quiet /\ Shells(IF shell.broken THEN Unproven(shell) ELSE [shell EXCEPT !.pc = "settle"])
     \/ ~Quiet /\ shell.phase = "term" /\ late.grace >= 1 /\ Shells([shell EXCEPT !.phase = "kill"])
     \/ ~Quiet /\ late.grace = 2 /\ Shells(Unproven(shell))

\* /proc cannot be read, or a signal is not permitted.
DrainFails == shell.pc \in {"cleanup", "drain"} /\ Shells(Unproven(shell))

Settle ==
  /\ shell.pc = "settle"
  /\ \E outcome \in
       CASE shell.guardFailure = "failed" -> {"threw"}
         [] shell.guardFailure # "failed" /\ shell.cleanupFailed -> {"cleanup_failed"}
         [] OTHER -> CASE shell.reason = "completed" /\ os.leader = "exited" -> {"succeeded", "failed"}
                       [] shell.reason = "cancel_requested" -> {"cancelled"}
                       [] OTHER -> {"failed"} :
       Shells([shell EXCEPT !.pc = "done", !.result = outcome])

-----------------------------------------------------------------------------
(***************************************************************************)
(* The processes, what node hears of them, and the clock.  A process may   *)
(* end at any time, by itself or by a signal; none has to.                 *)
(***************************************************************************)
Processes(new) == os' = new /\ UNCHANGED <<shell, late>>

BootStops == os.leader = "boot" /\ Processes([os EXCEPT !.leader = "stopped"])
Forks     == os.leader = "running" /\ os.child = "none" /\ Processes([os EXCEPT !.child = "running"])
Escapes   == (os.leader = "running" \/ os.child = "running") /\ os.escaped = "none"
             /\ Processes([os EXCEPT !.escaped = "running"])
LeaderExits   == os.leader = "running" /\ Processes([os EXCEPT !.leader = "exited"])
LeaderKilled  == os.leader \in {"boot", "stopped", "running"} /\ Processes([os EXCEPT !.leader = "killed"])
ChildEnds   == os.child = "running" /\ Processes([os EXCEPT !.child = "ended"])
EscapedEnds == os.escaped = "running" /\ Processes([os EXCEPT !.escaped = "ended"])

Hears(s) == shell' = s /\ UNCHANGED <<os, late>>
Waits    == shell.pc \in {"look", "act", "cleanup", "drain"}

SpawnFails == Waits /\ ~Spawned /\ ~shell.spawnError /\ Hears([shell EXCEPT !.spawnError = TRUE])
HearsExit  == Waits /\ os.leader \in {"exited", "killed"} /\ ~shell.exited /\ Hears([shell EXCEPT !.exited = TRUE])
\* Both pipes end once nobody holds them.
HearsEnd   == /\ Waits /\ Spawned /\ ~Member /\ os.escaped # "running" /\ ~shell.ended
              /\ Hears([shell EXCEPT !.ended = TRUE])
PipeBreaks == Waits /\ Spawned /\ ~shell.broken /\ Hears([shell EXCEPT !.broken = TRUE])

DeadlineComes == shell.pc \in {"look", "act"} /\ ~late.deadline
                 /\ late' = [late EXCEPT !.deadline = TRUE] /\ UNCHANGED <<shell, os>>

\* A cleanup that waits for its processes without a deadline.
FaultyGraceEnds == shell.pc = "drain" /\ late.grace < 1
                   /\ late' = [late EXCEPT !.grace = @ + 1] /\ UNCHANGED <<shell, os>>

GraceEnds == shell.pc = "drain" /\ late.grace < 2
             /\ late' = [late EXCEPT !.grace = @ + 1] /\ UNCHANGED <<shell, os>>

ShellSteps == \/ Check \/ Permit \/ Spawn \/ Look \/ Release \/ Watch
              \/ Cleanup \/ Drain \/ Settle

ShellNext ==
  \/ ShellSteps \/ MonitorFails \/ GuardAnswers \/ DrainFails
  \/ BootStops \/ Forks \/ Escapes \/ LeaderExits \/ LeaderKilled \/ ChildEnds \/ EscapedEnds
  \/ SpawnFails \/ HearsExit \/ HearsEnd \/ PipeBreaks \/ DeadlineComes \/ GraceEnds

\* The loop polls and time passes; no process has to do anything, nor the later checks to be answered.
ShellFairness ==
  /\ WF_shellVars(ShellSteps)
  /\ WF_shellVars(DeadlineComes) /\ WF_shellVars(GraceEnds)

-----------------------------------------------------------------------------
(***************************************************************************)
(* The user's command runs only under a recorded owner and a permission    *)
(* given after it was recorded.  A known outcome (anything but             *)
(* cleanup_failed or an error) leaves no process of the session running    *)
(* and no output unread, and only a released command succeeds.             *)
(***************************************************************************)
CommandIsOwned ==
  /\ os.leader = "running" => shell.owner /\ shell.passed
  /\ shell.result \in {"succeeded", "failed", "cancelled"} /\ Spawned => ~Member /\ shell.ended
  /\ shell.result \in {"succeeded", "cancelled"} => shell.guardFailure # "failed" /\ Spawned
  /\ shell.result = "succeeded" => shell.activated
=============================================================================
