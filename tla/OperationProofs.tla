---------------------------- MODULE OperationProofs ----------------------------
(***************************************************************************)
(* Proofs about the three operations the agent loop waits for: a file      *)
(* change, a shell command and a model request.  Each has an inductive     *)
(* invariant of its own, made of named parts; the steps of the other       *)
(* operations leave its variables alone.                                   *)
(***************************************************************************)
EXTENDS Operations, TLAPS

-----------------------------------------------------------------------------
(***************************************************************************)
(* A file change.                                                          *)
(***************************************************************************)
Errors   == {"tool_failed", "cancelled", "threw", "cleanup_failed"}

FileType ==
  /\ tool \in [op        : {"create", "edit", "same"},
               pc        : {"open", "inspect", "permit", "temp", "write", "guard", "recheck", "change", "unlink", "sync",
                            "unwind", "close", "done"},
               owned     : BOOLEAN,
               attempted : BOOLEAN,
               error     : {"none"} \cup Errors,
               result    : {"none", "succeeded"} \cup Errors]
  /\ target \in {"absent", "before", "after", "other"}
  /\ put \in {"nothing", "absent", "before", "after", "other"}
  /\ temp \in BOOLEAN

Before    == {"open", "inspect", "permit", "temp", "write", "guard", "recheck", "change"}
Unwinding == {"unwind", "close", "done"}

\* Nothing is changed before the change; what was changed is attempted, or made by a link that failed.
ChangePoint ==
  /\ put # "nothing" =>
       tool.attempted \/ (Creates /\ put = "absent" /\ tool.pc \in Unwinding /\ tool.error \in {"tool_failed", "cleanup_failed"})
  /\ tool.pc \in Before => ~tool.attempted
  /\ tool.pc \in {"unlink", "sync"} => put # "nothing"
  /\ Creates => put \in {"nothing", "absent"}

\* The temporary file that exists is owned; what is owned is removed, or the outcome is uncertain.
TempOwned ==
  /\ temp => tool.owned
  /\ tool.pc \in {"open", "inspect", "permit", "temp", "sync"} => ~tool.owned
  /\ tool.op = "same" => ~tool.owned
  /\ tool.pc \in {"close", "done"} /\ temp => tool.error = "cleanup_failed"

\* What is thrown after the attempt says that the outcome is unknown.
ErrorIsKnown ==
  /\ tool.pc = "unwind" => tool.error # "none"
  /\ tool.pc \notin Unwinding => tool.error = "none"
  /\ tool.pc \in Unwinding /\ tool.error = "none" => put # "nothing" \/ tool.op = "same"
  /\ tool.pc \in Unwinding /\ tool.error # "none" /\ tool.attempted => tool.error = "cleanup_failed"
  /\ tool.op = "same" => tool.pc \notin {"temp", "write", "guard", "change", "unlink", "sync"}

ResultIsError ==
  /\ tool.pc # "done" => tool.result = "none"
  /\ tool.result = "succeeded" => tool.error = "none"
  /\ tool.result \in {"cancelled", "tool_failed", "threw"} => tool.result = tool.error

FileInv == FileType /\ ChangePoint /\ TempOwned /\ ErrorIsKnown /\ ResultIsError

\* A file tool begins with nothing changed, owned or attempted.
LEMMA FileInitial == FileInit => FileInv
<1> SUFFICES ASSUME FileInit PROVE FileInv
  OBVIOUS
<1> PICK op \in {"create", "edit", "same"} :
      tool = [op |-> op, pc |-> "open", owned |-> FALSE, attempted |-> FALSE, error |-> "none", result |-> "none"]
  BY DEF FileInit
<1> QED
  BY DEF FileInit, FileInv, FileType, ChangePoint, TempOwned, ErrorIsKnown, ResultIsError, Before, Unwinding,
         Creates, Errors

\* What is thrown before the change point leaves the file as it was.
LEMMA Raised ==
  ASSUME FileInv, tool.pc \notin Unwinding, NEW error \in Errors, tool' = Raise(error),
         UNCHANGED <<target, temp, put>>
  PROVE  FileInv'
BY DEF FileInv, FileType, ChangePoint, TempOwned, ErrorIsKnown, ResultIsError, Before, Unwinding, Creates, Errors, Raise

\* A check of the dispatch passes, or ends the change.
LEMMA Guarded ==
  ASSUME FileInv, NEW from \in {"open", "permit", "guard"}, NEW to, Guard(from, to),
         \/ from = "open" /\ to = "inspect"
         \/ from = "permit" /\ to = IF tool.op = "same" THEN "recheck" ELSE "temp"
         \/ from = "guard" /\ to = "recheck"
  PROVE  FileInv'
<1>1. CASE Pass(from, to)
  BY <1>1 DEF Pass, At, Goto, FileInv, FileType, ChangePoint, TempOwned, ErrorIsKnown, ResultIsError, Before,
              Unwinding, Creates, Errors
<1>2. CASE At(from) /\ tool' \in {Raise("cancelled"), Raise("threw")} /\ UNCHANGED <<target, temp, writes, put>>
  <2>1. tool.pc \notin Unwinding
    BY <1>2 DEF At, Unwinding
  <2>2. PICK error \in {"cancelled", "threw"} : tool' = Raise(error)
    BY <1>2
  <2> QED BY <1>2, <2>1, <2>2, Raised DEF Errors
<1> QED BY <1>1, <1>2 DEF Guard

\* Every call the file tool makes, and every other writer, keeps the invariant.
LEMMA FileStep == FileInv /\ [FileNext]_fileVars => FileInv'
<1> SUFFICES ASSUME FileInv, [FileNext]_fileVars PROVE FileInv'
  OBVIOUS
<1> USE DEF At, Goto, Pass, Fails, Expected, Found, Changed
<1>1. CASE Enter
  BY <1>1, Guarded DEF Enter
<1>4. CASE AskAgain
  BY <1>4, Guarded DEF AskAgain
<1>7. CASE LastGuard
  BY <1>7, Guarded DEF LastGuard
<1>16. CASE CallFails \/ (LinkFails /\ Fails)
  <2>1. tool.pc \notin Unwinding /\ tool' = Raise("tool_failed") /\ UNCHANGED <<target, temp, put>>
    BY <1>16 DEF CallFails, LinkFails, Unwinding
  <2> QED BY <2>1, Raised DEF Errors
<1>15. CASE CloseTempFails
  <2>1. tool.pc \notin Unwinding /\ UNCHANGED <<target, temp, put>>
    BY <1>15 DEF CloseTempFails, Unwinding
  <2>2. PICK error \in Errors : tool' = Raise(error)
    BY <1>15 DEF CloseTempFails, Errors
  <2> QED BY <2>1, <2>2, Raised
<1> USE DEF FileInv, FileType, ChangePoint, TempOwned, ErrorIsKnown, ResultIsError, Before, Unwinding, Creates, Errors,
            Raise
<1>2. CASE InspectParent BY <1>2 DEF InspectParent
<1>3. CASE InspectTarget BY <1>3 DEF InspectTarget
<1>5. CASE OpenTemp BY <1>5 DEF OpenTemp
<1>6. CASE Write BY <1>6 DEF Write
<1>8. CASE Recheck BY <1>8 DEF Recheck
<1>9. CASE Link BY <1>9 DEF Link
<1>10. CASE UnlinkTemp BY <1>10 DEF UnlinkTemp
<1>11. CASE Rename
  <2>1. CASE Changed("sync") /\ temp' = FALSE
    BY <1>11, <2>1 DEF Rename
  <2>2. CASE tool' = [Raise("cleanup_failed") EXCEPT !.attempted = TRUE]
    <3>1. /\ tool'.pc = "unwind" /\ tool'.error = "cleanup_failed" /\ tool'.attempted = TRUE
          /\ tool'.op = tool.op /\ tool'.owned = tool.owned /\ tool'.result = tool.result
      BY <2>2
    <3>2. FileType' /\ tool.pc = "change" /\ ~Creates
      BY <1>11, <2>2 DEF Rename
    <3>3. (put' = put /\ temp' = temp) \/ ~temp'
      BY <1>11, <2>2 DEF Rename
    <3> QED BY <3>1, <3>2, <3>3
  <2> QED BY <1>11, <2>1, <2>2 DEF Rename
<1>17. CASE LinkFails /\ target = "absent" /\ target' = "after" /\ put' = target /\ tool' = Raise("tool_failed")
                      /\ UNCHANGED <<temp, writes>>
  BY <1>17 DEF LinkFails
<1>12. CASE SyncParent BY <1>12 DEF SyncParent
<1>13. CASE Unwind
  <2>0. tool.pc = "unwind" /\ UNCHANGED <<target, put>>
    BY <1>13 DEF Unwind
  <2>1. CASE ~tool.owned /\ tool' = [tool EXCEPT !.pc = "close"] /\ temp' = temp
    BY <2>0, <2>1
  <2>2. CASE tool.owned /\ tool' = [tool EXCEPT !.pc = "close"] /\ temp' = FALSE
    BY <2>0, <2>2
  <2>3. CASE tool.owned /\ tool' = [tool EXCEPT !.pc = "close", !.error = "cleanup_failed"] /\ temp' = temp
    <3>1. /\ tool'.pc = "close" /\ tool'.error = "cleanup_failed" /\ tool'.attempted = tool.attempted
          /\ tool'.op = tool.op /\ tool'.owned = tool.owned /\ tool'.result = tool.result
      BY <2>3
    <3>2. FileType'
      BY <2>0, <2>3
    <3> QED BY <2>0, <2>3, <3>1, <3>2
  <2> QED BY <1>13, <2>1, <2>2, <2>3 DEF Unwind
<1>14. CASE CloseHandles
  <2>0. tool.pc = "close" /\ UNCHANGED <<target, temp, put>>
    BY <1>14 DEF CloseHandles
  <2>1. PICK result \in {"cleanup_failed", "succeeded", tool.error} :
          /\ tool' = [tool EXCEPT !.pc = "done", !.result = result]
          /\ result = "succeeded" <=> tool.error = "none" /\ result # "cleanup_failed"
    BY <1>14 DEF CloseHandles
  <2>2. FileType'
    BY <2>0, <2>1
  <2>3. ChangePoint' /\ TempOwned'
    BY <2>0, <2>1
  <2>4. ErrorIsKnown' /\ ResultIsError'
    BY <2>0, <2>1
  <2> QED BY <2>2, <2>3, <2>4
<1>18. CASE OtherWrites BY <1>18 DEF OtherWrites
<1>19. CASE UNCHANGED fileVars BY <1>19 DEF fileVars
<1> QED
  BY <1>1, <1>2, <1>3, <1>4, <1>5, <1>6, <1>7, <1>8, <1>9, <1>10, <1>11, <1>12, <1>13, <1>14, <1>15, <1>16, <1>17, <1>18, <1>19
  DEF FileNext, FileSteps, LinkFails

(***************************************************************************)
(* The outcome of a file change says what happened to the file             *)
(* (createFile, executeFileTool): a success changed it, a known failure    *)
(* did not, unless link made the new name and reported an error, and       *)
(* whatever else may have happened is reported as uncertain.               *)
(***************************************************************************)
THEOREM ChangeIsKnownCorrect == Spec => []ChangeIsKnown
<1>1. Init => FileInv
  BY FileInitial DEF Init
<1>2. FileInv /\ [Next]_operationVars => FileInv'
  BY FileStep DEF Next, StepsModel, StepsShell, StepsFile, StepsChat, operationVars, fileVars
<1>3. FileInv => ChangeIsKnown
  BY DEF FileInv, FileType, ChangePoint, TempOwned, ErrorIsKnown, ResultIsError, ChangeIsKnown,
         LinkMisreported, Unwinding, Errors, Creates
<1> QED BY <1>1, <1>2, <1>3, PTL DEF Spec

-----------------------------------------------------------------------------
(***************************************************************************)
(* A shell command.                                                        *)
(***************************************************************************)
ShellPoints == {"check", "permit", "spawn", "look", "act", "cleanup", "drain", "settle", "done"}
Reasons == {"completed", "tool_failed", "cancel_requested", "runner_error", "timeout", "cleanup_failed"}

ShellRecord ==
  [pc : ShellPoints,
   spawnError : BOOLEAN, owner : BOOLEAN, activated : BOOLEAN,
   exited : BOOLEAN, ended : BOOLEAN, broken : BOOLEAN, pending : BOOLEAN, passed : BOOLEAN,
   guardFailure : {"none", "cancelled", "failed"},
   reason : Reasons,
   phase : {"term", "kill"}, cleanupFailed : BOOLEAN,
   result : {"none", "succeeded", "failed", "cancelled", "cleanup_failed", "threw"}]

ProcessRecord ==
  [leader  : {"none", "boot", "stopped", "running", "exited", "killed"},
   child   : {"none", "running", "ended"},
   escaped : {"none", "running", "ended"}]

ShellType == shell \in ShellRecord /\ os \in ProcessRecord

\* A process is owned before it is asked about, permitted before it is released, and released before it runs.
Owned ==
  /\ shell.owner => os.leader \notin {"none", "boot"}
  /\ shell.pending \/ shell.passed \/ shell.activated \/ shell.guardFailure # "none" => shell.owner
  /\ os.leader = "running" => shell.passed
  /\ os.leader \in {"running", "exited"} => shell.activated

\* What node has heard is so, and the session does not come to life again.
Heard ==
  /\ shell.pc \in {"check", "permit", "spawn"} => ~Spawned /\ ~shell.spawnError
  /\ shell.spawnError => ~Spawned
  /\ shell.ended => Spawned /\ ~Member

\* A failed check is the last one, and an exit is not taken for the end while a check is open.
Asked ==
  /\ shell.guardFailure # "none" => ~shell.pending
  /\ shell.pc = "act" => shell.guardFailure = "none" /\ ~shell.pending
  /\ shell.pc \in {"cleanup", "drain", "settle", "done"} /\ shell.reason = "completed"
       => shell.guardFailure = "none" /\ ~shell.pending
  /\ shell.reason = "cancel_requested" => shell.guardFailure = "cancelled"

\* Cleanup that proves its end, and the outcome that says so.
Proven ==
  /\ shell.pc # "done" => shell.result = "none"
  /\ shell.pc = "settle" /\ ~shell.cleanupFailed /\ Spawned => shell.ended
  /\ shell.result \in {"succeeded", "failed", "cancelled"} /\ Spawned => shell.ended
  /\ shell.result \in {"succeeded", "cancelled"} => Spawned /\ shell.guardFailure # "failed" /\ ~shell.pending
  /\ shell.result = "succeeded" => shell.activated

ShellInv == ShellType /\ Owned /\ Heard /\ Asked /\ Proven

\* What every move of the polling loop and of the cleanup leaves alone.
Alike(s, f) ==
  /\ f.spawnError = s.spawnError /\ f.owner = s.owner /\ f.activated = s.activated
  /\ f.exited = s.exited /\ f.ended = s.ended /\ f.broken = s.broken /\ f.passed = s.passed
  /\ f.guardFailure = s.guardFailure /\ f.phase = s.phase /\ f.result = s.result

-----------------------------------------------------------------------------
(***************************************************************************)
(* What the helpers return, field by field.                                *)
(***************************************************************************)
LEMMA PolledFields ==
  ASSUME NEW s \in ShellRecord, NEW f \in Polled(s)
  PROVE  /\ f \in ShellRecord /\ Alike(s, f)
         /\ f.reason = s.reason /\ f.cleanupFailed = s.cleanupFailed
         /\ f.pc \in {"look", "cleanup"}
         /\ f.pc = "cleanup" => ~f.pending
         /\ f.pending => s.pending \/ s.activated
BY DEF Polled, ShellRecord, ShellPoints, Reasons, Alike

LEMMA BreakFields ==
  ASSUME NEW s \in ShellRecord, NEW why \in Reasons
  PROVE  /\ Break(s, why) \in ShellRecord /\ Alike(s, Break(s, why)) 
         /\ Break(s, why).pending = s.pending /\ Break(s, why).reason = why
         /\ Break(s, why).pc = "cleanup" /\ Break(s, why).cleanupFailed = s.cleanupFailed
BY DEF Break, ShellRecord, ShellPoints, Reasons, Alike

LEMMA UnmonitoredFields ==
  ASSUME NEW s \in ShellRecord
  PROVE  /\ Unmonitored(s) \in ShellRecord /\ Alike(s, Unmonitored(s)) 
         /\ Unmonitored(s).pending = s.pending /\ Unmonitored(s).reason = "cleanup_failed"
         /\ Unmonitored(s).pc = "cleanup" /\ Unmonitored(s).cleanupFailed = TRUE
BY DEF Break, Unmonitored, ShellRecord, ShellPoints, Reasons, Alike

LEMMA UnprovenFields ==
  ASSUME NEW s \in ShellRecord
  PROVE  /\ Unproven(s) \in ShellRecord /\ Alike(s, Unproven(s)) 
         /\ Unproven(s).pending = s.pending /\ Unproven(s).reason = s.reason
         /\ Unproven(s).pc = "settle" /\ Unproven(s).cleanupFailed = TRUE
BY DEF Unproven, ShellRecord, ShellPoints, Reasons, Alike

LEMMA PointFields ==
  ASSUME NEW s \in ShellRecord,  NEW pc \in ShellPoints
  PROVE  /\ [s EXCEPT !.pc = pc] \in ShellRecord /\ Alike(s, [s EXCEPT !.pc = pc]) 
         /\ [s EXCEPT !.pc = pc].pending = s.pending /\ [s EXCEPT !.pc = pc].reason = s.reason
         /\ [s EXCEPT !.pc = pc].pc = pc /\ [s EXCEPT !.pc = pc].cleanupFailed = s.cleanupFailed
BY DEF ShellRecord, Alike

\* A move that only the point, the reason and the open check tell apart.
LEMMA Goes ==
  ASSUME ShellInv, os' = os, shell' \in ShellRecord, Alike(shell, shell'),
         shell.pc \notin {"check", "permit", "spawn", "done"}, shell'.pc \notin {"check", "permit", "spawn", "done"},
         shell'.pending => shell.pending \/ shell.activated,
         shell.guardFailure # "none" => ~shell'.pending,
         shell'.pc = "act" => shell.guardFailure = "none" /\ ~shell'.pending,
         shell'.pc \in {"cleanup", "drain", "settle"} /\ shell'.reason = "completed" =>
           shell.guardFailure = "none" /\ ~shell'.pending,
         shell'.reason = "cancel_requested" => shell.guardFailure = "cancelled",
         shell'.pc = "settle" /\ ~shell'.cleanupFailed /\ Spawned => shell.ended
  PROVE  ShellInv'
<1>1. ShellType'
  BY DEF ShellInv, ShellType
<1>2. Owned'
  BY DEF ShellInv, Owned, Alike
<1>3. Heard'
  BY DEF ShellInv, Heard, Spawned, Member, Alike
<1>4. Asked'
  BY DEF ShellInv, Asked, Alike
<1>5. Proven'
  BY DEF ShellInv, Proven, Spawned, Alike
<1> QED BY <1>1, <1>2, <1>3, <1>4, <1>5 DEF ShellInv

\* How the end of the loop was reached.
LEMMA Over ==
  ASSUME ShellInv
  PROVE  /\ shell.guardFailure # "none" => ~shell.pending
         /\ shell.reason = "cancel_requested" => shell.guardFailure = "cancelled"
         /\ shell.pc \in {"cleanup", "drain", "settle"} /\ shell.reason = "completed"
              => shell.guardFailure = "none" /\ ~shell.pending
BY DEF ShellInv, Asked

\* A round begins: something ends the loop, or the loop acts or polls.
LEMMA LookStep == ASSUME ShellInv, Look PROVE ShellInv'
<1>0. shell.pc = "look" /\ os' = os /\ shell \in ShellRecord
  BY DEF Look, ShellInv, ShellType
<1>1. ASSUME NEW why \in Reasons, shell' = Break(shell, why), why # "completed",
             why = "cancel_requested" => shell.guardFailure = "cancelled"
      PROVE  ShellInv'
  BY <1>0, <1>1, BreakFields, Goes DEF ShellInv, Asked
<1>2. CASE shell' = [shell EXCEPT !.pc = "act"] /\ shell.guardFailure = "none" /\ (~shell.owner \/ Releasable)
  <2>1. ~shell.pending
    BY <1>2 DEF ShellInv, Owned, Releasable
  <2>2. shell.reason # "cancel_requested"
    BY <1>2 DEF ShellInv, Asked
  <2> QED BY <1>0, <1>2, <2>1, <2>2, PointFields, Goes DEF ShellPoints
<1>3. CASE shell' \in Polled(shell) /\ shell.guardFailure = "none"
  <2>2. shell.reason # "cancel_requested"
    BY <1>3 DEF ShellInv, Asked
  <2> QED BY <1>0, <1>3, <2>2, PolledFields, Goes
<1>4. CASE shell.spawnError \/ shell.guardFailure # "none" \/ late.deadline
  <2>1. PICK why \in Reasons : 
          shell' = Break(shell, why) /\ why # "completed" /\ (why = "cancel_requested" => shell.guardFailure = "cancelled")
    BY <1>4 DEF Look, Reasons
  <2> QED BY <1>1, <2>1
<1>5. CASE ~(shell.spawnError \/ shell.guardFailure # "none" \/ late.deadline)
  <2>1. shell' \in IF shell.owner /\ ~Releasable THEN Polled(shell) ELSE {[shell EXCEPT !.pc = "act"]}
    BY <1>5 DEF Look
  <2>2. CASE shell.owner /\ ~Releasable
    BY <1>3, <1>5, <2>1, <2>2
  <2>3. CASE ~(shell.owner /\ ~Releasable)
    BY <1>2, <1>5, <2>1, <2>3
  <2> QED BY <2>2, <2>3
<1> QED BY <1>4, <1>5

\* SIGCONT goes to a process that is owned, asked about and permitted.
LEMMA ReleaseStep == ASSUME ShellInv, Release PROVE ShellInv'
<1>0. /\ shell.pc = "act" /\ shell \in ShellRecord /\ os \in ProcessRecord
      /\ shell.owner /\ shell.passed /\ shell.guardFailure = "none" /\ ~shell.pending
  BY DEF Release, ShellInv, ShellType, Asked, Releasable
<1>1. CASE os.leader # "stopped"
  <2>1. shell' = Unmonitored(shell) /\ os' = os
    BY <1>1 DEF Release
  <2> QED BY <1>0, <2>1, UnmonitoredFields, Goes
<1>2. CASE os.leader = "stopped"
  <2> DEFINE released == [shell EXCEPT !.activated = TRUE]
  <2>1. shell' \in Polled(released) /\ os' = [os EXCEPT !.leader = "running"]
    BY <1>2 DEF Release
  <2>2. /\ released \in ShellRecord /\ released.activated = TRUE
        /\ released.owner = shell.owner /\ released.passed = shell.passed /\ released.ended = shell.ended
        /\ released.pending = shell.pending /\ released.guardFailure = shell.guardFailure
        /\ released.reason = shell.reason /\ released.result = shell.result /\ released.spawnError = shell.spawnError
    BY <1>0 DEF ShellRecord
  <2> HIDE DEF released
  <2>3. /\ shell' \in ShellRecord /\ Alike(released, shell') /\ shell'.reason = released.reason
        /\ shell'.pc \in {"look", "cleanup"} /\ (shell'.pc = "cleanup" => ~shell'.pending)
    BY <2>1, <2>2, PolledFields
  <2>4. os' \in ProcessRecord /\ os'.leader = "running"
    BY <1>0, <2>1 DEF ProcessRecord
  <2>5. ShellType' /\ Owned'
    BY <1>0, <2>2, <2>3, <2>4 DEF ShellType, Owned, Alike
  <2>6. Heard'
    BY <1>0, <1>2, <2>2, <2>3, <2>4 DEF ShellInv, Heard, Alike, Spawned, Member
  <2>7. Asked'
    BY <1>0, <2>2, <2>3 DEF ShellInv, Asked, Alike
  <2>8. Proven'
    BY <1>0, <2>2, <2>3 DEF ShellInv, Proven, Alike
  <2> QED BY <2>5, <2>6, <2>7, <2>8 DEF ShellInv
<1> QED BY <1>1, <1>2

\* The stopped bootstrap becomes the owner, and the dispatch is checked again.
LEMMA WatchStep == ASSUME ShellInv, Watch PROVE ShellInv'
<1>0. shell.pc = "act" /\ shell \in ShellRecord /\ ~shell.owner /\ shell.guardFailure = "none" /\ ~shell.pending /\ os' = os
  BY DEF Watch, ShellInv, ShellType, Asked
<1>1. CASE os.leader = "stopped"
  <2> DEFINE found == [shell EXCEPT !.owner = TRUE, !.pending = TRUE]
  <2>1. shell' \in Polled(found)
    BY <1>1 DEF Watch
  <2>2. /\ found \in ShellRecord /\ found.owner = TRUE /\ found.pending = TRUE
        /\ found.activated = shell.activated /\ found.passed = shell.passed /\ found.ended = shell.ended
        /\ found.guardFailure = shell.guardFailure
        /\ found.reason = shell.reason /\ found.result = shell.result /\ found.spawnError = shell.spawnError
    BY <1>0 DEF ShellRecord
  <2> HIDE DEF found
  <2>3. /\ shell' \in ShellRecord /\ Alike(found, shell') /\ shell'.reason = found.reason
        /\ shell'.pc \in {"look", "cleanup"} /\ (shell'.pc = "cleanup" => ~shell'.pending)
    BY <2>1, <2>2, PolledFields
  <2>5. ShellType' /\ Owned'
    BY <1>0, <1>1, <2>2, <2>3 DEF ShellInv, ShellType, Owned, Alike
  <2>6. Heard'
    BY <1>0, <2>2, <2>3 DEF ShellInv, Heard, Alike, Spawned, Member
  <2>7. Asked'
    BY <1>0, <2>2, <2>3 DEF ShellInv, Asked, Alike
  <2>8. Proven'
    BY <1>0, <2>2, <2>3 DEF ShellInv, Proven, Alike
  <2> QED BY <2>5, <2>6, <2>7, <2>8 DEF ShellInv
<1>2. CASE os.leader # "stopped" /\ shell.exited
  <2>1. shell' = Break(shell, "tool_failed")
    BY <1>2 DEF Watch
  <2> QED BY <1>0, <2>1, BreakFields, Goes DEF Reasons
<1>3. CASE os.leader # "stopped" /\ ~shell.exited
  <2>1. shell' \in Polled(shell)
    BY <1>3 DEF Watch
  <2>2. shell.reason # "cancel_requested"
    BY <1>0 DEF ShellInv, Asked
  <2> QED BY <1>0, <2>1, <2>2, PolledFields, Goes
<1> QED BY <1>1, <1>2, <1>3

\* Cleanup names the stopped bootstrap the owner, or finds nothing to wait for.
LEMMA CleanupStep == ASSUME ShellInv, Cleanup PROVE ShellInv'
<1>0. shell.pc = "cleanup" /\ shell \in ShellRecord /\ os' = os /\ os \in ProcessRecord
  BY DEF Cleanup, Shells, ShellInv, ShellType
<1>1. CASE shell.owner \/ os.leader = "stopped"
  <2>1. PICK phase \in {"term", "kill"} : shell' = [shell EXCEPT !.owner = TRUE, !.pc = "drain", !.phase = phase]
    BY <1>1 DEF Cleanup, Shells
  <2>2. /\ shell' \in ShellRecord /\ shell'.pc = "drain" /\ shell'.owner = TRUE
        /\ shell'.pending = shell.pending /\ shell'.activated = shell.activated /\ shell'.passed = shell.passed
        /\ shell'.ended = shell.ended /\ shell'.guardFailure = shell.guardFailure /\ shell'.reason = shell.reason
        /\ shell'.result = shell.result /\ shell'.spawnError = shell.spawnError
    BY <1>0, <2>1 DEF ShellRecord, ShellPoints
  <2>3. ShellType' /\ Owned'
    BY <1>0, <1>1, <2>2 DEF ShellInv, ShellType, Owned
  <2>4. Heard'
    BY <1>0, <2>2 DEF ShellInv, Heard, Spawned, Member
  <2>5. Asked' /\ Proven'
    BY <1>0, <2>2 DEF ShellInv, Asked, Proven
  <2> QED BY <2>3, <2>4, <2>5 DEF ShellInv
<1>2. CASE shell' = [shell EXCEPT !.pc = "settle"] /\ (shell.spawnError \/ shell.ended)
  <2>1. Spawned => shell.ended
    BY <1>2 DEF ShellInv, Heard
  <2>2. /\ shell' \in ShellRecord /\ Alike(shell, shell') /\ shell'.pc = "settle"
        /\ shell'.pending = shell.pending /\ shell'.reason = shell.reason
    BY <1>0, <1>2, PointFields DEF ShellPoints
  <2> QED BY <1>0, <2>1, <2>2, Over, Goes
<1>3. CASE shell' = Unproven(shell)
  <2>1. /\ shell' \in ShellRecord /\ Alike(shell, shell') /\ shell'.pc = "settle" /\ shell'.cleanupFailed = TRUE
        /\ shell'.pending = shell.pending /\ shell'.reason = shell.reason
    BY <1>0, <1>3, UnprovenFields
  <2> QED BY <1>0, <2>1, Over, Goes
<1>4. \/ shell.owner \/ os.leader = "stopped"
      \/ shell' = [shell EXCEPT !.pc = "settle"] /\ (shell.spawnError \/ shell.ended)
      \/ shell' = Unproven(shell)
  BY DEF Cleanup, Shells
<1> QED BY <1>1, <1>2, <1>3, <1>4

\* The cleanup ends in proof or without it.
LEMMA DrainStep == ASSUME ShellInv, Drain \/ DrainFails \/ MonitorFails PROVE ShellInv'
<1>0. shell.pc \in {"look", "act", "cleanup", "drain"} /\ shell \in ShellRecord /\ os' = os
  BY DEF Drain, DrainFails, MonitorFails, Shells, ShellInv, ShellType
<1>1. CASE shell' = [shell EXCEPT !.pc = "settle"] /\ Quiet /\ shell.pc = "drain"
  <2>1. shell.ended
    BY <1>1 DEF Quiet
  <2>2. /\ shell' \in ShellRecord /\ Alike(shell, shell') /\ shell'.pc = "settle"
        /\ shell'.pending = shell.pending /\ shell'.reason = shell.reason
    BY <1>0, <1>1, PointFields DEF ShellPoints
  <2> QED BY <1>0, <1>1, <2>1, <2>2, Over, Goes
<1>2. CASE shell' = Unproven(shell) /\ shell.pc \in {"cleanup", "drain"}
  <2>1. /\ shell' \in ShellRecord /\ Alike(shell, shell') /\ shell'.pc = "settle" /\ shell'.cleanupFailed = TRUE
        /\ shell'.pending = shell.pending /\ shell'.reason = shell.reason
    BY <1>0, <1>2, UnprovenFields
  <2> QED BY <1>0, <1>2, <2>1, Over, Goes
<1>3. CASE shell' = Unmonitored(shell)
  <2>1. /\ shell' \in ShellRecord /\ Alike(shell, shell') /\ shell'.pc = "cleanup"
        /\ shell'.pending = shell.pending /\ shell'.reason = "cleanup_failed"
    BY <1>0, <1>3, UnmonitoredFields
  <2> QED BY <1>0, <2>1, Over, Goes
<1>4. CASE shell' = [shell EXCEPT !.phase = "kill"] /\ shell.pc = "drain"
  <2>1. /\ shell' \in ShellRecord /\ shell'.pc = shell.pc /\ shell'.owner = shell.owner
        /\ shell'.pending = shell.pending /\ shell'.activated = shell.activated /\ shell'.passed = shell.passed
        /\ shell'.ended = shell.ended /\ shell'.guardFailure = shell.guardFailure /\ shell'.reason = shell.reason
        /\ shell'.result = shell.result /\ shell'.spawnError = shell.spawnError
        /\ shell'.cleanupFailed = shell.cleanupFailed
    BY <1>0, <1>4 DEF ShellRecord
  <2>2. ShellType' /\ Owned'
    BY <1>0, <2>1 DEF ShellInv, ShellType, Owned
  <2>3. Heard'
    BY <1>0, <2>1 DEF ShellInv, Heard, Spawned, Member
  <2>4. Asked' /\ Proven'
    BY <1>0, <1>4, <2>1 DEF ShellInv, Asked, Proven
  <2> QED BY <2>2, <2>3, <2>4 DEF ShellInv
<1> QED BY <1>1, <1>2, <1>3, <1>4 DEF Drain, DrainFails, MonitorFails, Shells

\* The outcome is taken from the reason, and says what the cleanup has proved.
LEMMA SettleStep == ASSUME ShellInv, Settle PROVE ShellInv'
<1>0. shell.pc = "settle" /\ shell \in ShellRecord /\ os' = os
  BY DEF Settle, Shells, ShellInv, ShellType
<1>1. PICK outcome \in {"succeeded", "failed", "cancelled", "cleanup_failed", "threw"} :
        /\ shell' = [shell EXCEPT !.pc = "done", !.result = outcome]
        /\ outcome \in {"succeeded", "failed", "cancelled"} => shell.guardFailure # "failed" /\ ~shell.cleanupFailed
        /\ outcome = "succeeded" => shell.reason = "completed" /\ os.leader = "exited"
        /\ outcome = "cancelled" => shell.reason = "cancel_requested"
  BY DEF Settle, Shells
<1>2. /\ shell' \in ShellRecord /\ shell'.pc = "done" /\ shell'.result = outcome
      /\ shell'.pending = shell.pending /\ shell'.activated = shell.activated /\ shell'.passed = shell.passed
      /\ shell'.ended = shell.ended /\ shell'.guardFailure = shell.guardFailure /\ shell'.reason = shell.reason
      /\ shell'.spawnError = shell.spawnError /\ shell'.owner = shell.owner
  BY <1>0, <1>1 DEF ShellRecord, ShellPoints
<1>3. ShellType' /\ Owned'
  BY <1>0, <1>2 DEF ShellInv, ShellType, Owned
<1>4. Heard'
  BY <1>0, <1>2 DEF ShellInv, Heard, Spawned, Member
<1>5. Asked'
  BY <1>0, <1>2 DEF ShellInv, Asked
<1>6. Proven'
  <2>1. outcome \in {"succeeded", "failed", "cancelled"} /\ Spawned => shell.ended
    BY <1>0, <1>1 DEF ShellInv, Proven
  <2>2. outcome \in {"succeeded", "cancelled"} => Spawned /\ ~shell.pending
    <3>1. outcome = "cancelled" => shell.guardFailure = "cancelled"
      BY <1>1 DEF ShellInv, Asked
    <3>2. outcome = "cancelled" => shell.owner /\ ~shell.pending
      BY <3>1 DEF ShellInv, Owned, Asked
    <3>3. shell.owner => Spawned
      BY DEF ShellInv, Owned, Spawned
    <3>4. outcome = "succeeded" => Spawned /\ ~shell.pending
      BY <1>0, <1>1 DEF ShellInv, Asked, Spawned
    <3> QED BY <3>2, <3>3, <3>4
  <2>3. outcome = "succeeded" => shell.activated
    BY <1>1 DEF ShellInv, Owned
  <2> QED BY <1>0, <1>1, <1>2, <2>1, <2>2, <2>3 DEF Proven, Spawned
<1> QED BY <1>3, <1>4, <1>5, <1>6 DEF ShellInv

\* Before the process exists nothing is owned or permitted.
LEMMA BeginStep == ASSUME ShellInv, Check \/ Permit \/ Spawn PROVE ShellInv'
<1>0. /\ shell.pc \in {"check", "permit", "spawn"} /\ shell \in ShellRecord /\ os \in ProcessRecord
      /\ ~Spawned /\ ~shell.spawnError /\ shell.result = "none" /\ ~shell.owner /\ ~shell.ended
  BY DEF Check, Permit, Spawn, ShellInv, ShellType, Heard, Proven, Spawned, Owned
<1>1. PICK pc \in ShellPoints, result \in {"none", "failed", "threw"} :
        /\ shell' = [shell EXCEPT !.pc = pc, !.result = result]
        /\ pc \in {"permit", "spawn", "look", "done"}
        /\ pc # "done" => result = "none"
        /\ pc # "look" => os' = os
  <2>1. [shell EXCEPT !.pc = "permit"] = [shell EXCEPT !.pc = "permit", !.result = "none"]
        /\ [shell EXCEPT !.pc = "spawn"] = [shell EXCEPT !.pc = "spawn", !.result = "none"]
        /\ [shell EXCEPT !.pc = "look"] = [shell EXCEPT !.pc = "look", !.result = "none"]
    BY <1>0 DEF ShellRecord
  <2>2. CASE Check
    BY <2>1, <2>2 DEF Check, Shells, ShellPoints
  <2>3. CASE Permit
    BY <2>1, <2>3 DEF Permit, Shells, ShellPoints
  <2>4. CASE Spawn
    BY <2>1, <2>4 DEF Spawn, ShellPoints
  <2> QED BY <2>2, <2>3, <2>4
<1>2. /\ shell' \in ShellRecord /\ shell'.pc = pc /\ shell'.result = result
      /\ shell'.pending = shell.pending /\ shell'.activated = shell.activated /\ shell'.passed = shell.passed
      /\ shell'.ended = shell.ended /\ shell'.guardFailure = shell.guardFailure /\ shell'.reason = shell.reason
      /\ shell'.spawnError = shell.spawnError /\ shell'.owner = shell.owner
  BY <1>0, <1>1 DEF ShellRecord
<1>3. os' \in ProcessRecord /\ os'.leader \in {"none", "boot"} /\ (pc # "look" => os' = os)
  <2>1. CASE os' = os
    BY <1>0, <2>1 DEF Spawned
  <2>2. CASE os' = [os EXCEPT !.leader = "boot"]
    BY <1>0, <1>1, <2>2 DEF ProcessRecord
  <2> QED BY <2>1, <2>2 DEF Check, Permit, Spawn, Shells
<1>4. ShellType' /\ Owned'
  BY <1>0, <1>2, <1>3 DEF ShellInv, ShellType, Owned
<1>5. Heard'
  BY <1>0, <1>1, <1>2, <1>3 DEF Heard, Spawned
<1>6. Asked'
  <2>1. shell.guardFailure = "none" /\ ~shell.pending
    BY <1>0 DEF ShellInv, Owned, ShellType, ShellRecord
  <2> QED BY <1>1, <1>2, <2>1 DEF ShellInv, Asked
<1>7. Proven'
  BY <1>0, <1>1, <1>2, <1>3 DEF Proven, Spawned
<1> QED BY <1>4, <1>5, <1>6, <1>7 DEF ShellInv

\* A check that is open belongs to an owned process.
LEMMA AnswerStep == ASSUME ShellInv, GuardAnswers PROVE ShellInv'
<1>0. shell.pending /\ shell.owner /\ shell \in ShellRecord /\ os' = os /\ shell.pc # "act" /\ shell.guardFailure = "none"
  BY DEF GuardAnswers, Shells, ShellInv, ShellType, Owned, Asked
<1>1. PICK passed \in BOOLEAN, why \in {"none", "cancelled", "failed"} :
        /\ shell' = [shell EXCEPT !.pending = FALSE, !.passed = passed, !.guardFailure = why]
        /\ shell.passed => passed
        /\ why = "none" \/ passed = shell.passed
  <2>1. [shell EXCEPT !.pending = FALSE, !.passed = TRUE]
          = [shell EXCEPT !.pending = FALSE, !.passed = TRUE, !.guardFailure = "none"]
    BY <1>0 DEF ShellRecord
  <2>2. \A why \in {"cancelled", "failed"} : [shell EXCEPT !.pending = FALSE, !.guardFailure = why]
          = [shell EXCEPT !.pending = FALSE, !.passed = shell.passed, !.guardFailure = why]
    BY <1>0 DEF ShellRecord
  <2>3. shell.passed \in BOOLEAN
    BY <1>0 DEF ShellRecord
  <2>4. CASE shell' = [shell EXCEPT !.pending = FALSE, !.passed = TRUE]
    BY <2>1, <2>4
  <2>5. ASSUME NEW why \in {"cancelled", "failed"}, shell' = [shell EXCEPT !.pending = FALSE, !.guardFailure = why]
        PROVE  \E passed \in BOOLEAN, w \in {"none", "cancelled", "failed"} :
                 /\ shell' = [shell EXCEPT !.pending = FALSE, !.passed = passed, !.guardFailure = w]
                 /\ shell.passed => passed
                 /\ w = "none" \/ passed = shell.passed
    BY <2>2, <2>3, <2>5
  <2> QED BY <2>4, <2>5 DEF GuardAnswers, Shells
<1>2. /\ shell' \in ShellRecord /\ shell'.pc = shell.pc /\ shell'.result = shell.result
      /\ shell'.pending = FALSE /\ shell'.activated = shell.activated /\ shell'.passed = passed
      /\ shell'.ended = shell.ended /\ shell'.guardFailure = why /\ shell'.reason = shell.reason
      /\ shell'.spawnError = shell.spawnError /\ shell'.owner = shell.owner
      /\ shell'.cleanupFailed = shell.cleanupFailed
  BY <1>0, <1>1 DEF ShellRecord
<1>3. ShellType' /\ Owned'
  BY <1>0, <1>1, <1>2 DEF ShellInv, ShellType, Owned
<1>4. Heard'
  BY <1>0, <1>2 DEF ShellInv, Heard, Spawned, Member
<1>5. Asked'
  BY <1>0, <1>2 DEF ShellInv, Asked
<1>6. Proven'
  BY <1>0, <1>2 DEF ShellInv, Proven, Spawned
<1> QED BY <1>3, <1>4, <1>5, <1>6 DEF ShellInv

\* Processes end, fork and leave; the leader runs only when it is released.
LEMMA ProcessStep ==
  ASSUME ShellInv,
         BootStops \/ Forks \/ Escapes \/ LeaderExits \/ LeaderKilled \/ ChildEnds \/ EscapedEnds
  PROVE  ShellInv'
<1>0. shell' = shell /\ shell \in ShellRecord /\ os \in ProcessRecord
  BY DEF BootStops, Forks, Escapes, LeaderExits, LeaderKilled, ChildEnds, EscapedEnds, Processes, ShellInv, ShellType
<1>1. /\ os' \in ProcessRecord
      /\ \/ os'.leader = os.leader
         \/ os.leader = "boot" /\ os'.leader = "stopped"
         \/ os.leader = "running" /\ os'.leader = "exited"
         \/ os.leader \in {"boot", "stopped", "running"} /\ os'.leader = "killed"
      /\ os'.child = "running" => os.child = "running" \/ os.leader = "running"
  <2>1. CASE BootStops
    <3>1. os.leader = "boot" /\ os' = [os EXCEPT !.leader = "stopped"]
      BY <2>1 DEF BootStops, Processes
    <3>2. os' \in ProcessRecord /\ os'.leader = "stopped" /\ os'.child = os.child
      BY <1>0, <3>1 DEF ProcessRecord
    <3> QED BY <3>1, <3>2
  <2>2. CASE LeaderExits
    <3>1. os.leader = "running" /\ os' = [os EXCEPT !.leader = "exited"]
      BY <2>2 DEF LeaderExits, Processes
    <3>2. os' \in ProcessRecord /\ os'.leader = "exited" /\ os'.child = os.child
      BY <1>0, <3>1 DEF ProcessRecord
    <3> QED BY <3>1, <3>2
  <2>3. CASE LeaderKilled
    <3>1. os.leader \in {"boot", "stopped", "running"} /\ os' = [os EXCEPT !.leader = "killed"]
      BY <2>3 DEF LeaderKilled, Processes
    <3>2. os' \in ProcessRecord /\ os'.leader = "killed" /\ os'.child = os.child
      BY <1>0, <3>1 DEF ProcessRecord
    <3> QED BY <3>1, <3>2
  <2>4. CASE Forks
    <3>1. os.leader = "running" /\ os' = [os EXCEPT !.child = "running"]
      BY <2>4 DEF Forks, Processes
    <3>2. os' \in ProcessRecord /\ os'.child = "running" /\ os'.leader = os.leader
      BY <1>0, <3>1 DEF ProcessRecord
    <3> QED BY <3>1, <3>2
  <2>5. CASE ChildEnds
    <3>1. os.child = "running" /\ os' = [os EXCEPT !.child = "ended"]
      BY <2>5 DEF ChildEnds, Processes
    <3>2. os' \in ProcessRecord /\ os'.child = "ended" /\ os'.leader = os.leader
      BY <1>0, <3>1 DEF ProcessRecord
    <3> QED BY <3>1, <3>2
  <2>6. CASE Escapes
    <3>1. os' = [os EXCEPT !.escaped = "running"]
      BY <2>6 DEF Escapes, Processes
    <3>2. os' \in ProcessRecord /\ os'.escaped = "running" /\ os'.leader = os.leader /\ os'.child = os.child
      BY <1>0, <3>1 DEF ProcessRecord
    <3> QED BY <3>1, <3>2
  <2>7. CASE EscapedEnds
    <3>1. os' = [os EXCEPT !.escaped = "ended"]
      BY <2>7 DEF EscapedEnds, Processes
    <3>2. os' \in ProcessRecord /\ os'.escaped = "ended" /\ os'.leader = os.leader /\ os'.child = os.child
      BY <1>0, <3>1 DEF ProcessRecord
    <3> QED BY <3>1, <3>2
  <2> QED BY <2>1, <2>2, <2>3, <2>4, <2>5, <2>6, <2>7
<1>2. ShellType' /\ Owned'
  BY <1>0, <1>1 DEF ShellInv, ShellType, Owned
<1>3. Heard'
  BY <1>0, <1>1 DEF ShellInv, Heard, Spawned, Member
<1>4. Asked'
  BY <1>0 DEF ShellInv, Asked
<1>5. Proven'
  BY <1>0, <1>1 DEF ShellInv, Proven, Spawned
<1> QED BY <1>2, <1>3, <1>4, <1>5 DEF ShellInv

\* Node hears only what is so.
LEMMA HearStep ==
  ASSUME ShellInv, SpawnFails \/ HearsExit \/ HearsEnd \/ PipeBreaks
  PROVE  ShellInv'
<1>0. os' = os /\ shell \in ShellRecord /\ os \in ProcessRecord /\ Waits
  BY DEF SpawnFails, HearsExit, HearsEnd, PipeBreaks, Hears, ShellInv, ShellType
<1>1. /\ shell' \in ShellRecord /\ shell'.pc = shell.pc /\ shell'.result = shell.result
      /\ shell'.pending = shell.pending /\ shell'.activated = shell.activated /\ shell'.passed = shell.passed
      /\ shell'.guardFailure = shell.guardFailure /\ shell'.reason = shell.reason
      /\ shell'.owner = shell.owner /\ shell'.cleanupFailed = shell.cleanupFailed
      /\ shell'.ended # shell.ended => shell'.ended /\ Spawned /\ ~Member
      /\ shell'.spawnError # shell.spawnError => ~Spawned
  <2>1. CASE SpawnFails
    BY <1>0, <2>1 DEF SpawnFails, Hears, ShellRecord
  <2>2. CASE HearsExit
    BY <1>0, <2>2 DEF HearsExit, Hears, ShellRecord
  <2>3. CASE HearsEnd
    BY <1>0, <2>3 DEF HearsEnd, Hears, ShellRecord
  <2>4. CASE PipeBreaks
    BY <1>0, <2>4 DEF PipeBreaks, Hears, ShellRecord
  <2> QED BY <2>1, <2>2, <2>3, <2>4
<1>2. ShellType' /\ Owned'
  BY <1>0, <1>1 DEF ShellInv, ShellType, Owned
<1>3. Heard'
  BY <1>0, <1>1 DEF ShellInv, Heard, Spawned, Member, Waits
<1>4. Asked'
  BY <1>0, <1>1 DEF ShellInv, Asked
<1>5. Proven'
  BY <1>0, <1>1 DEF ShellInv, Proven, Spawned, Waits
<1> QED BY <1>2, <1>3, <1>4, <1>5 DEF ShellInv

\* Every step of the command, of its processes and of the clock keeps the invariant.
LEMMA ShellStep == ShellInv /\ [ShellNext]_shellVars => ShellInv'
<1> SUFFICES ASSUME ShellInv, [ShellNext]_shellVars PROVE ShellInv'
  OBVIOUS
<1>1. CASE UNCHANGED shellVars \/ DeadlineComes \/ GraceEnds
  <2>1. shell' = shell /\ os' = os
    BY <1>1 DEF DeadlineComes, GraceEnds, shellVars
  <2> QED BY <2>1 DEF ShellInv, ShellType, Owned, Heard, Asked, Proven, Spawned, Member
<1> QED
  BY <1>1, LookStep, ReleaseStep, WatchStep, CleanupStep, DrainStep, SettleStep, BeginStep, AnswerStep, ProcessStep,
     HearStep
  DEF ShellNext, ShellSteps

\* A command begins with no process and nothing asked.
LEMMA ShellInitial == ShellInit => ShellInv
BY DEF ShellInit, ShellInv, ShellType, ShellRecord, ShellPoints, Reasons, ProcessRecord, Owned, Heard, Asked, Proven,
       Spawned, Member

(***************************************************************************)
(* A command runs only while it is owned and after it was permitted        *)
(* (executeShellTool); an outcome that claims to know how it ended leaves  *)
(* no process of its session and no output behind; and only a released     *)
(* command succeeds.                                                       *)
(***************************************************************************)
THEOREM CommandIsOwnedCorrect == Spec => []CommandIsOwned
<1>1. Init => ShellInv
  BY ShellInitial DEF Init
<1>2. ShellInv /\ [Next]_operationVars => ShellInv'
  BY ShellStep DEF Next, StepsModel, StepsShell, StepsFile, StepsChat, operationVars, shellVars
<1>3. ShellInv => CommandIsOwned
  <2> SUFFICES ASSUME ShellInv PROVE CommandIsOwned
    OBVIOUS
  <2>1. os.leader = "running" => shell.owner /\ shell.passed
    BY DEF ShellInv, Owned
  <2>2. shell.result \in {"succeeded", "failed", "cancelled"} /\ Spawned => ~Member /\ shell.ended
    BY DEF ShellInv, Proven, Heard
  <2> QED BY <2>1, <2>2 DEF ShellInv, Proven, CommandIsOwned
<1> QED BY <1>1, <1>2, <1>3, PTL DEF Spec

-----------------------------------------------------------------------------
(***************************************************************************)
(* A model request.                                                        *)
(***************************************************************************)
\* The points of the read loop.
Awake  == {"read", "loop", "race", "handle", "push", "next"}
Points == Awake \cup {"flushing", "closing", "report", "answer", "done"}

ExecRecord ==
  [pc : Points, cont : {"none", "race", "handle", "loop", "push", "next", "read", "closing", "answer"},
   kind : {"none", "stop", "flush", "delta", "finish", "badfinish", "done", "error"},
   pending : Seq(Nat), batch : Seq(Nat), saved : Seq(Nat), due : BOOLEAN,
   finish : BOOLEAN, aborted : BOOLEAN, timedOut : BOOLEAN, failure : BOOLEAN,
   callbackFailed : BOOLEAN, cleanupFailed : BOOLEAN,
   result : {"none", "succeeded", "failed", "cancelled", "threw"}]

ModelType ==
  /\ exec \in ExecRecord
  /\ next \in {"none", "reading", "stop", "delta", "finish", "badfinish", "done", "error"}
  /\ sent \in Nat
  /\ signal \in {"none", "cancel_requested", "service_stopped"}
  /\ clock \in [overdue : BOOLEAN, sent : Nat]

\* A sequence holds the numbers that follow n.
Follows(s, n) == \A i \in 1..Len(s) : s[i] = n + i

\* The deltas kept.
Total(e) == Len(e.saved) + Len(e.batch) + Len(e.pending)

\* The continuation: where the executor is, or goes once the batch is committed.
Stage(e) == IF e.pc = "flushing" THEN e.cont ELSE e.pc

\* A delta that has been yielded and is not taken yet.
Holding == next = "delta" \/ Stage(exec) = "push"

\* The deltas are kept in order and without a gap.
Ordered(e) ==
  /\ Follows(e.saved, 0) /\ Follows(e.batch, Len(e.saved))
  /\ Follows(e.pending, Len(e.saved) + Len(e.batch))
  /\ e.pc = "flushing" => e.pending = <<>> /\ e.cont # "none"
  /\ e.pc # "flushing" => e.batch = <<>>

\* Every delta yielded is kept or in hand until the executor turns to the end.
Counted ==
  /\ Stage(exec) \in Awake => Total(exec) + (IF Holding THEN 1 ELSE 0) = sent
  /\ Total(exec) <= sent
  /\ Stage(exec) \in {"push", "read", "next"} => next = "none"
  /\ Stage(exec) \in {"loop", "race", "handle"} => next # "none"
  /\ Stage(exec) = "handle" => exec.kind \in {"stop", "flush", next}

\* A delta that arrived after the deadline is not handled.
InTime ==
  /\ clock.overdue => Total(exec) <= clock.sent
  /\ Stage(exec) = "push" \/ (Stage(exec) = "handle" /\ exec.kind = "delta") =>
       (clock.overdue /\ ~IsAborted(exec) => sent = clock.sent)

\* A reason to stop.
Explained == exec.timedOut \/ exec.failure \/ exec.callbackFailed \/ signal # "none"

\* What stops the executor is known, and a read that is not stopped reaches the end of the answer.
Whole ==
  /\ exec.aborted \/ next = "stop" \/ (Stage(exec) = "handle" /\ exec.kind = "stop") => Explained
  /\ \/ exec.pc = "flushing" /\ exec.cont = "closing"
     \/ exec.pc \in {"closing", "report"} /\ ~exec.aborted
     =>
       exec.finish /\ exec.pending = <<>> /\ Total(exec) = sent /\ next = "none"
  /\ Stage(exec) \in {"report", "answer", "done"} => next # "reading"
  /\ exec.pc = "answer" => exec.pending = <<>> \/ signal # "none"
  /\ exec.pc # "done" => exec.result = "none"
  /\ exec.result = "succeeded" => exec.finish /\ ~exec.timedOut /\ Len(exec.saved) = sent
  /\ exec.result = "failed" => exec.pending = <<>>

ModelInv == ModelType /\ Ordered(exec) /\ Counted /\ InTime /\ Whole
\* What a move leaves alone.
Flags(e, f) ==
  /\ f.finish = e.finish /\ f.failure = e.failure /\ f.callbackFailed = e.callbackFailed
  /\ f.cleanupFailed = e.cleanupFailed /\ f.result = e.result

\* What a move to another point keeps.
Moved(e, f, pc) ==
  /\ f \in ExecRecord /\ Ordered(f) /\ Total(f) = Total(e) /\ Stage(f) = pc /\ Flags(e, f)
  /\ f.aborted = e.aborted /\ f.timedOut = e.timedOut /\ f.kind = e.kind
  /\ f.pc \in {pc, "flushing"}
  /\ f.pc = "flushing" => f.pending = <<>>

\* Going to another point keeps what is kept.
LEMMA ThenMoves ==
  ASSUME NEW e \in ExecRecord, Ordered(e), e.pc # "flushing", NEW pc \in Points \ {"flushing", "done"}
  PROVE  Moved(e, Then(e, pc), pc) /\ Then(e, pc).pc = pc /\ Then(e, pc).pending = e.pending
<1> DEFINE f == Then(e, pc)
<1>1. /\ f \in ExecRecord /\ Flags(e, f) /\ f.pc = pc /\ f.kind = e.kind
      /\ f.saved = e.saved /\ f.batch = e.batch /\ f.pending = e.pending
      /\ f.aborted = e.aborted /\ f.timedOut = e.timedOut
  BY DEF ExecRecord, Then, Flags
<1> HIDE DEF f
<1>2. Ordered(f)
  BY <1>1 DEF Ordered
<1>3. Total(f) = Total(e) /\ Stage(f) = pc
  BY <1>1 DEF Total, Stage
<1> QED BY <1>1, <1>2, <1>3 DEF Moved, f

\* A flush hands the pending deltas to the store, unless there are none or the caller aborted.
LEMMA FlushMoves ==
  ASSUME NEW e \in ExecRecord, Ordered(e), e.pc # "flushing",
         NEW pc \in Points \ {"flushing", "report", "done"}
  PROVE  /\ Moved(e, Flush(e, pc), pc)
         /\ Flush(e, pc).pending = <<>> \/ signal # "none"
<1> DEFINE f == Flush(e, pc)
<1>1. CASE e.pending = <<>> \/ signal # "none"
  BY <1>1, ThenMoves DEF Flush
<1>2. CASE ~(e.pending = <<>> \/ signal # "none")
  <2>0. f = [e EXCEPT !.pc = "flushing", !.cont = pc, !.batch = e.pending, !.pending = <<>>, !.due = FALSE]
    BY <1>2 DEF Flush
  <2>1. /\ f \in ExecRecord /\ Flags(e, f) /\ f.pc = "flushing" /\ f.kind = e.kind /\ f.cont = pc
        /\ f.saved = e.saved /\ f.batch = e.pending /\ f.pending = <<>>
        /\ f.aborted = e.aborted /\ f.timedOut = e.timedOut
    <3>1. pc \in {"read", "loop", "race", "handle", "push", "next", "closing", "answer"}
      BY DEF Points, Awake
    <3>2. e.pending \in Seq(Nat) /\ <<>> \in Seq(Nat)
      BY DEF ExecRecord
    <3>3. f \in ExecRecord
      BY <2>0, <3>1, <3>2 DEF ExecRecord, Points
    <3>4. /\ Flags(e, f) /\ f.pc = "flushing" /\ f.kind = e.kind /\ f.cont = pc
          /\ f.saved = e.saved /\ f.batch = e.pending /\ f.pending = <<>>
          /\ f.aborted = e.aborted /\ f.timedOut = e.timedOut
      BY <2>0 DEF ExecRecord, Flags
    <3> QED BY <3>3, <3>4
  <2> HIDE DEF f
  <2>2. e.batch = <<>> /\ Len(e.batch) = 0 /\ e.saved \in Seq(Nat) /\ e.pending \in Seq(Nat)
    BY DEF Ordered, ExecRecord
  <2>3. Ordered(f)
    <3>1. Follows(f.saved, 0)
      BY <2>1 DEF Ordered
    <3>2. Len(e.saved) + 0 = Len(e.saved)
      BY <2>2
    <3>3. Follows(f.batch, Len(f.saved))
      BY <2>1, <2>2, <3>2 DEF Ordered
    <3>4. Follows(f.pending, Len(f.saved) + Len(f.batch))
      BY <2>1 DEF Follows
    <3>5. pc # "none"
      BY DEF Points, Awake
    <3> QED BY <2>1, <3>1, <3>3, <3>4, <3>5 DEF Ordered
  <2>4. Total(f) = Total(e)
    BY <2>1, <2>2 DEF Total
  <2> QED BY <2>1, <2>3, <2>4 DEF Moved, Stage, f
<1> QED BY <1>1, <1>2

\* A flush that only an elapsed batch timer asks for.
LEMMA FlushDueMoves ==
  ASSUME NEW e \in ExecRecord, Ordered(e), e.pc # "flushing", NEW pc \in {"race", "handle", "read"}
  PROVE  Moved(e, FlushDue(e, pc), pc)
BY ThenMoves, FlushMoves DEF FlushDue, Points, Awake

\* The executor stops, for a failure or without one.
LEMMA StopFields ==
  ASSUME NEW e \in ExecRecord, Ordered(e), e.pc # "flushing"
  PROVE  /\ \A f \in {Stopping(e), Failing(e)} :
              /\ f \in ExecRecord /\ Ordered(f) /\ Total(f) = Total(e) /\ f.pc = "closing" /\ f.aborted = TRUE
              /\ f.finish = e.finish /\ f.timedOut = e.timedOut /\ f.callbackFailed = e.callbackFailed
              /\ f.result = e.result /\ (e.failure => f.failure)
         /\ Failing(e).failure = TRUE
<1>1. ASSUME NEW f \in {Stopping(e), Failing(e)}
      PROVE  /\ f \in ExecRecord /\ f.pc = "closing" /\ f.aborted = TRUE
             /\ f.finish = e.finish /\ f.timedOut = e.timedOut /\ f.callbackFailed = e.callbackFailed
             /\ f.result = e.result /\ (e.failure => f.failure)
             /\ f.saved = e.saved /\ f.batch = e.batch /\ f.pending = e.pending
  <2>1. CASE f = Stopping(e)
    BY <2>1 DEF Stopping, ExecRecord, Points, Awake
  <2>2. CASE f = Failing(e)
    BY <2>2 DEF Failing, Stopping, ExecRecord, Points, Awake
  <2> QED BY <1>1, <2>1, <2>2
<1>2. ASSUME NEW f \in {Stopping(e), Failing(e)} PROVE Ordered(f) /\ Total(f) = Total(e)
  BY <1>1 DEF Ordered, Total
<1>3. Failing(e).failure = TRUE
  BY DEF Failing, Stopping, ExecRecord
<1> QED BY <1>1, <1>2, <1>3

\* A deadline that has passed aborts the request.
LEMMA DeadlineFields ==
  ASSUME NEW e \in ExecRecord, Ordered(e)
  PROVE  /\ CheckDeadline(e) \in ExecRecord /\ Ordered(CheckDeadline(e))
         /\ Total(CheckDeadline(e)) = Total(e) /\ CheckDeadline(e).pending = e.pending
         /\ Flags(e, CheckDeadline(e)) /\ CheckDeadline(e).pc = e.pc /\ CheckDeadline(e).kind = e.kind
         /\ CheckDeadline(e).cont = e.cont
         /\ e.aborted => CheckDeadline(e).aborted
         /\ e.timedOut => CheckDeadline(e).timedOut
         /\ CheckDeadline(e).aborted => e.aborted \/ CheckDeadline(e).timedOut
         /\ clock.overdue => CheckDeadline(e).aborted
         /\ CheckDeadline(e).timedOut => e.timedOut \/ CheckDeadline(e).aborted
<1> DEFINE f == CheckDeadline(e)
<1>1. CASE ~clock.overdue
  BY <1>1 DEF CheckDeadline, Flags
<1>2. CASE clock.overdue
  <2>1. /\ f \in ExecRecord /\ Flags(e, f) /\ f.pc = e.pc /\ f.kind = e.kind /\ f.cont = e.cont
        /\ f.saved = e.saved /\ f.batch = e.batch /\ f.pending = e.pending
        /\ f.aborted = TRUE /\ f.timedOut = TRUE
    BY <1>2 DEF ExecRecord, CheckDeadline, Flags
  <2> HIDE DEF f
  <2>2. Ordered(f) /\ Total(f) = Total(e)
    BY <2>1 DEF Ordered, Total
  <2> QED BY <2>1, <2>2 DEF f
<1> QED BY <1>1, <1>2

\* The deltas kept can be counted.
LEMMA TotalIsNat == \A e \in ExecRecord : Total(e) \in Nat /\ Len(e.saved) \in Nat /\ Len(e.pending) \in Nat
BY DEF Total, ExecRecord

\* The executor goes on: what the new point asks for is what has to be shown.
LEMMA Turned ==
  ASSUME ModelInv, exec.pc \in Awake,
         exec' \in ExecRecord, Ordered(exec'), Total(exec') = Total(exec),
         exec'.pc \in Awake \cup {"flushing"}, Stage(exec') \in Awake, exec'.result = exec.result,
         next' \in {"none", "reading", "stop", "delta", "finish", "badfinish", "done", "error"},
         UNCHANGED <<sent, signal, clock>>,
         next' = "delta" \/ Stage(exec') = "push" <=> Holding,
         Stage(exec') \in {"push", "read", "next"} => next' = "none",
         Stage(exec') \in {"loop", "race", "handle"} => next' # "none",
         Stage(exec') = "handle" => exec'.kind \in {"stop", "flush", next'},
         Stage(exec') = "push" \/ (Stage(exec') = "handle" /\ exec'.kind = "delta") =>
           (clock.overdue /\ ~IsAborted(exec') => sent = clock.sent),
         exec'.aborted \/ next' = "stop" \/ (Stage(exec') = "handle" /\ exec'.kind = "stop") => Explained'
  PROVE  ModelInv'
<1>1. Stage(exec) \in Awake /\ exec.result = "none"
  BY DEF Awake, Stage, ModelInv, Whole
<1>2. ModelType'
  BY DEF ModelInv, ModelType
<1>3. Counted'
  BY <1>1 DEF ModelInv, Counted, Holding
<1>4. InTime'
  <2>1. clock'.overdue => Total(exec') <= clock'.sent
    BY DEF ModelInv, InTime
  <2>2. IsAborted(exec)' <=> IsAborted(exec')
    BY DEF IsAborted
  <2> QED BY <2>1, <2>2 DEF InTime
<1>5. Whole'
  BY <1>1 DEF Whole, Awake, Stage
<1> QED BY <1>2, <1>3, <1>4, <1>5 DEF ModelInv

\* The executor turns to its end, for a reason.
LEMMA Stopped ==
  ASSUME ModelInv, exec.pc \in Awake,
         exec' \in ExecRecord, Ordered(exec'), Total(exec') = Total(exec), exec'.pc = "closing", exec'.aborted,
         exec'.result = exec.result, next' \in {next, "none"}, UNCHANGED <<sent, signal, clock>>, Explained'
  PROVE  ModelInv'
<1>1. exec.result = "none"
  BY DEF Awake, ModelInv, Whole
<1>2. ModelType'
  BY DEF ModelInv, ModelType
<1>3. Counted'
  BY DEF ModelInv, Counted, Holding, Awake, Stage
<1>4. InTime'
  BY DEF ModelInv, InTime, Stage
<1>5. Whole'
  BY <1>1 DEF Whole, Stage
<1> QED BY <1>2, <1>3, <1>4, <1>5 DEF ModelInv

\* What every step starts from.
LEMMA Now ==
  ASSUME ModelInv
  PROVE  /\ exec \in ExecRecord /\ Ordered(exec)
         /\ exec.aborted \/ signal # "none" => Explained
         /\ exec.pc # "flushing" => Stage(exec) = exec.pc
<1>1. exec \in ExecRecord /\ Ordered(exec)
  BY DEF ModelInv, ModelType
<1>2. exec.aborted => Explained
  BY DEF ModelInv, Whole
<1>3. signal # "none" => Explained
  BY DEF Explained
<1>4. exec.pc # "flushing" => Stage(exec) = exec.pc
  BY DEF Stage
<1> QED BY <1>1, <1>2, <1>3, <1>4

\* The next read starts, unless the request is to stop.
LEMMA ReadStep == ASSUME ModelInv, Read PROVE ModelInv'
<1> DEFINE e == CheckDeadline(exec)
<1>1. /\ exec.pc = "read" /\ exec' = Then(e, "loop") /\ next' = IF IsAborted(e) THEN "stop" ELSE "reading"
      /\ UNCHANGED <<sent, signal, clock>>
  BY DEF Read, provider
<1>2. /\ e \in ExecRecord /\ Ordered(e) /\ Total(e) = Total(exec) /\ e.pc = "read" /\ Flags(exec, e)
      /\ (e.aborted => exec.aborted \/ e.timedOut) /\ (exec.timedOut => e.timedOut)
  BY <1>1, Now, DeadlineFields
<1>3. /\ Moved(e, exec', "loop") /\ exec'.pc = "loop"
  BY <1>1, <1>2, ThenMoves DEF Points, Awake
<1>4. IsAborted(e) => Explained'
  BY <1>1, <1>2, <1>3, Now DEF IsAborted, Explained, Moved, Flags
<1>5. ~Holding
  BY <1>1 DEF Holding, Stage, ModelInv, Counted
<1> HIDE DEF e
<1> QED BY <1>1, <1>2, <1>3, <1>4, <1>5, Turned DEF Awake, Moved, Flags, IsAborted

\* A read is outstanding or refused when the loop looks at the deadline.
LEMMA LoopStep == ASSUME ModelInv, Loop PROVE ModelInv'
<1> DEFINE e == CheckDeadline(exec)
<1>1. /\ exec.pc = "loop" /\ exec' = (IF IsAborted(e) THEN Stopping(e) ELSE FlushDue(e, "race"))
      /\ UNCHANGED <<next, sent, signal, clock>>
  BY DEF Loop, Runs, provider
<1>2. /\ e \in ExecRecord /\ Ordered(e) /\ Total(e) = Total(exec) /\ e.pc = "loop" /\ Flags(exec, e)
      /\ (e.aborted => exec.aborted \/ e.timedOut) /\ (exec.timedOut => e.timedOut) /\ (exec.aborted => e.aborted)
  BY <1>1, Now, DeadlineFields
<1>3. (next = "stop" => Explained) /\ next # "none"
  BY <1>1 DEF ModelInv, Whole, Counted, Stage
<1>4. Holding <=> next = "delta"
  BY <1>1 DEF Holding, Stage
<1>5. CASE IsAborted(e)
  <2>1. exec' = Stopping(e)
    BY <1>1, <1>5
  <2>2. /\ exec' \in ExecRecord /\ Ordered(exec') /\ Total(exec') = Total(e) /\ exec'.pc = "closing" /\ exec'.aborted
        /\ exec'.timedOut = e.timedOut /\ exec'.callbackFailed = e.callbackFailed
        /\ exec'.result = e.result /\ (e.failure => exec'.failure)
    BY <1>2, <2>1, StopFields
  <2>3. Explained'
    BY <1>1, <1>2, <1>5, <2>2, Now DEF IsAborted, Explained, Flags
  <2> HIDE DEF e
  <2> QED BY <1>1, <1>2, <2>2, <2>3, Stopped DEF Awake, Flags
<1>6. CASE ~IsAborted(e)
  <2>1. Moved(e, exec', "race")
    BY <1>1, <1>2, <1>6, FlushDueMoves
  <2>2. exec'.aborted \/ next' = "stop" => Explained'
    BY <1>1, <1>2, <1>3, <1>6, <2>1 DEF IsAborted, Explained, Moved, Flags
  <2>3. next' \in {"none", "reading", "stop", "delta", "finish", "badfinish", "done", "error"}
    BY <1>1 DEF ModelInv, ModelType
  <2> HIDE DEF e
  <2> QED BY <1>1, <1>2, <1>3, <1>4, <2>1, <2>2, <2>3, Turned DEF Awake, Moved, Flags
<1> QED BY <1>5, <1>6

\* Whatever wins the race, a late item is not handled.
LEMMA RaceStep == ASSUME ModelInv, Race PROVE ModelInv'
<1>1. PICK kind \in {"stop", "flush", next} :
        /\ exec.pc = "race" /\ UNCHANGED <<next, sent, signal, clock>> /\ kind # "reading"
        /\ kind = "stop" => IsAborted(exec) \/ next = "stop"
        /\ LET e == [CheckDeadline(exec) EXCEPT !.kind = kind]
           IN exec' = IF IsAborted(e) THEN Stopping(e) ELSE FlushDue(e, "handle")
  BY DEF Race, Runs, provider
<1> DEFINE c == CheckDeadline(exec)
           e == [c EXCEPT !.kind = kind]
<1>2. /\ c \in ExecRecord /\ Ordered(c) /\ Total(c) = Total(exec) /\ c.pc = "race" /\ Flags(exec, c)
      /\ (c.aborted => exec.aborted \/ c.timedOut) /\ (exec.timedOut => c.timedOut) /\ (exec.aborted => c.aborted)
      /\ (clock.overdue => c.aborted)
  BY <1>1, Now, DeadlineFields
<1>3. /\ next \in {"none", "reading", "stop", "delta", "finish", "badfinish", "done", "error"}
      /\ next = "stop" => Explained
      /\ Holding <=> next = "delta"
      /\ next # "none"
  BY <1>1 DEF ModelInv, ModelType, Whole, Holding, Stage, Counted
<1>4. /\ e \in ExecRecord /\ Ordered(e) /\ Total(e) = Total(c) /\ e.pc = c.pc /\ Flags(c, e) /\ e.kind = kind
      /\ e.aborted = c.aborted /\ e.timedOut = c.timedOut
  <2> HIDE DEF c
  <2>0. kind \in {"none", "stop", "flush", "delta", "finish", "badfinish", "done", "error"}
    BY <1>1, <1>3
  <2>1. /\ e \in ExecRecord /\ e.pc = c.pc /\ Flags(c, e) /\ e.kind = kind
        /\ e.aborted = c.aborted /\ e.timedOut = c.timedOut
        /\ e.saved = c.saved /\ e.batch = c.batch /\ e.pending = c.pending /\ e.cont = c.cont
    BY <1>2, <2>0 DEF ExecRecord, Flags
  <2> QED BY <1>2, <2>1 DEF Ordered, Total
<1>5. exec' = IF IsAborted(e) THEN Stopping(e) ELSE FlushDue(e, "handle")
  BY <1>1
<1>6. CASE IsAborted(e)
  <2>1. /\ exec' \in ExecRecord /\ Ordered(exec') /\ Total(exec') = Total(e) /\ exec'.pc = "closing" /\ exec'.aborted
        /\ exec'.timedOut = e.timedOut /\ exec'.callbackFailed = e.callbackFailed
        /\ exec'.result = e.result /\ (e.failure => exec'.failure)
    BY <1>2, <1>4, <1>5, <1>6, StopFields
  <2> HIDE DEF e, c
  <2>2. Explained'
    BY <1>1, <1>2, <1>4, <1>6, <2>1, Now DEF IsAborted, Explained, Flags
  <2> QED BY <1>1, <1>2, <1>4, <2>1, <2>2, Stopped DEF Awake, Flags
<1>7. CASE ~IsAborted(e)
  <2>1. Moved(e, exec', "handle")
    BY <1>2, <1>4, <1>5, <1>7, FlushDueMoves
  <2> HIDE DEF e, c
  <2>2. ~exec'.aborted /\ ~clock.overdue
    BY <1>2, <1>4, <1>7, <2>1 DEF IsAborted, Moved
  <2>3. kind = "stop" \/ next = "stop" => Explained'
    <3>1. kind = "stop" \/ next = "stop" => Explained
      BY <1>1, <1>3, Now DEF IsAborted
    <3> QED BY <1>1, <1>2, <1>4, <2>1, <3>1 DEF Explained, Flags, Moved
  <2> QED BY <1>1, <1>2, <1>3, <1>4, <2>1, <2>2, <2>3, Turned DEF Awake, Moved, Flags
<1> QED BY <1>6, <1>7

\* The item is handled, and the next may be read.
LEMMA ReadNextStep == ASSUME ModelInv, ReadNext PROVE ModelInv'
<1>1. exec.pc = "next" /\ exec' = FlushDue(exec, "read") /\ UNCHANGED <<next, sent, signal, clock>>
  BY DEF ReadNext, Runs, provider
<1>2. next = "none" /\ ~Holding
  BY <1>1 DEF ModelInv, Counted, Holding, Stage
<1>3. Moved(exec, exec', "read")
  BY <1>1, Now, FlushDueMoves
<1>4. exec'.aborted => Explained'
  BY <1>1, <1>3, Now DEF Explained, Moved, Flags
<1> QED BY <1>1, <1>2, <1>3, <1>4, Turned DEF Awake, Moved, Flags

\* A stop ends the request; an elapsed timer hands the batch over.
LEMMA HandleStopStep == ASSUME ModelInv, HandleStop PROVE ModelInv'
<1>1. /\ exec.pc = "handle" /\ UNCHANGED <<next, sent, signal, clock>>
      /\ IsAborted(exec) \/ exec.kind \in {"stop", "flush"}
      /\ exec' = IF IsAborted(exec) \/ exec.kind = "stop" THEN Stopping(exec) ELSE Flush(exec, "loop")
  BY DEF HandleStop, Runs, provider
<1>2. /\ exec.kind = "stop" \/ next = "stop" => Explained
      /\ Holding <=> next = "delta"
      /\ next # "none"
      /\ next \in {"none", "reading", "stop", "delta", "finish", "badfinish", "done", "error"}
  BY <1>1 DEF ModelInv, ModelType, Whole, Holding, Stage, Counted
<1>3. CASE IsAborted(exec) \/ exec.kind = "stop"
  <2>1. /\ exec' \in ExecRecord /\ Ordered(exec') /\ Total(exec') = Total(exec) /\ exec'.pc = "closing" /\ exec'.aborted
        /\ exec'.timedOut = exec.timedOut /\ exec'.callbackFailed = exec.callbackFailed
        /\ exec'.result = exec.result /\ (exec.failure => exec'.failure)
    BY <1>1, <1>3, Now, StopFields
  <2>2. Explained
    BY <1>2, <1>3, Now DEF IsAborted
  <2>3. Explained'
    BY <1>1, <2>1, <2>2 DEF Explained
  <2> QED BY <1>1, <2>1, <2>3, Stopped DEF Awake
<1>4. CASE ~(IsAborted(exec) \/ exec.kind = "stop")
  <2>1. Moved(exec, exec', "loop")
    BY <1>1, <1>4, Now, FlushMoves DEF Points, Awake
  <2>2. exec'.aborted \/ next' = "stop" => Explained'
    BY <1>1, <1>2, <1>4, <2>1, Now DEF Explained, Moved, Flags
  <2> QED BY <1>1, <1>2, <2>1, <2>2, Turned DEF Awake, Moved, Flags
<1> QED BY <1>3, <1>4

\* The delta in hand follows the pending ones.
LEMMA NextFollows ==
  ASSUME NEW s \in Seq(Nat), NEW t \in Seq(Nat), NEW n \in Nat, Follows(t, Len(s)), n = Len(s) + Len(t) + 1
  PROVE  Follows(Append(t, n), Len(s)) /\ n = Len(s) + Len(Append(t, n))
<1>1. PICK a \in Nat, b \in Nat : a = Len(s) /\ b = Len(t)
  OBVIOUS
<1>2. n = a + b + 1 /\ \A i \in 1..b : t[i] = a + i
  BY <1>1 DEF Follows
<1>3. Len(Append(t, n)) = b + 1 /\ Append(t, n)[b + 1] = n /\ \A i \in 1..b : Append(t, n)[i] = t[i]
  BY <1>1
<1>4. ASSUME NEW i \in 1..(b + 1) PROVE Append(t, n)[i] = a + i
  <2>1. CASE i = b + 1
    <3>1. a + i = n
      BY <1>2, <2>1
    <3> QED BY <1>3, <2>1, <3>1
  <2>2. CASE i \in 1..b
    BY <1>2, <1>3, <2>2
  <2>3. i = b + 1 \/ i \in 1..b
    OBVIOUS
  <2> QED BY <2>1, <2>2, <2>3
<1>5. n = a + (b + 1)
  BY <1>2
<1> QED BY <1>1, <1>3, <1>4, <1>5 DEF Follows

\* A push makes the delta in hand the last of the pending ones.
LEMMA PushStep == ASSUME ModelInv, Push PROVE ModelInv'
<1> DEFINE e == [exec EXCEPT !.pending = Append(@, sent)]
<1>1. /\ exec.pc = "push" /\ UNCHANGED <<next, sent, signal, clock>>
      /\ IsAborted(exec) => exec' = Stopping(exec)
      /\ ~IsAborted(exec) => exec' \in {Flush(e, "next"), Then(e, "next")}
  BY DEF Push, Runs, provider
<1>2. /\ next = "none" /\ Holding /\ sent \in Nat /\ exec.pending \in Seq(Nat) /\ exec.saved \in Seq(Nat)
      /\ Total(exec) + 1 = sent /\ exec.batch = <<>>
  BY <1>1 DEF ModelInv, ModelType, Counted, Stage, Holding, Awake, ExecRecord, Ordered
<1>3. CASE IsAborted(exec)
  <2>1. /\ exec' \in ExecRecord /\ Ordered(exec') /\ Total(exec') = Total(exec) /\ exec'.pc = "closing" /\ exec'.aborted
        /\ exec'.timedOut = exec.timedOut /\ exec'.callbackFailed = exec.callbackFailed
        /\ exec'.result = exec.result /\ (exec.failure => exec'.failure)
    BY <1>1, <1>3, Now, StopFields
  <2>2. Explained
    BY <1>3, Now DEF IsAborted
  <2>3. Explained'
    BY <1>1, <2>1, <2>2 DEF Explained
  <2> QED BY <1>1, <2>1, <2>3, Stopped DEF Awake
<1>4. CASE ~IsAborted(exec)
  <2>1. /\ e \in ExecRecord /\ e.pc = "push" /\ Flags(exec, e) /\ e.aborted = exec.aborted /\ e.timedOut = exec.timedOut
        /\ e.saved = exec.saved /\ e.batch = exec.batch /\ e.pending = Append(exec.pending, sent)
    <3>1. Append(exec.pending, sent) \in Seq(Nat)
      BY <1>2
    <3> QED BY <1>1, <3>1, Now DEF ExecRecord, Flags
  <2> HIDE DEF e
  <2>a. Follows(exec.pending, Len(exec.saved)) /\ sent = Len(exec.saved) + Len(exec.pending) + 1
    <3>1. Len(exec.batch) = 0
      BY <1>2
    <3>2. Len(exec.saved) + Len(exec.batch) = Len(exec.saved)
      BY <1>2, <3>1
    <3>3. sent = Len(exec.saved) + Len(exec.batch) + Len(exec.pending) + 1
      BY <1>2 DEF Total
    <3> QED BY <1>2, <3>2, <3>3, Now DEF Ordered
  <2>b. Follows(e.pending, Len(e.saved)) /\ sent = Len(e.saved) + Len(e.pending)
    BY <1>2, <2>1, <2>a, NextFollows
  <2>c. Len(e.batch) = 0 /\ e.saved \in Seq(Nat) /\ e.pending \in Seq(Nat)
    BY <1>2, <2>1 DEF ExecRecord
  <2>2. Total(e) = sent
    BY <2>b, <2>c DEF Total
  <2>3. Ordered(e)
    <3>1. Len(e.saved) + Len(e.batch) = Len(e.saved)
      BY <2>c
    <3> QED BY <1>2, <2>1, <2>b, <3>1, Now DEF Ordered
  <2>4. Moved(e, exec', "next")
    BY <1>1, <1>4, <2>1, <2>3, ThenMoves, FlushMoves DEF Points, Awake
  <2>5. clock.overdue => sent = clock.sent
    BY <1>1, <1>4 DEF ModelInv, InTime, Stage
  <2>6. exec.result = "none"
    BY <1>1 DEF ModelInv, Whole
  <2>7. ModelType'
    BY <1>1, <2>4 DEF ModelInv, ModelType, Moved
  <2>8. Counted'
    BY <1>1, <1>2, <2>2, <2>4 DEF Counted, Moved, Holding, Awake
  <2>9. InTime'
    BY <1>1, <2>2, <2>4, <2>5 DEF InTime, Moved, ModelInv, ModelType
  <2>10. Whole'
    <3>1. exec'.aborted => Explained'
      BY <1>1, <2>1, <2>4, Now DEF Explained, Moved, Flags
    <3>2. exec'.pc \in {"next", "flushing"} /\ Stage(exec') = "next" /\ exec'.result = "none"
      BY <2>1, <2>4, <2>6 DEF Moved, Flags
    <3>3. next' = "none"
      BY <1>1, <1>2
    <3> QED BY <3>1, <3>2, <3>3 DEF Whole, Stage
  <2> QED BY <2>4, <2>7, <2>8, <2>9, <2>10 DEF ModelInv, Moved
<1> QED BY <1>3, <1>4

\* The settled read is taken: a delta is in hand, or the answer is at its end.
LEMMA HandleItemStep == ASSUME ModelInv, HandleItem PROVE ModelInv'
<1>1. /\ exec.pc = "handle" /\ UNCHANGED <<sent, signal, clock>> /\ next' = "none"
      /\ ~IsAborted(exec) /\ exec.kind \notin {"stop", "flush"}
  BY DEF HandleItem, provider
<1>2. /\ exec.kind = next /\ (Holding <=> next = "delta") /\ exec.result = "none"
      /\ sent \in Nat /\ Total(exec) + (IF Holding THEN 1 ELSE 0) = sent
  BY <1>1 DEF ModelInv, ModelType, Whole, Holding, Stage, Counted, Awake
<1>3. CASE exec.kind = "done" /\ exec.finish /\ exec' = Flush(exec, "closing")
  <2>1. Moved(exec, exec', "closing") /\ (exec'.pending = <<>> \/ signal # "none")
    BY <1>1, <1>3, Now, FlushMoves DEF Points, Awake
  <2>2. signal = "none"
    BY <1>1 DEF IsAborted
  <2>3. ModelType'
    BY <1>1, <2>1 DEF ModelInv, ModelType, Moved
  <2>4. Counted'
    BY <1>1, <1>2, <2>1 DEF Counted, Moved, Holding, Awake, ModelInv
  <2>5. InTime'
    BY <1>1, <2>1 DEF InTime, Moved, ModelInv
  <2>6. Whole'
    <3>1. exec'.aborted => Explained'
      BY <1>1, <2>1, Now DEF Explained, Moved, Flags
    <3>2. exec'.finish /\ exec'.pending = <<>> /\ Total(exec') = sent'
      <4>1. Total(exec) = sent
        BY <1>2, <1>3, Now, TotalIsNat
      <4> QED BY <1>1, <1>3, <2>1, <2>2, <4>1 DEF Moved, Flags
    <3>3. exec'.pc \in {"closing", "flushing"} /\ Stage(exec') = "closing" /\ exec'.result = "none"
      BY <1>2, <2>1 DEF Moved, Flags
    <3> QED BY <1>1, <3>1, <3>2, <3>3 DEF Whole
  <2> QED BY <2>1, <2>3, <2>4, <2>5, <2>6 DEF ModelInv, Moved
<1>4. CASE exec.kind = "delta" /\ exec' \in {Flush(exec, "push"), Then(exec, "push")}
  <2>1. Moved(exec, exec', "push")
    BY <1>1, <1>4, Now, FlushMoves, ThenMoves DEF Points, Awake
  <2>2. clock.overdue => sent = clock.sent
    BY <1>1, <1>4 DEF ModelInv, InTime, Stage
  <2>3. exec'.aborted => Explained'
    BY <1>1, <2>1, Now DEF Explained, Moved, Flags
  <2> QED BY <1>1, <1>2, <1>4, <2>1, <2>2, <2>3, Turned DEF Awake, Moved, Flags
<1>5. CASE exec.kind = "finish" /\ exec' = Flush([exec EXCEPT !.finish = TRUE], "next")
  <2> DEFINE e == [exec EXCEPT !.finish = TRUE]
  <2>1. /\ e \in ExecRecord /\ e.pc = exec.pc /\ e.result = exec.result /\ e.failure = exec.failure
        /\ e.callbackFailed = exec.callbackFailed /\ e.aborted = exec.aborted /\ e.timedOut = exec.timedOut
        /\ e.saved = exec.saved /\ e.batch = exec.batch /\ e.pending = exec.pending
    BY Now DEF ExecRecord
  <2>2. exec' = Flush(e, "next")
    BY <1>5
  <2> HIDE DEF e
  <2>3. Ordered(e) /\ Total(e) = Total(exec)
    BY <1>1, <2>1, Now DEF Ordered, Total
  <2>4. Moved(e, exec', "next")
    BY <1>1, <2>1, <2>2, <2>3, FlushMoves DEF Points, Awake
  <2>5. exec'.aborted => Explained'
    BY <1>1, <2>1, <2>4, Now DEF Explained, Moved, Flags
  <2> QED BY <1>1, <1>2, <1>5, <2>1, <2>3, <2>4, <2>5, Turned DEF Awake, Moved, Flags
<1>6. CASE exec' = Failing(exec)
  <2>1. /\ exec' \in ExecRecord /\ Ordered(exec') /\ Total(exec') = Total(exec) /\ exec'.pc = "closing" /\ exec'.aborted
        /\ exec'.result = exec.result /\ exec'.failure = TRUE
    BY <1>1, <1>6, Now, StopFields
  <2> QED BY <1>1, <2>1, Stopped DEF Awake, Explained
<1> QED BY <1>3, <1>4, <1>5, <1>6 DEF HandleItem

\* A batch that follows what is saved is saved in order.
LEMMA JoinedFollows ==
  ASSUME NEW s \in Seq(Nat), NEW t \in Seq(Nat), Follows(s, 0), Follows(t, Len(s))
  PROVE  Follows(s \o t, 0) /\ Len(s \o t) = Len(s) + Len(t) /\ s \o t \in Seq(Nat)
<1>1. PICK a \in Nat, b \in Nat : a = Len(s) /\ b = Len(t)
  OBVIOUS
<1>2. /\ Len(s \o t) = a + b
      /\ \A i \in 1..a : (s \o t)[i] = s[i]
      /\ \A i \in 1..b : (s \o t)[a + i] = t[i]
  BY <1>1
<1>3. (\A i \in 1..a : s[i] = i) /\ (\A i \in 1..b : t[i] = a + i)
  BY <1>1 DEF Follows
<1>4. ASSUME NEW i \in 1..(a + b) PROVE (s \o t)[i] = i
  <2>1. CASE i \in 1..a
    BY <1>2, <1>3, <2>1
  <2>2. CASE i - a \in 1..b
    <3>1. a + (i - a) = i
      OBVIOUS
    <3> QED BY <1>2, <1>3, <2>2, <3>1
  <2>3. i \in 1..a \/ i - a \in 1..b
    OBVIOUS
  <2> QED BY <2>1, <2>2, <2>3
<1>5. Follows(s \o t, 0)
  BY <1>2, <1>4 DEF Follows
<1> QED BY <1>1, <1>2, <1>5

\* A committed batch moves to the log.
LEMMA CommitStep == ASSUME ModelInv, Commits PROVE ModelInv'
<1>1. /\ exec.pc = "flushing" /\ UNCHANGED <<next, sent, signal, clock>>
      /\ exec' = [exec EXCEPT !.pc = exec.cont, !.saved = @ \o exec.batch, !.batch = <<>>]
  BY DEF Commits, Runs, provider
<1>2. /\ exec \in ExecRecord /\ exec.saved \in Seq(Nat) /\ exec.batch \in Seq(Nat)
      /\ exec.cont \in (Awake \cup {"closing", "answer"}) /\ exec.pending = <<>> /\ exec.result = "none"
      /\ Stage(exec) = exec.cont
  BY <1>1 DEF ModelInv, ModelType, ExecRecord, Ordered, Awake, Whole, Stage
<1>3. /\ exec' \in ExecRecord /\ exec'.pc = exec.cont /\ exec'.saved = exec.saved \o exec.batch /\ exec'.batch = <<>>
      /\ exec'.pending = <<>> /\ exec'.kind = exec.kind /\ exec'.aborted = exec.aborted /\ exec'.timedOut = exec.timedOut
      /\ Flags(exec, exec')
  <2>1. exec.saved \o exec.batch \in Seq(Nat) /\ <<>> \in Seq(Nat) /\ exec.cont \in Points
    BY <1>2 DEF Points
  <2> QED BY <1>1, <1>2, <2>1 DEF ExecRecord, Flags
<1>4. Stage(exec') = Stage(exec)
  BY <1>2, <1>3 DEF Stage, Awake
<1>5. Ordered(exec') /\ Total(exec') = Total(exec)
  <2>1. /\ Follows(exec.saved \o exec.batch, 0)
        /\ Len(exec.saved \o exec.batch) = Len(exec.saved) + Len(exec.batch)
    BY <1>2, JoinedFollows, Now DEF Ordered
  <2>2. Follows(<<>>, Len(exec'.saved)) /\ Follows(<<>>, Len(exec'.saved) + Len(exec'.batch))
    BY DEF Follows
  <2>3. Ordered(exec')
    BY <1>2, <1>3, <2>1, <2>2 DEF Ordered, Awake
  <2>4. Len(exec'.saved) = Len(exec.saved) + Len(exec.batch) /\ Len(exec'.batch) = 0 /\ Len(exec'.pending) = 0
        /\ Len(exec.pending) = 0
    BY <1>2, <1>3, <2>1
  <2>5. Total(exec') = Total(exec)
    BY <1>2, <2>4 DEF Total
  <2> QED BY <2>3, <2>5
<1>6. ModelType'
  BY <1>1, <1>3 DEF ModelInv, ModelType
<1>7. Counted'
  BY <1>1, <1>3, <1>4, <1>5 DEF ModelInv, Counted, Holding
<1>8. InTime'
  BY <1>1, <1>3, <1>4, <1>5 DEF ModelInv, InTime, IsAborted
<1>9. Whole'
  <2>1. Explained => Explained'
    BY <1>1, <1>3 DEF Explained, Flags
  <2>2. exec'.result = "none" /\ exec'.finish = exec.finish
    BY <1>2, <1>3 DEF Flags
  <2> QED BY <1>1, <1>2, <1>3, <1>4, <1>5, <2>1, <2>2 DEF ModelInv, Whole, Awake
<1> QED BY <1>5, <1>6, <1>7, <1>8, <1>9 DEF ModelInv

\* A refused batch is lost, and nothing is handed over after it.
LEMMA CommitFailsStep == ASSUME ModelInv, NEW cancelled \in BOOLEAN, CommitFails(cancelled) PROVE ModelInv'
<1> DEFINE e == [exec EXCEPT !.batch = <<>>, !.aborted = TRUE,
                            !.callbackFailed = ~(cancelled /\ signal' = "cancel_requested")]
<1>1. /\ exec.pc = "flushing" /\ UNCHANGED <<next, sent, clock>>
      /\ signal' = IF cancelled /\ signal = "none" THEN "cancel_requested" ELSE signal
      /\ exec' = CASE exec.cont # "answer" -> Failing(e)
                   [] exec.cont = "answer" /\ e.callbackFailed -> Ended(e, "threw")
                   [] OTHER -> Then(e, "answer")
  BY DEF CommitFails, provider
<1>2. /\ exec \in ExecRecord /\ exec.saved \in Seq(Nat) /\ exec.batch \in Seq(Nat)
      /\ exec.pending = <<>> /\ exec.result = "none" /\ Follows(exec.saved, 0)
      /\ sent \in Nat /\ Total(exec) <= sent /\ (clock.overdue => Total(exec) <= clock.sent)
      /\ exec.cont = "answer" => next # "reading"
  BY <1>1 DEF ModelInv, ModelType, ExecRecord, Ordered, Whole, Counted, InTime, Stage
<1>3. /\ e \in ExecRecord /\ e.pc = "flushing" /\ e.saved = exec.saved /\ e.batch = <<>> /\ e.pending = <<>>
      /\ e.aborted = TRUE /\ e.result = "none" /\ e.timedOut = exec.timedOut
      /\ e.callbackFailed \/ signal' = "cancel_requested"
  <2>1. <<>> \in Seq(Nat)
    OBVIOUS
  <2> QED BY <1>1, <1>2, <2>1 DEF ExecRecord
<1>4. /\ exec' \in ExecRecord /\ exec'.saved = exec.saved /\ exec'.batch = <<>> /\ exec'.pending = <<>>
      /\ exec'.aborted = TRUE /\ exec'.timedOut = e.timedOut /\ exec'.callbackFailed = e.callbackFailed
      /\ \/ exec'.pc = "closing" /\ exec'.result = "none"
         \/ exec'.pc = "done" /\ exec'.result = "threw" /\ exec.cont = "answer"
         \/ exec'.pc = "answer" /\ exec'.result = "none" /\ exec.cont = "answer"
  <2> HIDE DEF e
  <2>1. CASE exec' = Failing(e)
    BY <1>3, <2>1 DEF Failing, Stopping, ExecRecord, Points
  <2>2. CASE exec' = Ended(e, "threw") /\ exec.cont = "answer"
    BY <1>3, <2>2 DEF Ended, ExecRecord, Points
  <2>3. CASE exec' = Then(e, "answer") /\ exec.cont = "answer"
    BY <1>3, <2>3 DEF Then, ExecRecord, Points
  <2> QED BY <1>1, <2>1, <2>2, <2>3
<1>5. signal' \in {"none", "cancel_requested", "service_stopped"}
  BY <1>1 DEF ModelInv, ModelType
<1> HIDE DEF e
<1>6. Explained'
  BY <1>3, <1>4 DEF Explained
<1>7. Total(exec') <= Total(exec) /\ Total(exec') \in Nat
  <2>1. PICK a \in Nat, b \in Nat : a = Len(exec.saved) /\ b = Len(exec.batch)
    BY <1>2
  <2>2. Len(exec.pending) = 0 /\ Len(exec'.batch) = 0 /\ Len(exec'.pending) = 0 /\ Len(exec'.saved) = a
    BY <1>2, <1>4, <2>1
  <2>3. Total(exec) = a + b + 0 /\ Total(exec') = a + 0 + 0
    BY <2>1, <2>2 DEF Total
  <2> QED BY <2>3
<1>8. Ordered(exec')
  <2>1. Follows(<<>>, Len(exec'.saved)) /\ Follows(<<>>, Len(exec'.saved) + Len(exec'.batch))
    BY DEF Follows
  <2> QED BY <1>2, <1>4, <2>1 DEF Ordered
<1>9. Total(exec') <= sent' /\ (clock'.overdue => Total(exec') <= clock'.sent)
  <2>1. Total(exec) \in Nat /\ clock.sent \in Nat
    BY <1>2, TotalIsNat DEF ModelInv, ModelType
  <2> QED BY <1>1, <1>2, <1>7, <2>1
<1>10. ModelType'
  BY <1>1, <1>4, <1>5 DEF ModelInv, ModelType
<1>11. Counted'
  BY <1>4, <1>9 DEF Counted, Stage, Awake
<1>12. InTime'
  BY <1>4, <1>9 DEF InTime, Stage
<1>13. Whole'
  BY <1>1, <1>2, <1>4, <1>6 DEF Whole, Stage
<1> QED BY <1>8, <1>10, <1>11, <1>12, <1>13 DEF ModelInv

\* The outcome is chosen once no read is outstanding.
LEMMA EndedFields ==
  ASSUME ModelInv, exec.pc \in {"report", "answer"}, NEW how \in {"succeeded", "failed", "cancelled", "threw"},
         exec' = Ended(exec, how), UNCHANGED <<next, sent, signal, clock>>,
         how = "succeeded" => exec.finish /\ ~exec.timedOut /\ Len(exec.saved) = sent,
         how = "failed" => exec.pending = <<>>
  PROVE  ModelInv'
<1>1. /\ exec' \in ExecRecord /\ exec'.pc = "done" /\ exec'.result = how
      /\ exec'.saved = exec.saved /\ exec'.batch = exec.batch /\ exec'.pending = exec.pending
      /\ exec'.finish = exec.finish /\ exec'.timedOut = exec.timedOut /\ exec'.aborted = exec.aborted
      /\ exec'.failure = exec.failure /\ exec'.callbackFailed = exec.callbackFailed
  BY Now DEF Ended, ExecRecord, Points
<1>2. next # "reading" /\ exec.batch = <<>>
  BY DEF ModelInv, Whole, Stage, Ordered
<1>3. ModelType' /\ Ordered(exec')
  BY <1>1, <1>2, Now DEF ModelInv, ModelType, Ordered
<1>4. Counted'
  BY <1>1 DEF ModelInv, Counted, Stage, Awake, Total
<1>5. InTime'
  BY <1>1 DEF ModelInv, InTime, Stage, Total
<1>6. Whole'
  <2>1. exec'.aborted \/ next' = "stop" => Explained'
    BY <1>1 DEF ModelInv, Whole, Explained
  <2> QED BY <1>1, <1>2, <2>1 DEF Whole, Stage
<1> QED BY <1>3, <1>4, <1>5, <1>6 DEF ModelInv

\* A success has nothing left to save; what failed hands over what it has.
LEMMA ReportStep == ASSUME ModelInv, Report \/ Answer PROVE ModelInv'
<1>1. exec.pc \in {"report", "answer"} /\ UNCHANGED <<next, sent, signal, clock>>
  BY DEF Report, Answer, Runs, provider
<1>2. CASE \E how \in {"cancelled", "threw"} : exec' = Ended(exec, how)
  BY <1>1, <1>2, EndedFields
<1>3. CASE Answer /\ signal = "none" /\ exec' = Ended(exec, "failed")
  <2>1. exec.pending = <<>>
    BY <1>3 DEF Answer, ModelInv, Whole
  <2> QED BY <1>1, <1>3, <2>1, EndedFields
<1>4. CASE /\ Report /\ signal = "none" /\ ~exec.callbackFailed /\ ~exec.timedOut /\ ~exec.failure
           /\ exec' = Ended(exec, "succeeded")
  <2>1. ~exec.aborted
    BY <1>4, Now DEF Explained
  <2>2. exec.pc = "report" /\ exec.finish /\ exec.pending = <<>> /\ Total(exec) = sent /\ exec.batch = <<>>
    BY <1>4, <2>1 DEF Report, ModelInv, Whole, Ordered
  <2>3. Len(exec.batch) = 0 /\ Len(exec.pending) = 0 /\ Len(exec.saved) \in Nat
    BY <2>2, Now, TotalIsNat
  <2>4. Len(exec.saved) = sent
    BY <2>2, <2>3 DEF Total
  <2> QED BY <1>1, <1>4, <2>2, <2>4, EndedFields
<1>5. CASE Report /\ signal = "none" /\ exec' = Flush(exec, "answer")
  <2>1. Moved(exec, exec', "answer") /\ exec'.pending = <<>> /\ exec.pc = "report"
    BY <1>5, Now, FlushMoves DEF Points, Awake, Report
  <2>2. next # "reading" /\ exec.result = "none"
    BY <2>1 DEF ModelInv, Whole, Stage
  <2>3. ModelType'
    BY <1>1, <2>1 DEF ModelInv, ModelType, Moved
  <2>4. Counted'
    BY <1>1, <2>1 DEF ModelInv, Counted, Moved, Awake
  <2>5. InTime'
    BY <1>1, <2>1 DEF ModelInv, InTime, Moved
  <2>6. Whole'
    <3>1. exec'.aborted \/ next' = "stop" => Explained'
      BY <1>1, <2>1 DEF ModelInv, Whole, Explained, Moved, Flags
    <3>2. exec'.pc \in {"answer", "flushing"} /\ Stage(exec') = "answer" /\ exec'.result = "none"
      BY <2>1, <2>2 DEF Moved, Flags
    <3> QED BY <1>1, <2>1, <2>2, <3>1, <3>2 DEF Whole, Stage
  <2> QED BY <2>1, <2>3, <2>4, <2>5, <2>6 DEF ModelInv, Moved
<1>6. signal \in {"none", "cancel_requested", "service_stopped"}
  BY DEF ModelInv, ModelType
<1> QED BY <1>2, <1>3, <1>4, <1>5, <1>6 DEF Report, Answer, Runs

\* The generator is closed when no read is outstanding.
LEMMA CloseStep == ASSUME ModelInv, Close PROVE ModelInv'
<1> DEFINE e == CheckDeadline(exec)
<1>1. /\ exec.pc = "closing" /\ next # "reading" /\ UNCHANGED <<next, sent, signal, clock>>
      /\ \E confirmed \in BOOLEAN : exec' = [e EXCEPT !.pc = "report", !.cleanupFailed = ~confirmed]
  BY DEF Close
<1>2. /\ e \in ExecRecord /\ Ordered(e) /\ Total(e) = Total(exec) /\ e.pc = "closing" /\ Flags(exec, e)
      /\ (e.aborted => exec.aborted \/ e.timedOut) /\ (exec.timedOut => e.timedOut) /\ (exec.aborted => e.aborted)
      /\ e.pending = exec.pending
  BY <1>1, Now, DeadlineFields
<1> HIDE DEF e
<1>3. /\ exec' \in ExecRecord /\ exec'.pc = "report" /\ exec'.saved = e.saved /\ exec'.batch = e.batch
      /\ exec'.pending = e.pending /\ exec'.finish = e.finish /\ exec'.timedOut = e.timedOut
      /\ exec'.aborted = e.aborted /\ exec'.failure = e.failure /\ exec'.callbackFailed = e.callbackFailed
      /\ exec'.result = e.result
  BY <1>1, <1>2 DEF ExecRecord, Points
<1>4. Ordered(exec') /\ Total(exec') = Total(exec)
  BY <1>2, <1>3 DEF Ordered, Total
<1>5. ModelType'
  BY <1>1, <1>3 DEF ModelInv, ModelType
<1>6. Counted'
  BY <1>1, <1>3, <1>4 DEF ModelInv, Counted, Stage, Awake
<1>7. InTime'
  BY <1>1, <1>3, <1>4 DEF ModelInv, InTime, Stage
<1>8. Whole'
  <2>1. exec'.aborted \/ next' = "stop" => Explained'
    BY <1>1, <1>2, <1>3 DEF ModelInv, Whole, Explained, Flags
  <2>2. exec'.result = "none"
    BY <1>1, <1>2, <1>3 DEF ModelInv, Whole, Flags
  <2>3. ~exec'.aborted => exec'.finish /\ exec'.pending = <<>> /\ Total(exec') = sent' /\ next' = "none"
    BY <1>1, <1>2, <1>3, <1>4 DEF ModelInv, Whole, Flags
  <2> QED BY <1>1, <1>3, <2>1, <2>2, <2>3 DEF Whole, Stage
<1> QED BY <1>4, <1>5, <1>6, <1>7, <1>8 DEF ModelInv

\* The provider answers a read that is outstanding, and only then.
LEMMA SettlesStep ==
  ASSUME ModelInv, NEW item \in {"delta", "finish", "badfinish", "done", "error"}, NEW phase, Settles(item, phase)
  PROVE  ModelInv'
<1>1. /\ next = "reading" /\ next' = item /\ UNCHANGED <<exec, signal, clock>>
      /\ sent' = IF item = "delta" THEN sent + 1 ELSE sent
  BY DEF Settles
<1>2. sent \in Nat /\ sent' \in Nat /\ sent <= sent'
  BY <1>1 DEF ModelInv, ModelType
<1>3. Stage(exec) = "handle" => exec.kind \in {"stop", "flush"}
  BY <1>1 DEF ModelInv, ModelType, ExecRecord, Counted
<1>4. ~Holding /\ Stage(exec) \notin {"push", "read", "next", "report", "answer", "done"}
  BY <1>1 DEF ModelInv, Counted, Whole, Holding
<1>5. ModelType' /\ Ordered(exec')
  BY <1>1, <1>2 DEF ModelInv, ModelType
<1>6. Counted'
  <2>1. Total(exec) \in Nat /\ Total(exec) <= sent
    BY Now, TotalIsNat DEF ModelInv, Counted
  <2>2. Stage(exec) \in Awake => Total(exec) = sent
    BY <1>4, <2>1 DEF ModelInv, Counted
  <2> QED BY <1>1, <1>2, <1>3, <1>4, <2>1, <2>2 DEF Counted, Holding
<1>7. InTime'
  BY <1>1, <1>3, <1>4 DEF ModelInv, InTime
<1>8. Whole'
  <2>1. exec.pc # "done"
    BY <1>4 DEF Stage
  <2> QED BY <1>1, <1>4, <2>1 DEF ModelInv, Whole, Explained
<1> QED BY <1>5, <1>6, <1>7, <1>8 DEF ModelInv

\* The deadline passes, its timer fires, and the batch timer does.
LEMMA TimeStep ==
  ASSUME ModelInv, DeadlinePasses \/ TimerFires \/ BatchElapses PROVE ModelInv'
<1>1. exec.pc # "done" /\ exec.result = "none" /\ UNCHANGED <<next, sent, signal>>
  BY DEF DeadlinePasses, TimerFires, BatchElapses, Timed, Runs, provider, ModelInv, Whole
<1>2. CASE DeadlinePasses
  <2>1. exec' = exec /\ clock' = [overdue |-> TRUE, sent |-> sent]
    BY <1>2 DEF DeadlinePasses
  <2>2. clock'.sent = sent /\ clock' \in [overdue : BOOLEAN, sent : Nat]
    BY <2>1 DEF ModelInv, ModelType
  <2>3. ModelType' /\ Ordered(exec')
    BY <1>1, <2>1, <2>2 DEF ModelInv, ModelType
  <2>4. Counted' /\ Whole'
    BY <1>1, <2>1 DEF ModelInv, Counted, Whole, Holding, Explained
  <2>5. InTime'
    BY <1>1, <2>1, <2>2 DEF ModelInv, Counted, InTime
  <2> QED BY <2>3, <2>4, <2>5 DEF ModelInv
<1>3. CASE TimerFires \/ BatchElapses
  <2>1. /\ exec' \in ExecRecord /\ exec'.pc = exec.pc /\ exec'.cont = exec.cont /\ exec'.kind = exec.kind
        /\ exec'.saved = exec.saved /\ exec'.batch = exec.batch /\ exec'.pending = exec.pending
        /\ exec'.finish = exec.finish /\ (exec.aborted => exec'.aborted) /\ (exec.timedOut => exec'.timedOut)
        /\ (exec'.aborted => exec.aborted \/ exec'.timedOut)
        /\ exec'.failure = exec.failure /\ exec'.callbackFailed = exec.callbackFailed /\ exec'.result = exec.result
        /\ clock' = clock
    <3>1. CASE TimerFires
      <4>1. exec' = [exec EXCEPT !.timedOut = TRUE, !.aborted = TRUE] /\ clock' = clock
        BY <3>1 DEF TimerFires, Runs
      <4> QED BY <4>1, Now DEF ExecRecord
    <3>2. CASE BatchElapses
      <4>1. exec' = [exec EXCEPT !.due = TRUE] /\ clock' = clock
        BY <3>2 DEF BatchElapses, Runs
      <4> QED BY <4>1, Now DEF ExecRecord
    <3> QED BY <1>3, <3>1, <3>2
  <2>2. Ordered(exec') /\ Total(exec') = Total(exec) /\ Stage(exec') = Stage(exec)
    BY <2>1, Now DEF Ordered, Total, Stage
  <2>3. ModelType'
    BY <1>1, <2>1 DEF ModelInv, ModelType
  <2>4. Counted'
    BY <1>1, <2>1, <2>2 DEF ModelInv, Counted, Holding
  <2>5. InTime'
    BY <1>1, <2>1, <2>2 DEF ModelInv, InTime, IsAborted
  <2>6. Whole'
    <3>1. exec'.aborted \/ next' = "stop" \/ (Stage(exec') = "handle" /\ exec'.kind = "stop") => Explained'
      BY <1>1, <2>1, <2>2 DEF ModelInv, Whole, Explained
    <3> QED BY <1>1, <2>1, <2>2, <3>1 DEF ModelInv, Whole
  <2> QED BY <2>2, <2>3, <2>4, <2>5, <2>6 DEF ModelInv
<1> QED BY <1>2, <1>3

\* The caller's abort is a reason to stop.
LEMMA CallerStep == ASSUME ModelInv, NEW why \in {"cancel_requested", "service_stopped"}, CallerAborts(why) PROVE ModelInv'
<1>1. signal' = why /\ UNCHANGED <<exec, next, sent, clock>>
  BY DEF CallerAborts, provider
<1>2. ModelType' /\ Ordered(exec') /\ Counted'
  BY <1>1 DEF ModelInv, ModelType, Counted, Holding
<1>3. InTime'
  BY <1>1 DEF ModelInv, InTime, IsAborted
<1>4. Whole'
  BY <1>1 DEF ModelInv, Whole, Explained
<1> QED BY <1>2, <1>3, <1>4 DEF ModelInv

\* Every step of the executor, the adapter, time and the caller keeps the invariant.
LEMMA ModelStep == ModelInv /\ [ModelNext]_modelVars => ModelInv'
<1> SUFFICES ASSUME ModelInv, [ModelNext]_modelVars PROVE ModelInv'
  OBVIOUS
<1>1. CASE ResponseStarts \/ UNCHANGED modelVars
  <2>1. UNCHANGED <<exec, next, sent, signal, clock>>
    BY <1>1 DEF ResponseStarts, modelVars
  <2> QED BY <2>1 DEF ModelInv, ModelType, Counted, InTime, Whole, Holding, Explained, IsAborted
<1>2. CASE SendsDelta \/ Completes \/ StreamEnds \/ ProviderFails
  BY <1>2, SettlesStep DEF SendsDelta, Completes, StreamEnds, ProviderFails
<1> QED
  BY <1>1, <1>2, ReadStep, LoopStep, RaceStep, HandleStopStep, HandleItemStep, PushStep, ReadNextStep, CloseStep,
     ReportStep, CommitStep, CommitFailsStep, TimeStep, CallerStep
  DEF ModelNext, Executor

\* A request begins with nothing read and nothing kept.
LEMMA ModelInitial == ModelInit => ModelInv
<1> SUFFICES ASSUME ModelInit PROVE ModelInv
  OBVIOUS
<1>1. ModelType
  BY DEF ModelInit, ModelType, ExecRecord, Points, Awake
<1>2. Ordered(exec)
  BY DEF ModelInit, Ordered, Follows
<1>3. Total(exec) = 0 /\ Stage(exec) = "read" /\ ~Holding
  BY DEF ModelInit, Total, Stage, Holding
<1>4. Counted /\ InTime /\ Whole
  BY <1>3 DEF ModelInit, Counted, InTime, Whole, Awake, Stage, IsAborted
<1> QED BY <1>1, <1>2, <1>4 DEF ModelInv

(***************************************************************************)
(* What executeModelRequest saves is a gapless beginning of what the       *)
(* provider sent, none of it sent after the deadline; a success has saved  *)
(* the whole answer; a failure leaves nothing unsaved; and no read is      *)
(* outstanding once there is an outcome.                                   *)
(***************************************************************************)
THEOREM AnswerIsWholeCorrect == Spec => []AnswerIsWhole
<1>1. Init => ModelInv
  BY ModelInitial DEF Init
<1>2. ModelInv /\ [Next]_operationVars => ModelInv'
  BY ModelStep DEF Next, StepsModel, StepsShell, StepsFile, StepsChat, operationVars
<1>3. ModelInv => AnswerIsWhole
  <2> SUFFICES ASSUME ModelInv PROVE AnswerIsWhole
    OBVIOUS
  <2> DEFINE kept == exec.saved \o exec.batch \o exec.pending
  <2>1. exec.saved \in Seq(Nat) /\ exec.batch \in Seq(Nat) /\ exec.pending \in Seq(Nat)
    BY Now DEF ExecRecord
  <2>2. /\ Follows(exec.saved \o exec.batch, 0) /\ exec.saved \o exec.batch \in Seq(Nat)
        /\ Len(exec.saved \o exec.batch) = Len(exec.saved) + Len(exec.batch)
    BY <2>1, JoinedFollows, Now DEF Ordered
  <2>3. Follows(kept, 0) /\ Len(kept) = Total(exec) /\ kept \in Seq(Nat)
    <3>1. Follows(exec.pending, Len(exec.saved \o exec.batch))
      BY <2>2, Now DEF Ordered
    <3>2. /\ Follows(kept, 0) /\ kept \in Seq(Nat)
          /\ Len(kept) = Len(exec.saved \o exec.batch) + Len(exec.pending)
      BY <2>1, <2>2, <3>1, JoinedFollows
    <3> QED BY <2>2, <3>2 DEF Total
  <2> HIDE DEF kept
  <2>4. kept = [i \in 1..Len(kept) |-> i]
    BY <2>3 DEF Follows
  <2>5. clock.overdue => Len(kept) <= clock.sent
    BY <2>3 DEF ModelInv, InTime
  <2>6. exec.result # "none" => exec.pc = "done" /\ exec.batch = <<>>
    BY DEF ModelInv, Whole, Ordered
  <2> QED BY <2>4, <2>5, <2>6 DEF AnswerIsWhole, ModelInv, Whole, Stage, kept
<1> QED BY <1>1, <1>2, <1>3, PTL DEF Spec
=============================================================================
