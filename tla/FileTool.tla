------------------------------- MODULE FileTool -------------------------------
(***************************************************************************)
(* One file change: write_file of a new file (createFile) or an edit or    *)
(* write of an existing one (executeFileTool).  The new content goes to a  *)
(* temporary file beside the target; the target is linked or renamed onto  *)
(* only after its state and the dispatch have been checked again.  Every   *)
(* system call may fail, another program may change the target between any *)
(* two of them, and ToolService turns what is thrown into the outcome.     *)
(*                                                                         *)
(* The target is absent, the approved preimage, the new content or         *)
(* something else; any change by another program makes it something else.  *)
(* Reading tools, which change nothing, and the checks of paths, sizes and *)
(* text are one failing or passing step.  An error of link or rename does  *)
(* not say whether the name was changed; opening the temporary file        *)
(* exclusively either makes it or does not.                                *)
(***************************************************************************)
EXTENDS Integers

CONSTANT MaxWrites   \* bound: changes of the target by other programs

ASSUME WritesAssumption == MaxWrites \in Nat

VARIABLES
  tool,    \* the local variables of the call
  target,  \* "absent", "before", "after" or "other"
  temp,    \* whether the temporary file exists
  writes,  \* changes by other programs so far
  put      \* what the call's own change replaced, or "nothing"

fileVars == <<tool, target, temp, writes, put>>

FileInit ==
  /\ \E op \in {"create", "edit", "same"} :
       tool = [op |-> op, pc |-> "open", owned |-> FALSE, attempted |-> FALSE, error |-> "none", result |-> "none"]
  /\ target \in {"absent", "before", "other"} /\ temp = FALSE /\ writes = 0 /\ put = "nothing"

Creates == tool.op = "create"

\* The state the tool found: no file, or the approved preimage.
Expected == target = IF Creates THEN "absent" ELSE "before"

At(pc)   == tool.pc = pc
Goto(pc) == tool' = [tool EXCEPT !.pc = pc]

-----------------------------------------------------------------------------
(***************************************************************************)
(* Errors.  Once the change was attempted nothing thrown says whether it   *)
(* was made; the owned temporary file is removed, the handles are closed.  *)
(***************************************************************************)

\* An error that is taken at its word.
FaultyRaise(error) == [tool EXCEPT !.pc = "unwind", !.error = error]

Raise(error) == [tool EXCEPT !.pc = "unwind", !.error = IF tool.attempted THEN "cleanup_failed" ELSE error]

\* A system call or a check may fail without effect.
Fails == tool' = Raise("tool_failed") /\ UNCHANGED <<target, temp, writes, put>>

Unwind ==
  /\ At("unwind")
  /\ \/ ~tool.owned /\ Goto("close") /\ UNCHANGED temp
     \/ tool.owned /\ temp /\ Goto("close") /\ temp' = FALSE
     \/ tool.owned /\ tool' = [tool EXCEPT !.pc = "close", !.error = "cleanup_failed"] /\ UNCHANGED temp
  /\ UNCHANGED <<target, writes, put>>

\* Handles that do not close make the outcome uncertain.  ToolService maps what was thrown.
CloseHandles ==
  /\ At("close")
  /\ \E closed \in BOOLEAN :
       tool' = [tool EXCEPT !.pc = "done",
                            !.result = CASE ~closed -> "cleanup_failed"
                                         [] closed /\ tool.error = "none" -> "succeeded"
                                         [] OTHER -> tool.error]
  /\ UNCHANGED <<target, temp, writes, put>>

-----------------------------------------------------------------------------
(***************************************************************************)
(* The call.                                                               *)
(***************************************************************************)
Pass(from, to) == At(from) /\ Goto(to) /\ UNCHANGED <<target, temp, writes, put>>

\* beforeEffect: the dispatch holds, the run was cancelled, or the store or service failed.
Guard(from, to) ==
  \/ Pass(from, to)
  \/ At(from) /\ tool' \in {Raise("cancelled"), Raise("threw")} /\ UNCHANGED <<target, temp, writes, put>>

\* executeFileTool asks first; an edit asks again once its preimage was read.
Enter  == At("open") /\ Guard("open", "inspect")
AskAgain == At("permit") /\ Guard("permit", IF tool.op = "same" THEN "recheck" ELSE "temp")

Found(pc) ==
  /\ IF Expected THEN Goto(pc) ELSE tool' = Raise("tool_failed")
  /\ UNCHANGED <<target, temp, writes, put>>

\* Directories are opened one below the other and verified; a new file must not be there yet ...
InspectParent == At("inspect") /\ Creates /\ Found("temp")

\* ... and an existing one is opened, verified and compared with the approved preimage.
InspectTarget == At("inspect") /\ ~Creates /\ Found("permit")

OpenTemp ==
  /\ At("temp")
  /\ tool' = [tool EXCEPT !.pc = "write", !.owned = TRUE] /\ temp' = TRUE
  /\ UNCHANGED <<target, writes, put>>

Write == Pass("write", "guard")

\* An edit whose temporary file does not close cannot tell what it left.
CloseTempFails ==
  /\ At("write")
  /\ tool' = Raise(IF Creates THEN "tool_failed" ELSE "cleanup_failed")
  /\ UNCHANGED <<target, temp, writes, put>>

LastGuard == At("guard") /\ Guard("guard", "recheck")

Recheck ==
  /\ At("recheck")
  /\ Found(IF tool.op = "same" THEN "close" ELSE "change")

Changed(pc) ==
  /\ target' = "after" /\ put' = target
  /\ tool' = [tool EXCEPT !.pc = pc, !.attempted = TRUE, !.owned = Creates]
  /\ UNCHANGED writes

\* link never replaces what appeared meanwhile.
Link ==
  /\ At("change") /\ Creates
  /\ IF target = "absent" THEN Changed("unlink") /\ UNCHANGED temp ELSE Fails

UnlinkTemp ==
  /\ At("unlink")
  /\ temp' = FALSE /\ tool' = [tool EXCEPT !.pc = "sync", !.owned = FALSE]
  /\ UNCHANGED <<target, writes, put>>

\* rename replaces whatever is there; one that reports an error may have done so too.
Rename ==
  /\ At("change") /\ ~Creates
  /\ \/ Changed("sync") /\ temp' = FALSE
     \/ /\ tool' = [Raise("cleanup_failed") EXCEPT !.attempted = TRUE]
        /\ \/ target' = "after" /\ put' = target /\ temp' = FALSE
           \/ UNCHANGED <<target, temp, put>>
        /\ UNCHANGED writes

SyncParent == Pass("sync", "close")

\* Opening, reading, writing, linking, removing and syncing fail.
CallFails == tool.pc \in {"inspect", "temp", "write", "recheck", "unlink", "sync"} /\ Fails

\* A link that reports an error may have been made, like a rename; "linked" is set only once link resolves.
LinkFails ==
  /\ At("change") /\ Creates
  /\ \/ Fails
     \/ /\ target = "absent" /\ target' = "after" /\ put' = target
        /\ tool' = Raise("tool_failed") /\ UNCHANGED <<temp, writes>>

OtherWrites ==
  /\ tool.pc # "done" /\ writes < MaxWrites
  /\ target' \in {"absent", "other"} \ {target} /\ writes' = writes + 1
  /\ UNCHANGED <<tool, temp, put>>

FileSteps ==
  \/ Enter \/ InspectParent \/ InspectTarget \/ AskAgain \/ OpenTemp \/ Write \/ LastGuard \/ Recheck
  \/ Link \/ UnlinkTemp \/ Rename \/ SyncParent \/ Unwind \/ CloseHandles

FileNext == FileSteps \/ CloseTempFails \/ CallFails \/ LinkFails \/ OtherWrites

\* System calls return, and the store answers.
FileFairness == WF_fileVars(FileSteps)

-----------------------------------------------------------------------------
\* link made the name, reported an error, and was taken at its word.
LinkMisreported == Creates /\ put = "absent" /\ ~tool.attempted /\ tool.result = "tool_failed"

(***************************************************************************)
(* A file outcome that is known is true: a call that failed, was cancelled *)
(* or was stopped by the store has not changed its target, unless a link   *)
(* made it and reported an error, and leaves no temporary file; one that   *)
(* succeeded has changed it, or found it as it should be, and leaves none  *)
(* either.  Creating never replaces a file.                                *)
(***************************************************************************)
ChangeIsKnown ==
  /\ tool.result \in {"cancelled", "tool_failed", "threw"} => (put = "nothing" \/ LinkMisreported) /\ ~temp
  /\ tool.result = "succeeded" => (put # "nothing" \/ tool.op = "same") /\ ~temp
  /\ Creates => put \in {"nothing", "absent"}

(***************************************************************************)
(* What docs/file-tools.md says of a creation: an uncertain link becomes   *)
(* cleanup_failed.  The code rethrows the error of a link as it is         *)
(* (createFile sets linked only after link has resolved).                  *)
(***************************************************************************)
UncertainLinkIsUnknown ==
  Creates /\ put # "nothing" => tool.result \in {"none", "succeeded", "cleanup_failed"}
=============================================================================
