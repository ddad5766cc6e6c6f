------------------------------ MODULE ModelStream ------------------------------
(***************************************************************************)
(* One model request: executeModelRequest reads the provider's stream item *)
(* by item, hands deltas to the store in batches, and turns whatever       *)
(* happens into one outcome.  The provider is the DeepSeek adapter's       *)
(* generator over a fetched event stream.  Reads, commits, the batch       *)
(* timer, the deadline, the user's cancellation and the host's shutdown    *)
(* settle in any order.                                                    *)
(*                                                                         *)
(* Delta n is its number; DeltaBytes gives its size.  The output's text,   *)
(* usage and timings are not modelled.  The deadline has two faces: the    *)
(* elapsed time (clock.overdue), which checkDeadline reads, and the timer, *)
(* which a busy event loop may fire any time later.                        *)
(***************************************************************************)
EXTENDS Integers, SequencesExt

CONSTANTS
  DeltaBytes,      \* the size of each delta the provider can send
  BatchBytes,      \* options.batchBytes
  MaxOutputBytes   \* options.maxOutputBytes

ASSUME ModelAssumption ==
  /\ DeltaBytes \in Seq(Nat \ {0})
  /\ BatchBytes \in Nat \ {0} /\ MaxOutputBytes \in Nat \ {0}

VARIABLES
  exec,    \* the local variables of executeModelRequest
  next,    \* its outstanding read: "none", "reading", or what it settled with
  fetch,   \* the adapter: "fetching", "streaming", "terminal" (response seen) or "ended"
  sent,    \* deltas the adapter has yielded
  signal,  \* options.signal: "none", "cancel_requested" or "service_stopped"
  clock    \* whether timeoutMs have elapsed, and the deltas sent by then

provider  == <<fetch, sent>>
modelVars == <<exec, next, fetch, sent, signal, clock>>

ModelInit ==
  /\ exec = [pc |-> "read", cont |-> "none", kind |-> "none",
             pending |-> <<>>, batch |-> <<>>, saved |-> <<>>, due |-> FALSE,
             finish |-> FALSE, aborted |-> FALSE, timedOut |-> FALSE, failure |-> FALSE,
             callbackFailed |-> FALSE, cleanupFailed |-> FALSE, result |-> "none"]
  /\ next = "none" /\ fetch = "fetching" /\ sent = 0
  /\ signal = "none" /\ clock = [overdue |-> FALSE, sent |-> 0]

Size(deltas) == FoldLeft(LAMBDA total, n : total + DeltaBytes[n], 0, deltas)

IsAborted(e)  == e.aborted \/ signal # "none"
Then(e, pc)   == [e EXCEPT !.pc = pc]
Stopping(e)   == [e EXCEPT !.pc = "closing", !.aborted = TRUE]
Failing(e)    == [Stopping(e) EXCEPT !.failure = TRUE]
Ended(e, how) == [e EXCEPT !.pc = "done", !.result = how]

\* A deadline only the timer enforces.
FaultyCheckDeadline(e) == e

CheckDeadline(e) == IF clock.overdue THEN [e EXCEPT !.timedOut = TRUE, !.aborted = TRUE] ELSE e

\* flush: nothing is handed over after the caller's abort.
Flush(e, pc) ==
  IF e.pending = <<>> \/ signal # "none" THEN Then(e, pc)
  ELSE [e EXCEPT !.pc = "flushing", !.cont = pc, !.batch = e.pending, !.pending = <<>>, !.due = FALSE]

FlushDue(e, pc) == IF e.due THEN Flush(e, pc) ELSE Then(e, pc)

Runs(e) == exec' = e /\ UNCHANGED <<next, provider, signal, clock>>

-----------------------------------------------------------------------------
(***************************************************************************)
(* The read loop.                                                          *)
(***************************************************************************)
Read ==
  /\ exec.pc = "read"
  /\ LET e == CheckDeadline(exec)
     IN exec' = Then(e, "loop") /\ next' = IF IsAborted(e) THEN "stop" ELSE "reading"
  /\ UNCHANGED <<provider, signal, clock>>

Loop ==
  /\ exec.pc = "loop"
  /\ LET e == CheckDeadline(exec) IN Runs(IF IsAborted(e) THEN Stopping(e) ELSE FlushDue(e, "race"))

\* Promise.race of the read, the abort and the batch timer.
Race ==
  /\ exec.pc = "race"
  /\ \E kind \in {"stop", "flush", next} :
       /\ kind = "stop"  => IsAborted(exec) \/ next = "stop"
       /\ kind = "flush" => exec.due
       /\ kind # "reading"
       /\ LET e == [CheckDeadline(exec) EXCEPT !.kind = kind]
          IN Runs(IF IsAborted(e) THEN Stopping(e) ELSE FlushDue(e, "handle"))

HandleStop ==
  /\ exec.pc = "handle" /\ (IsAborted(exec) \/ exec.kind \in {"stop", "flush"})
  /\ Runs(IF IsAborted(exec) \/ exec.kind = "stop" THEN Stopping(exec) ELSE Flush(exec, "loop"))

\* The settled read is taken.  After the finish item only the end may follow.
HandleItem ==
  /\ exec.pc = "handle" /\ ~IsAborted(exec) /\ exec.kind \notin {"stop", "flush"}
  /\ next' = "none"
  /\ exec' = CASE exec.kind = "done" /\ exec.finish -> Flush(exec, "closing")
               [] exec.kind = "delta" /\ ~exec.finish /\ Size([i \in 1..sent |-> i]) <= MaxOutputBytes ->
                    IF Size(Append(exec.pending, sent)) > BatchBytes THEN Flush(exec, "push") ELSE Then(exec, "push")
               [] exec.kind = "finish" /\ ~exec.finish -> Flush([exec EXCEPT !.finish = TRUE], "next")
               [] OTHER -> Failing(exec)
  /\ UNCHANGED <<provider, signal, clock>>

Push ==
  /\ exec.pc = "push"
  /\ LET e == [exec EXCEPT !.pending = Append(@, sent)]
     IN Runs(CASE IsAborted(exec) -> Stopping(exec)
               [] ~IsAborted(exec) /\ Size(e.pending) >= BatchBytes -> Flush(e, "next")
               [] OTHER -> Then(e, "next"))

ReadNext == exec.pc = "next" /\ Runs(FlushDue(exec, "read"))

\* onDeltas resolves once the batch is committed.
Commits ==
  /\ exec.pc = "flushing"
  /\ Runs([exec EXCEPT !.pc = exec.cont, !.saved = @ \o exec.batch, !.batch = <<>>])

\* onDeltas rejects: the store found the run cancelled, or failed.
CommitFails(cancelled) ==
  /\ exec.pc = "flushing"
  /\ signal' = IF cancelled /\ signal = "none" THEN "cancel_requested" ELSE signal
  /\ LET e == [exec EXCEPT !.batch = <<>>, !.aborted = TRUE,
                           !.callbackFailed = ~(cancelled /\ signal' = "cancel_requested")]
     IN exec' = CASE exec.cont # "answer" -> Failing(e)
                  [] exec.cont = "answer" /\ e.callbackFailed -> Ended(e, "threw")
                  [] OTHER -> Then(e, "answer")
  /\ UNCHANGED <<next, provider, clock>>

-----------------------------------------------------------------------------
(***************************************************************************)
(* The end: the read still owned is awaited, then return() of the          *)
(* generator, and the outcome is chosen.                                   *)
(***************************************************************************)
Close ==
  /\ exec.pc = "closing" /\ next # "reading"
  /\ \E confirmed \in BOOLEAN : exec' = [CheckDeadline(exec) EXCEPT !.pc = "report", !.cleanupFailed = ~confirmed]
  /\ fetch' = "ended"
  /\ UNCHANGED <<next, sent, signal, clock>>

Report ==
  /\ exec.pc = "report"
  /\ Runs(CASE exec.callbackFailed \/ signal = "service_stopped" \/ exec.cleanupFailed -> Ended(exec, "threw")
            [] signal = "cancel_requested" /\ ~exec.callbackFailed /\ ~exec.cleanupFailed -> Ended(exec, "cancelled")
            [] signal = "none" /\ ~exec.callbackFailed /\ ~exec.cleanupFailed ->
                 IF exec.timedOut \/ exec.failure THEN Flush(exec, "answer") ELSE Ended(exec, "succeeded"))

Answer ==
  /\ exec.pc = "answer"
  /\ Runs(Ended(exec, CASE signal = "none" -> "failed"
                        [] signal = "cancel_requested" -> "cancelled"
                        [] signal = "service_stopped" -> "threw"))

-----------------------------------------------------------------------------
(***************************************************************************)
(* The adapter: one item, the end or an error per read.                    *)
(***************************************************************************)
Settles(item, phase) ==
  /\ next = "reading"
  /\ next' = item /\ fetch' = phase
  /\ sent' = IF item = "delta" THEN sent + 1 ELSE sent
  /\ UNCHANGED <<exec, signal, clock>>

ResponseStarts ==
  /\ fetch = "fetching" /\ next = "reading"
  /\ fetch' = "streaming"
  /\ UNCHANGED <<exec, next, sent, signal, clock>>

SendsDelta == fetch = "streaming" /\ sent < Len(DeltaBytes) /\ Settles("delta", "streaming")

\* response.completed, whose output the executor accepts or finds at odds with the deltas.
Completes == fetch = "streaming" /\ \E item \in {"finish", "badfinish"} : Settles(item, "terminal")

\* The stream ends: well after a completed response, else with an error.
StreamEnds == fetch \in {"streaming", "terminal"} /\ Settles(IF fetch = "terminal" THEN "done" ELSE "error", "ended")

\* A refused or broken fetch, an invalid or failing record, data after the terminal response, an abort.
ProviderFails == fetch # "ended" /\ Settles("error", "ended")

-----------------------------------------------------------------------------
(***************************************************************************)
(* Time and the caller.                                                    *)
(***************************************************************************)
Timed == exec.pc \notin {"report", "answer", "done"} /\ exec.cont # "answer"

DeadlinePasses ==
  /\ Timed /\ ~clock.overdue
  /\ clock' = [overdue |-> TRUE, sent |-> sent]
  /\ UNCHANGED <<exec, next, provider, signal>>

TimerFires ==
  /\ Timed /\ clock.overdue /\ ~exec.timedOut
  /\ Runs([exec EXCEPT !.timedOut = TRUE, !.aborted = TRUE])

BatchElapses ==
  /\ Timed /\ exec.pending # <<>> /\ ~exec.due
  /\ Runs([exec EXCEPT !.due = TRUE])

CallerAborts(why) ==
  /\ exec.pc # "done" /\ signal = "none"
  /\ signal' = why
  /\ UNCHANGED <<exec, next, provider, clock>>

Executor == \/ Read \/ Loop \/ Race \/ HandleStop \/ HandleItem \/ Push \/ ReadNext
            \/ Close \/ Report \/ Answer

ModelNext ==
  \/ Executor \/ Commits \/ (\E cancelled \in BOOLEAN : CommitFails(cancelled))
  \/ ResponseStarts \/ SendsDelta \/ Completes \/ StreamEnds \/ ProviderFails
  \/ DeadlinePasses \/ TimerFires \/ BatchElapses
  \/ \E why \in {"cancel_requested", "service_stopped"} : CallerAborts(why)

(***************************************************************************)
(* The event loop runs what is ready, the store settles a commit, time     *)
(* passes, and an aborted fetch rejects.  A provider that is not aborted   *)
(* may stay silent.                                                        *)
(***************************************************************************)
ModelFairness ==
  /\ WF_modelVars(Executor) /\ WF_modelVars(Commits)
  /\ WF_modelVars(DeadlinePasses) /\ WF_modelVars(TimerFires)
  /\ WF_modelVars(IsAborted(exec) /\ ProviderFails)

-----------------------------------------------------------------------------
(***************************************************************************)
(* What reaches the log is a gapless beginning of what the provider sent,  *)
(* none of it sent after the deadline; a success is the whole answer, in   *)
(* time; a failure leaves no admissible delta behind; and no read is       *)
(* outstanding once there is an outcome.                                   *)
(***************************************************************************)
AnswerIsWhole ==
  LET kept == exec.saved \o exec.batch \o exec.pending
  IN /\ kept = [i \in 1..Len(kept) |-> i]
     /\ clock.overdue => Len(kept) <= clock.sent
     /\ exec.result = "succeeded" => exec.finish /\ ~exec.timedOut /\ Len(exec.saved) = sent
     /\ exec.result = "failed" => exec.pending = <<>> /\ exec.batch = <<>>
     /\ exec.pc = "done" => next # "reading"
=============================================================================
