----------------------------- MODULE ModelHistory -----------------------------
(***************************************************************************)
(* packages/core/src/history.ts buildModelHistory: the conversation one    *)
(* run contributes to the next model request, read off the session's       *)
(* state.  The code throws at the first message it cannot know yet; here   *)
(* the messages before that point are kept and `complete` is false, so     *)
(* that two projections of a growing run can be compared.                  *)
(*                                                                         *)
(* A message is its role, the request or call it speaks for and how that   *)
(* ended.  A compaction checkpoint, which replaces the messages of what it *)
(* summarises, is left out: it selects among messages and writes none of   *)
(* a request or a call.  Operator Faulty... : see RunReducer.              *)
(***************************************************************************)
EXTENDS Session, SequencesExt

\* run.requests in insertion order.
RequestOrder == [n \in 1..(2 * MaxStep) |-> <<(n + 1) \div 2, 2 - (n % 2)>>]

Message(role, of, status, reason, execution) ==
  [role |-> role, of |-> of, status |-> status, reason |-> reason, execution |-> execution]

\* Not in the map, or never shown: a request the context limit refused.
Skipped(request) == request.status = "absent" \/ request.reason = "context_limit"

\* Did the call's effect happen?  A dispatched call that recovery closed cannot tell.
Execution(call) ==
  IF call.reason = "cleanup_failed" \/ (call.status = "interrupted" /\ call.started) THEN "unknown"
  ELSE IF call.started THEN "settled" ELSE "not_started"

FaultyUndecided(run, t) == IsOpen(run.tools[t])

\* No result may be given for t yet: it is open, or a live run may still create it.
Undecided(run, t) ==
  \/ IsOpen(run.tools[t])
  \/ run.tools[t].status = "absent" /\ run.status \in LiveStatus

ToolMessage(run, t) ==
  IF run.tools[t].status = "absent"
  THEN Message("tool", t, "not_started", run.reason, "not_started")
  ELSE Message("tool", t, run.tools[t].status, run.tools[t].reason, Execution(run.tools[t]))

\* history_incomplete: what comes later is not looked at.
Say(history, known, message) ==
  [complete |-> history.complete /\ known,
   messages |-> IF history.complete /\ known THEN Append(history.messages, message) ELSE history.messages]

\* Every declared call has its message, created or not.
SayCall(run, history, t) == Say(history, ~Undecided(run, t), ToolMessage(run, t))

SayRequest(run, history, q) ==
  LET request  == run.requests[q]
      answered == Say(history, request.status # "running",
                      Message("assistant", q, request.status, request.reason, "settled"))
  IN IF Skipped(request) THEN history
     ELSE FoldLeft(LAMBDA h, i : SayCall(run, h, <<q[1], i>>), answered, [i \in 1..request.calls |-> i])

\* The user's message, then each request in order.
RunHistory(run) ==
  LET user == IF run.userMessage THEN <<Message("user", NoRequest, "completed", NoReason, "settled")>> ELSE <<>>
  IN FoldLeft(LAMBDA h, q : SayRequest(run, h, q), [complete |-> TRUE, messages |-> user], RequestOrder)

\* buildModelRequest returns instead of throwing: every run's part is complete.
RequestBuilds == \A r \in Runs : RunHistory(runs[r]).complete

-----------------------------------------------------------------------------
(***************************************************************************)
(* Whenever the guards let a request or a compaction start, the history it *)
(* is built from exists.  The loop builds it first; if it threw, the run   *)
(* would be failed and the host stopped over a state the ledger allows.    *)
(***************************************************************************)
HistoryBuildable ==
  \A r \in Runs :
    /\ Active(r)
    /\ \/ \E k \in Steps, a \in Attempts : CanStartRequest(runs[r], k, a)
       \/ \E trigger \in Triggers : CanStartCompaction(runs[r], trigger)
    => RequestBuilds

(***************************************************************************)
(* What the model was once told is never taken back or told otherwise: the *)
(* known part of a run's history only gets longer, through settlements,    *)
(* cancellation and recovery.                                              *)
(***************************************************************************)
HistoryOnlyGrows ==
  [][\A r \in Runs : IsPrefix(RunHistory(runs[r]).messages, RunHistory(runs'[r]).messages)]_vars
=============================================================================
