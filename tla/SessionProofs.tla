----------------------------- MODULE SessionProofs -----------------------------
(***************************************************************************)
(* Proofs about Session, ModelHistory and Recovery, for every bound, every *)
(* set of runs, commands and outcomes: the rules of the ledger, with       *)
(* restarts anywhere; a store can always be opened again, recovery invents *)
(* nothing, and what the model is told can always be written and is only   *)
(* ever continued.                                                         *)
(*                                                                         *)
(* RunProofs shows that the record every event returns keeps RunInv and    *)
(* OutcomeInv, and grows from the one it was applied to.  The session only *)
(* ever replaces the active run's record by such a record.                 *)
(*                                                                         *)
(* Both planRecovery and buildModelHistory are loops over a run's maps, so *)
(* the proofs about them are about rounds.  A round of the plan is         *)
(* accepted because of what the rounds before it closed, and closes its    *)
(* part without touching what was settled (Closes).  A round of the        *)
(* history keeps the conversations before and after an event abreast.      *)
(***************************************************************************)
EXTENDS Recovery, RunProofs, WellFoundedInduction

-----------------------------------------------------------------------------
(***************************************************************************)
(* The session.                                                            *)
(***************************************************************************)
\* Outcomes are built from the enumerations of the contracts.
LEMMA OutcomesTyped ==
  /\ \A o \in RequestOutcomes : IsOutcome(o, TerminalRequest)
  /\ \A o \in ToolOutcomes : IsOutcome(o, TerminalCall)
  /\ \A o \in StepOutcomes : IsOutcome(o, TerminalStatus)
BY OutcomesAssumption DEF RequestOutcomes, ToolOutcomes, StepOutcomes,
     IsOutcome, TerminalRequest

Inv == TypeOK /\ \A r \in Runs : RunInv(runs[r])

LEMMA ReplaceInv ==
  ASSUME Inv, NEW r \in Runs, NEW run, RunInv(run) /\ run.status \in LiveStatus, Replace(r, run)
  PROVE  Inv'
<1>1. run \in RunType
  BY DEF RunInv
<1>2. TypeOK'
  BY <1>1 DEF Inv, TypeOK, Replace
<1>3. ASSUME NEW s \in Runs PROVE RunInv(runs'[s])
  <2>1. runs'[s] = IF s = r THEN run ELSE runs[s]
    BY DEF Inv, TypeOK, Replace
  <2> QED BY <2>1 DEF Inv
<1> QED BY <1>2, <1>3 DEF Inv

LEMMA InitInv ==
  Init => Inv
<1> SUFFICES ASSUME Init PROVE Inv
  OBVIOUS
<1>1. RunInv(AbsentRun) /\ AbsentRun \in RunType
  BY AbsentInv DEF RunInv
<1> QED BY <1>1 DEF Init, Inv, TypeOK

LEMMA RunFinishedInv ==
  ASSUME Inv, NEW r \in Runs, NEW o \in StepOutcomes, RunFinished(r, o)
  PROVE  Inv'
<1>1. RunInv(FinishRun(runs[r], o))
  BY FinishRunInv, OutcomesTyped DEF Inv
<1>2. FinishRun(runs[r], o) \in RunType
  BY <1>1 DEF RunInv
<1>3. TypeOK'
  BY <1>2 DEF Inv, TypeOK, RunFinished
<1>4. ASSUME NEW s \in Runs PROVE RunInv(runs'[s])
  <2>1. runs'[s] = IF s = r THEN FinishRun(runs[r], o) ELSE runs[s]
    BY DEF Inv, TypeOK, RunFinished
  <2> QED BY <2>1, <1>1 DEF Inv
<1> QED BY <1>3, <1>4 DEF Inv

LEMMA NextInv ==
  Inv /\ [Next]_vars => Inv'
<1> SUFFICES ASSUME Inv, [Next]_vars PROVE Inv'
  OBVIOUS
<1>1. CASE UNCHANGED vars
  BY <1>1 DEF vars, Inv, TypeOK
<1>2. CASE CreateSession
  BY <1>2 DEF CreateSession, Inv, TypeOK
<1>3. ASSUME NEW r \in Runs, NEW c \in Commands, RunStarted(r, c) PROVE Inv'
  BY <1>3, StartedRunInv, ReplaceInv DEF RunStarted
<1>4. ASSUME NEW r \in Runs, NEW c \in Commands, UserMessage(r, c) PROVE Inv'
  BY <1>4, AdmitMessageInv, ReplaceInv DEF UserMessage, Inv
<1>5. ASSUME NEW r \in Runs, RunCancelRequested(r) PROVE Inv'
  BY <1>5, RequestCancelInv, ReplaceInv DEF RunCancelRequested, Inv
<1>6. ASSUME NEW r \in Runs, NEW k \in Steps, StepStarted(r, k) PROVE Inv'
  BY <1>6, StartStepInv, ReplaceInv DEF StepStarted, Inv
<1>7. ASSUME NEW r \in Runs, NEW k \in Steps, NEW a \in Attempts, ModelRequestStarted(r, k, a) PROVE Inv'
  BY <1>7, StartRequestInv, ReplaceInv DEF ModelRequestStarted, Inv
<1>8. ASSUME NEW r \in Runs, NEW q \in Requests, ModelResponseDelta(r, q) PROVE Inv'
  BY <1>8, RecordDeltaInv, ReplaceInv DEF ModelResponseDelta, Inv
<1>9. ASSUME NEW r \in Runs, NEW q \in Requests, NEW o \in RequestOutcomes, NEW n \in 0..MaxCall,
             ModelRequestFinished(r, q, o, n)
      PROVE  Inv'
  BY <1>9, FinishRequestInv, OutcomesTyped, ReplaceInv DEF ModelRequestFinished, Inv
<1>10. ASSUME NEW r \in Runs, NEW trigger \in Triggers, CompactionStarted(r, trigger) PROVE Inv'
  BY <1>10, StartCompactionInv, ReplaceInv DEF CompactionStarted, Inv
<1>11. ASSUME NEW r \in Runs, CompactionSucceeded(r) PROVE Inv'
  BY <1>11, SucceedCompactionInv, ReplaceInv DEF CompactionSucceeded, Inv
<1>12. ASSUME NEW r \in Runs, CompactionFailed(r) PROVE Inv'
  BY <1>12, FailCompactionInv, ReplaceInv DEF CompactionFailed, Inv
<1>13. ASSUME NEW r \in Runs, NEW t \in Calls, NEW gated \in BOOLEAN, NEW mode \in {"parallel", "exclusive"},
              ToolCallCreated(r, t, gated, mode)
       PROVE  Inv'
  BY <1>13, CreateCallInv, ReplaceInv DEF ToolCallCreated, Inv
<1>14. ASSUME NEW r \in Runs, NEW t \in Calls, ApprovalRequested(r, t) PROVE Inv'
  BY <1>14, RequestApprovalInv, ReplaceInv DEF ApprovalRequested, Inv
<1>15. ASSUME NEW r \in Runs, NEW t \in Calls, NEW d \in {"allowed", "denied", "expired", "cancelled"},
              NEW origin \in {"user", "system", "recovery"}, ApprovalResolved(r, t, d, origin)
       PROVE  Inv'
  BY <1>15, ResolveApprovalInv, ReplaceInv DEF ApprovalResolved, Inv
<1>16. ASSUME NEW r \in Runs, NEW t \in Calls, ToolStarted(r, t) PROVE Inv'
  BY <1>16, StartToolInv, ReplaceInv DEF ToolStarted, Inv
<1>17. ASSUME NEW r \in Runs, NEW t \in Calls, NEW o \in ToolOutcomes, ToolFinished(r, t, o) PROVE Inv'
  BY <1>17, FinishToolInv, OutcomesTyped, ReplaceInv DEF ToolFinished, Inv
<1>18. ASSUME NEW r \in Runs, NEW k \in Steps, NEW o \in StepOutcomes, StepFinished(r, k, o) PROVE Inv'
  BY <1>18, FinishStepInv, OutcomesTyped, ReplaceInv DEF StepFinished, Inv
<1>19. ASSUME NEW r \in Runs, NEW o \in StepOutcomes, RunFinished(r, o) PROVE Inv'
  BY <1>19, RunFinishedInv
<1>20. ASSUME NEW r \in Runs, NEW b \in Calls \cup {CleanupBlocker}, BlockerResolved(r, b) PROVE Inv'
  BY <1>20 DEF BlockerResolved, Inv, TypeOK
<1> QED
  BY <1>1, <1>2, <1>3, <1>4, <1>5, <1>6, <1>7, <1>8, <1>9, <1>10, <1>11, <1>12, <1>13, <1>14, <1>15, <1>16,
     <1>17, <1>18, <1>19, <1>20 DEF Next

\* The strengthened invariant holds of every reachable state.
THEOREM Invariant ==
  Spec => []Inv
BY InitInv, NextInv, PTL DEF Spec

\* Every event writes a record of the reducer's type: no status outside its enumeration, no identity out of range.
THEOREM TypeCorrect ==
  Spec => []TypeOK
<1>1. Inv => TypeOK
  BY DEF Inv
<1> QED BY <1>1, Invariant, PTL

\* The duplicated facts of a run (statuses, active sets, open step, approvals) never disagree.
THEOREM ActiveSetsCorrect ==
  Spec => []ActiveSets
<1>1. Inv => ActiveSets
  BY DEF Inv, RunInv, ActiveSets
<1> QED BY <1>1, Invariant, PTL

\* No run has a request, a compaction, a tool or a pending approval open beside one another.
THEOREM OneOperationCorrect ==
  Spec => []OneOperation
<1>1. Inv => OneOperation
  BY DEF Inv, RunInv, OneOperation
<1> QED BY <1>1, Invariant, PTL

\* No gated call is dispatched without its own allow decision, whatever the order of cancellation and expiry.
THEOREM GateCorrect ==
  Spec => []Gate
<1>1. Inv => Gate
  BY DEF Inv, RunInv, Gate
<1> QED BY <1>1, Invariant, PTL

\* A second request is always a context recovery, and a call always belongs to a successful response.
THEOREM RetryRecoversCorrect ==
  Spec => []RetryRecovers
<1>1. Inv => RetryRecovers
  BY DEF Inv, RunInv, RetryRecovers
<1> QED BY <1>1, Invariant, PTL

-----------------------------------------------------------------------------
(***************************************************************************)
(* The session.  OneLiveRun is what makes the guard `activeRunId is r'     *)
(* mean that r is live; an identity never used is still the empty record,  *)
(* which is why run.started can take nothing back.  NoCommand need not be  *)
(* kept out of Commands: the empty record itself refuses it.               *)
(***************************************************************************)
SessionInv ==
  /\ Inv
  /\ OneLiveRun
  /\ \A r \in Runs : runs[r].status = "absent" => runs[r] = AbsentRun
  /\ \A r \in Runs : runs[r].status # "absent" => runs[r].command # NoCommand
  /\ CommandStartsOneRun
  /\ TerminalClosed
  /\ ResolvedAreReal

\* The two action properties of Session, run by run.
Steady ==
  \A s \in Runs :
    /\ runs[s].status \in TerminalStatus => runs'[s] = runs[s]
    /\ Frozen(runs[s], runs'[s])
    /\ Halted(runs[s]) => ~Dispatches(runs[s], runs'[s])

LEMMA NothingChanges ==
  ASSUME NEW run
  PROVE  Frozen(run, run) /\ ~Dispatches(run, run)
BY DEF Frozen, Dispatches

LEMMA DisjointStatus ==
  /\ LiveStatus \cap TerminalStatus = {}
  /\ "absent" \notin LiveStatus \cup TerminalStatus
BY DEF LiveStatus, TerminalStatus

\* The active run's record is replaced by one that grew from it.
LEMMA ReplaceActive ==
  ASSUME SessionInv, NEW r \in Runs, Active(r), NEW next, RunInv(next) /\ next.status \in LiveStatus,
         Grows(runs[r], next), Replace(r, next)
  PROVE  SessionInv' /\ Steady
<1>1. Inv'
  BY ReplaceInv DEF SessionInv
<1>2. \A s \in Runs : runs'[s] = IF s = r THEN next ELSE runs[s]
  BY DEF SessionInv, Inv, TypeOK, Replace
<1>3. activeRunId = r /\ activeRunId' = r /\ activity' = next.status /\ resolved' = resolved /\ r # NoRun
  BY RunAssumption DEF Active, Replace
<1>4. runs[r].status \in LiveStatus /\ runs[r].status \notin {"absent"} \cup TerminalStatus
  BY <1>3, DisjointStatus DEF SessionInv, OneLiveRun
<1>5. next.status \notin {"absent"} \cup TerminalStatus /\ next.command = runs[r].command
  BY DisjointStatus DEF Grows
<1>6. OneLiveRun'
  BY <1>2, <1>3 DEF SessionInv, OneLiveRun
<1>7. \A s \in Runs : /\ runs'[s].status = "absent" => runs'[s] = AbsentRun
                      /\ runs'[s].status # "absent" => runs'[s].command # NoCommand
  BY <1>2, <1>4, <1>5 DEF SessionInv
<1>8. CommandStartsOneRun'
  BY <1>2, <1>4, <1>5 DEF SessionInv, CommandStartsOneRun
<1>9. TerminalClosed'
  BY <1>2, <1>5 DEF SessionInv, TerminalClosed, TerminalIsClosed
<1>10. ResolvedAreReal'
  <2>1. \A p \in resolved : p[1] \in Runs /\ p[1] # r
    BY <1>4 DEF SessionInv, ResolvedAreReal, Inv, TypeOK
  <2> QED BY <1>2, <1>3, <2>1 DEF SessionInv, ResolvedAreReal
<1>11. Steady
  BY <1>2, <1>4, NothingChanges DEF Steady, Grows
<1> QED BY <1>1, <1>6, <1>7, <1>8, <1>9, <1>10, <1>11 DEF SessionInv

LEMMA RunStartedKeeps ==
  ASSUME SessionInv, NEW r \in Runs, NEW c \in Commands, RunStarted(r, c)
  PROVE  SessionInv' /\ Steady
<1> DEFINE next == StartedRun(c)
<1>1. RunInv(next) /\ next.status \in LiveStatus /\ Inv'
  BY StartedRunInv, ReplaceInv DEF RunStarted, SessionInv
<1>2. next.command = c /\ runs[r] = AbsentRun /\ AbsentRun.command = NoCommand
  BY DEF StartedRun, AbsentRun, RunStarted, SessionInv
<1>3. next.status \notin {"absent"} \cup TerminalStatus
  BY <1>1, DisjointStatus
<1> HIDE DEF next
<1>4. \A s \in Runs : runs'[s] = IF s = r THEN next ELSE runs[s]
  BY DEF SessionInv, Inv, TypeOK, RunStarted, Replace, next
<1>5. activeRunId = NoRun /\ activeRunId' = r /\ activity' = next.status /\ resolved' = resolved /\ r # NoRun
  BY RunAssumption DEF RunStarted, Replace, next
<1>6. c # NoCommand /\ \A s \in Runs : runs[s].command # c
  BY <1>2 DEF RunStarted
<1>7. OneLiveRun'
  BY <1>1, <1>4, <1>5, RunAssumption DEF SessionInv, OneLiveRun
<1>8. \A s \in Runs : /\ runs'[s].status = "absent" => runs'[s] = AbsentRun
                      /\ runs'[s].status # "absent" => runs'[s].command # NoCommand
  BY <1>2, <1>3, <1>4, <1>6 DEF SessionInv
<1>9. CommandStartsOneRun'
  BY <1>2, <1>4, <1>6 DEF SessionInv, CommandStartsOneRun
<1>10. TerminalClosed'
  BY <1>3, <1>4 DEF SessionInv, TerminalClosed, TerminalIsClosed
<1>11. runs[r].status = "absent" /\ runs[r].status \notin TerminalStatus
  BY DisjointStatus DEF RunStarted
<1>12. ResolvedAreReal'
  <2>1. \A p \in resolved : p[1] \in Runs /\ p[1] # r
    BY <1>11 DEF SessionInv, ResolvedAreReal, Inv, TypeOK
  <2> QED BY <1>4, <1>5, <2>1 DEF SessionInv, ResolvedAreReal
<1>13. Steady
  <2>1. Frozen(AbsentRun, next) /\ ~Halted(AbsentRun)
    BY BoundsAssumption DEF Frozen, Halted, AbsentRun, TerminalStatus, TerminalCall, NoReason
  <2> QED BY <1>2, <1>4, <1>11, <2>1, NothingChanges DEF Steady
<1> QED BY <1>1, <1>7, <1>8, <1>9, <1>10, <1>12, <1>13 DEF SessionInv

LEMMA RunFinishedKeeps ==
  ASSUME SessionInv, NEW r \in Runs, NEW o \in StepOutcomes, RunFinished(r, o)
  PROVE  SessionInv' /\ Steady
<1> DEFINE next == FinishRun(runs[r], o)
<1>1. Inv' /\ RunInv(runs[r])
  BY RunFinishedInv DEF SessionInv, Inv
<1>2. Grows(runs[r], next) /\ Settled(next) /\ next.status \in TerminalStatus
  BY <1>1, FinishRunGrows, OutcomesTyped DEF RunFinished
<1> HIDE DEF next
<1>3. \A s \in Runs : runs'[s] = IF s = r THEN next ELSE runs[s]
  BY DEF SessionInv, Inv, TypeOK, RunFinished, next
<1>4. activeRunId = r /\ activeRunId' = NoRun /\ activity' = "idle" /\ resolved' = resolved /\ r # NoRun
  BY RunAssumption DEF RunFinished, Active
<1>5. runs[r].status \notin {"absent"} \cup TerminalStatus
  BY <1>4, DisjointStatus DEF SessionInv, OneLiveRun
<1>6. next.status \notin {"absent"} \cup LiveStatus /\ next.command = runs[r].command
  BY <1>2, DisjointStatus DEF Grows
<1>7. OneLiveRun'
  BY <1>3, <1>4, <1>6, RunAssumption DEF SessionInv, OneLiveRun
<1>8. \A s \in Runs : /\ runs'[s].status = "absent" => runs'[s] = AbsentRun
                      /\ runs'[s].status # "absent" => runs'[s].command # NoCommand
  BY <1>3, <1>5, <1>6 DEF SessionInv
<1>9. CommandStartsOneRun'
  BY <1>3, <1>5, <1>6 DEF SessionInv, CommandStartsOneRun
<1>10. TerminalClosed'
  BY <1>2, <1>3 DEF SessionInv, TerminalClosed, TerminalIsClosed
<1>11. ResolvedAreReal'
  <2>1. \A p \in resolved : p[1] \in Runs /\ p[1] # r
    BY <1>5 DEF SessionInv, ResolvedAreReal, Inv, TypeOK
  <2> QED BY <1>3, <1>4, <2>1 DEF SessionInv, ResolvedAreReal
<1>12. Steady
  BY <1>2, <1>3, <1>5, NothingChanges DEF Steady, Grows
<1> QED BY <1>1, <1>7, <1>8, <1>9, <1>10, <1>11, <1>12 DEF SessionInv

\* An attestation names a blocker of a closed run, and no run changes.
LEMMA RunsUnchanged ==
  ASSUME SessionInv, Inv', UNCHANGED <<activity, activeRunId, runs>>, ResolvedAreReal'
  PROVE  SessionInv' /\ Steady
<1>1. Steady
  BY NothingChanges DEF Steady
<1> QED BY <1>1 DEF SessionInv, OneLiveRun, CommandStartsOneRun, TerminalClosed

LEMMA BlockerResolvedKeeps ==
  ASSUME SessionInv, NEW r \in Runs, NEW b \in Calls \cup {CleanupBlocker}, BlockerResolved(r, b), Inv'
  PROVE  SessionInv' /\ Steady
<1>1. ResolvedAreReal'
  BY DEF BlockerResolved, SessionInv, ResolvedAreReal
<1> QED BY <1>1, RunsUnchanged DEF BlockerResolved

LEMMA InitSession ==
  Init => SessionInv
<1> SUFFICES ASSUME Init PROVE SessionInv
  OBVIOUS
<1>1. Inv
  BY InitInv
<1>2. \A r \in Runs : runs[r] = AbsentRun
  BY DEF Init
<1>3. AbsentRun.status = "absent"
  BY DEF AbsentRun
<1>4. OneLiveRun
  BY <1>2, <1>3, RunAssumption, DisjointStatus DEF Init, OneLiveRun
<1>5. TerminalClosed
  BY <1>2, <1>3, DisjointStatus DEF TerminalClosed, TerminalIsClosed
<1> QED BY <1>1, <1>2, <1>3, <1>4, <1>5 DEF Init, SessionInv, CommandStartsOneRun, ResolvedAreReal

LEMMA NextSession ==
  SessionInv /\ [Next]_vars => SessionInv' /\ Steady
<1> SUFFICES ASSUME SessionInv, [Next]_vars PROVE SessionInv' /\ Steady
  OBVIOUS
<1>1. Inv' /\ \A r \in Runs : RunInv(runs[r])
  BY NextInv DEF SessionInv, Inv
<1>2. CASE UNCHANGED vars
  <2>1. ResolvedAreReal'
    BY <1>2 DEF vars, SessionInv, ResolvedAreReal
  <2> QED BY <1>1, <1>2, <2>1, RunsUnchanged DEF vars
<1>3. CASE CreateSession
  <2>1. ResolvedAreReal'
    BY <1>3 DEF CreateSession, SessionInv, ResolvedAreReal
  <2> QED BY <1>1, <1>3, <2>1, RunsUnchanged DEF CreateSession
<1>4. ASSUME NEW r \in Runs, NEW c \in Commands, RunStarted(r, c) PROVE SessionInv' /\ Steady
  BY <1>4, RunStartedKeeps
<1>5. ASSUME NEW r \in Runs, NEW c \in Commands, UserMessage(r, c) PROVE SessionInv' /\ Steady
  BY <1>1, <1>5, AdmitMessageInv, AdmitMessageGrows, ReplaceActive DEF UserMessage
<1>6. ASSUME NEW r \in Runs, RunCancelRequested(r) PROVE SessionInv' /\ Steady
  BY <1>1, <1>6, RequestCancelInv, RequestCancelGrows, ReplaceActive DEF RunCancelRequested
<1>7. ASSUME NEW r \in Runs, NEW k \in Steps, StepStarted(r, k) PROVE SessionInv' /\ Steady
  BY <1>1, <1>7, StartStepInv, StartStepGrows, ReplaceActive DEF StepStarted
<1>8. ASSUME NEW r \in Runs, NEW k \in Steps, NEW a \in Attempts, ModelRequestStarted(r, k, a)
      PROVE  SessionInv' /\ Steady
  BY <1>1, <1>8, StartRequestInv, StartRequestGrows, ReplaceActive DEF ModelRequestStarted
<1>9. ASSUME NEW r \in Runs, NEW q \in Requests, ModelResponseDelta(r, q) PROVE SessionInv' /\ Steady
  BY <1>1, <1>9, RecordDeltaInv, RecordDeltaGrows, ReplaceActive DEF ModelResponseDelta
<1>10. ASSUME NEW r \in Runs, NEW q \in Requests, NEW o \in RequestOutcomes, NEW n \in 0..MaxCall,
              ModelRequestFinished(r, q, o, n)
       PROVE  SessionInv' /\ Steady
  BY <1>1, <1>10, OutcomesTyped, FinishRequestInv, FinishRequestGrows, ReplaceActive
  DEF ModelRequestFinished
<1>11. ASSUME NEW r \in Runs, NEW trigger \in Triggers, CompactionStarted(r, trigger) PROVE SessionInv' /\ Steady
  BY <1>1, <1>11, StartCompactionInv, StartCompactionGrows, ReplaceActive DEF CompactionStarted
<1>12. ASSUME NEW r \in Runs, CompactionSucceeded(r) PROVE SessionInv' /\ Steady
  BY <1>1, <1>12, SucceedCompactionInv, SucceedCompactionGrows, ReplaceActive DEF CompactionSucceeded
<1>13. ASSUME NEW r \in Runs, CompactionFailed(r) PROVE SessionInv' /\ Steady
  BY <1>1, <1>13, FailCompactionInv, FailCompactionGrows, ReplaceActive DEF CompactionFailed
<1>14. ASSUME NEW r \in Runs, NEW t \in Calls, NEW gated \in BOOLEAN, NEW mode \in {"parallel", "exclusive"},
              ToolCallCreated(r, t, gated, mode)
       PROVE  SessionInv' /\ Steady
  BY <1>1, <1>14, CreateCallInv, CreateCallGrows, ReplaceActive DEF ToolCallCreated
<1>15. ASSUME NEW r \in Runs, NEW t \in Calls, ApprovalRequested(r, t) PROVE SessionInv' /\ Steady
  BY <1>1, <1>15, RequestApprovalInv, RequestApprovalGrows, ReplaceActive DEF ApprovalRequested
<1>16. ASSUME NEW r \in Runs, NEW t \in Calls, NEW d \in {"allowed", "denied", "expired", "cancelled"},
              NEW origin \in {"user", "system", "recovery"}, ApprovalResolved(r, t, d, origin)
       PROVE  SessionInv' /\ Steady
  BY <1>1, <1>16, ResolveApprovalInv, ResolveApprovalGrows, ReplaceActive DEF ApprovalResolved
<1>17. ASSUME NEW r \in Runs, NEW t \in Calls, ToolStarted(r, t) PROVE SessionInv' /\ Steady
  BY <1>1, <1>17, StartToolInv, StartToolGrows, ReplaceActive DEF ToolStarted
<1>18. ASSUME NEW r \in Runs, NEW t \in Calls, NEW o \in ToolOutcomes, ToolFinished(r, t, o)
       PROVE  SessionInv' /\ Steady
  BY <1>1, <1>18, OutcomesTyped, FinishToolInv, FinishToolGrows, ReplaceActive
  DEF ToolFinished
<1>19. ASSUME NEW r \in Runs, NEW k \in Steps, NEW o \in StepOutcomes, StepFinished(r, k, o)
       PROVE  SessionInv' /\ Steady
  BY <1>1, <1>19, OutcomesTyped, FinishStepInv, FinishStepGrows, ReplaceActive
  DEF StepFinished
<1>20. ASSUME NEW r \in Runs, NEW o \in StepOutcomes, RunFinished(r, o) PROVE SessionInv' /\ Steady
  BY <1>20, RunFinishedKeeps
<1>21. ASSUME NEW r \in Runs, NEW b \in Calls \cup {CleanupBlocker}, BlockerResolved(r, b)
       PROVE  SessionInv' /\ Steady
  BY <1>1, <1>21, BlockerResolvedKeeps
<1> QED
  BY <1>2, <1>3, <1>4, <1>5, <1>6, <1>7, <1>8, <1>9, <1>10, <1>11, <1>12, <1>13, <1>14, <1>15, <1>16, <1>17,
     <1>18, <1>19, <1>20, <1>21 DEF Next

\* The session's strengthened invariant holds of every reachable state.
THEOREM SessionInvariant ==
  Spec => []SessionInv
BY InitSession, NextSession, PTL DEF Spec

\* activity and activeRunId project the one live run, so a late event of any other run meets a closed guard.
THEOREM OneLiveRunCorrect ==
  Spec => []OneLiveRun
<1>1. SessionInv => OneLiveRun
  BY DEF SessionInv
<1> QED BY <1>1, SessionInvariant, PTL

\* However often run.started is offered, one command names one run: the ledger-side half of idempotent retries.
THEOREM CommandStartsOneRunCorrect ==
  Spec => []CommandStartsOneRun
<1>1. SessionInv => CommandStartsOneRun
  BY DEF SessionInv
<1> QED BY <1>1, SessionInvariant, PTL

\* run.finished is refused while anything of the run is open, and nothing opens in a closed run.
THEOREM TerminalClosedCorrect ==
  Spec => []TerminalClosed
<1>1. SessionInv => TerminalClosed
  BY DEF SessionInv
<1> QED BY <1>1, SessionInvariant, PTL

\* An operator's attestation of a blocker is never voided by a later event.
THEOREM ResolvedAreRealCorrect ==
  Spec => []ResolvedAreReal
<1>1. SessionInv => ResolvedAreReal
  BY DEF SessionInv
<1> QED BY <1>1, SessionInvariant, PTL

\* No event rewrites a settled step, request, call or approval, takes a cancellation back, or reopens a closed run.
THEOREM HistoryFrozenCorrect ==
  Spec => HistoryFrozen
<1>1. SessionInv /\ [Next]_vars =>
        [\A r \in Runs :
           /\ runs[r].status \in TerminalStatus => runs'[r] = runs[r]
           /\ \A k \in Steps : runs[r].steps[k] \in TerminalStatus => runs'[r].steps[k] = runs[r].steps[k]
           /\ \A q \in Requests : runs[r].requests[q].status \notin {"absent", "running"} =>
                runs'[r].requests[q] = runs[r].requests[q]
           /\ \A t \in Calls :
                /\ runs[r].tools[t].status \in TerminalCall => runs'[r].tools[t] = runs[r].tools[t]
                /\ runs[r].approvals[t] \notin {"absent", "pending"} => runs'[r].approvals[t] = runs[r].approvals[t]
           /\ runs[r].cancelRequested => runs'[r].cancelRequested]_vars
  BY NextSession DEF Steady, Frozen
<1> QED BY <1>1, SessionInvariant, PTL DEF Spec, HistoryFrozen

\* Once cancellation or a blocking failure is on record, nothing new starts, whatever order late events come in.
THEOREM NoDispatchCorrect ==
  Spec => NoDispatchOnceStopped
<1>1. SessionInv /\ [Next]_vars =>
        [\A r \in Runs : runs[r].cancelRequested \/ runs[r].blockedReason # NoReason => ~NewlyDispatched(r)]_vars
  BY NextSession DEF Steady, Halted, Dispatches, NewlyDispatched
<1> QED BY <1>1, SessionInvariant, PTL DEF Spec, NoDispatchOnceStopped

-----------------------------------------------------------------------------
(***************************************************************************)
(* The session: an event replaces one record by one its lemma is about.    *)
(***************************************************************************)
OutcomesHold ==
  /\ SessionInv
  /\ \A r \in Runs : OutcomeInv(runs[r])

LEMMA RunReplaced ==
  ASSUME OutcomesHold, NEW r \in Runs, NEW next, OutcomeInv(next), runs' = [runs EXCEPT ![r] = next]
  PROVE  \A s \in Runs : OutcomeInv(runs'[s])
<1>1. \A s \in Runs : runs'[s] = IF s = r THEN next ELSE runs[s]
  BY DEF OutcomesHold, SessionInv, Inv, TypeOK
<1> QED BY <1>1 DEF OutcomesHold

LEMMA NextOutcomes ==
  OutcomesHold /\ [Next]_vars => OutcomesHold'
<1> SUFFICES ASSUME OutcomesHold, [Next]_vars PROVE \A s \in Runs : OutcomeInv(runs'[s])
  BY NextSession DEF OutcomesHold
<1>1. \A r \in Runs : RunInv(runs[r]) /\ OutcomeInv(runs[r])
  BY DEF OutcomesHold, SessionInv, Inv
<1> DEFINE Kept == \A s \in Runs : OutcomeInv(runs'[s])
<1>2. CASE UNCHANGED runs
  BY <1>1, <1>2
<1> HIDE DEF Kept
<1>4. ASSUME NEW r \in Runs, NEW c \in Commands, RunStarted(r, c) PROVE Kept
  BY <1>4, StartedRunOutcome, RunReplaced DEF RunStarted, Replace, Kept
<1>5. ASSUME NEW r \in Runs, NEW c \in Commands, UserMessage(r, c) PROVE Kept
  BY <1>1, <1>5, AdmitMessageOutcome, RunReplaced DEF UserMessage, Replace, Kept
<1>6. ASSUME NEW r \in Runs, RunCancelRequested(r) PROVE Kept
  BY <1>1, <1>6, RequestCancelOutcome, RunReplaced DEF RunCancelRequested, Replace, Kept
<1>7. ASSUME NEW r \in Runs, NEW k \in Steps, StepStarted(r, k) PROVE Kept
  BY <1>1, <1>7, StartStepOutcome, RunReplaced DEF StepStarted, Replace, Kept
<1>8. ASSUME NEW r \in Runs, NEW k \in Steps, NEW a \in Attempts, ModelRequestStarted(r, k, a) PROVE Kept
  BY <1>1, <1>8, StartRequestOutcome, RunReplaced DEF ModelRequestStarted, Replace, Kept
<1>9. ASSUME NEW r \in Runs, NEW q \in Requests, ModelResponseDelta(r, q) PROVE Kept
  BY <1>1, <1>9, RecordDeltaOutcome, RunReplaced DEF ModelResponseDelta, Replace, Kept
<1>10. ASSUME NEW r \in Runs, NEW q \in Requests, NEW o \in RequestOutcomes, NEW n \in 0..MaxCall,
              ModelRequestFinished(r, q, o, n)
       PROVE  Kept
  BY <1>1, <1>10, FinishRequestOutcome, OutcomesTyped, RunReplaced DEF ModelRequestFinished, Replace, Kept
<1>11. ASSUME NEW r \in Runs, NEW trigger \in Triggers, CompactionStarted(r, trigger) PROVE Kept
  BY <1>1, <1>11, StartCompactionOutcome, RunReplaced DEF CompactionStarted, Replace, Kept
<1>12. ASSUME NEW r \in Runs, CompactionSucceeded(r) PROVE Kept
  BY <1>1, <1>12, SucceedCompactionOutcome, RunReplaced DEF CompactionSucceeded, Replace, Kept
<1>13. ASSUME NEW r \in Runs, CompactionFailed(r) PROVE Kept
  BY <1>1, <1>13, FailCompactionOutcome, RunReplaced DEF CompactionFailed, Replace, Kept
<1>14. ASSUME NEW r \in Runs, NEW t \in Calls, NEW gated \in BOOLEAN, NEW mode \in {"parallel", "exclusive"},
              ToolCallCreated(r, t, gated, mode)
       PROVE  Kept
  BY <1>1, <1>14, CreateCallOutcome, RunReplaced DEF ToolCallCreated, Replace, Kept
<1>15. ASSUME NEW r \in Runs, NEW t \in Calls, ApprovalRequested(r, t) PROVE Kept
  BY <1>1, <1>15, RequestApprovalOutcome, RunReplaced DEF ApprovalRequested, Replace, Kept
<1>16. ASSUME NEW r \in Runs, NEW t \in Calls, NEW d \in {"allowed", "denied", "expired", "cancelled"},
              NEW origin \in {"user", "system", "recovery"}, ApprovalResolved(r, t, d, origin)
       PROVE  Kept
  BY <1>1, <1>16, ResolveApprovalOutcome, RunReplaced DEF ApprovalResolved, Replace, Kept
<1>17. ASSUME NEW r \in Runs, NEW t \in Calls, ToolStarted(r, t) PROVE Kept
  BY <1>1, <1>17, StartToolOutcome, RunReplaced DEF ToolStarted, Replace, Kept
<1>18. ASSUME NEW r \in Runs, NEW t \in Calls, NEW o \in ToolOutcomes, ToolFinished(r, t, o) PROVE Kept
  BY <1>1, <1>18, FinishToolOutcome, OutcomesTyped, RunReplaced DEF ToolFinished, Replace, Kept
<1>19. ASSUME NEW r \in Runs, NEW k \in Steps, NEW o \in StepOutcomes, StepFinished(r, k, o) PROVE Kept
  BY <1>1, <1>19, FinishStepOutcome, OutcomesTyped, RunReplaced DEF StepFinished, Replace, Kept
<1>20. ASSUME NEW r \in Runs, NEW o \in StepOutcomes, RunFinished(r, o) PROVE Kept
  BY <1>1, <1>20, FinishRunOutcome, OutcomesTyped, RunReplaced DEF RunFinished, Kept
<1>21. CreateSession \/ (\E r \in Runs, b \in Calls \cup {CleanupBlocker} : BlockerResolved(r, b)) \/ UNCHANGED vars
         => UNCHANGED runs
  BY DEF CreateSession, BlockerResolved, vars
<1>22. Kept
  BY <1>2, <1>4, <1>5, <1>6, <1>7, <1>8, <1>9, <1>10, <1>11, <1>12, <1>13, <1>14, <1>15, <1>16, <1>17, <1>18, <1>19,
     <1>20, <1>21 DEF Next, Kept
<1> QED BY <1>22 DEF Kept

LEMMA InitOutcomes ==
  Init => OutcomesHold
BY InitSession, AbsentOutcome DEF Init, OutcomesHold

\* What the records of every run claim, and the facts that keep it so.
THEOREM OutcomesInvariant ==
  Spec => []OutcomesHold
BY InitOutcomes, NextOutcomes, PTL DEF Spec

\* Whatever order tool bodies complete in, calls settle as declared, and an exclusive call has the workspace alone.
THEOREM ToolOrderCorrect ==
  Spec => []ToolOrder
<1>1. OutcomesHold => ToolOrder
  BY DEF OutcomesHold, OutcomeInv, ToolOrder
<1> QED BY <1>1, OutcomesInvariant, PTL

\* A call that could not clean up stays visible to its step, to its run and to the workspace gate that reads it.
THEOREM CleanupKeptCorrect ==
  Spec => []CleanupKept
<1>1. OutcomesHold => CleanupKept
  BY DEF OutcomesHold, OutcomeInv, CleanupKept
<1> QED BY <1>1, OutcomesInvariant, PTL

\* A run reported completed has every step completed, every declared call settled, and a last answer without calls.
THEOREM CompletedWholeCorrect ==
  Spec => []CompletedWhole
<1>1. OutcomesHold => CompletedWhole
  BY DEF OutcomesHold, OutcomeInv, CompletedWhole
<1> QED BY <1>1, OutcomesInvariant, PTL

-----------------------------------------------------------------------------
(***************************************************************************)
(* Restarts, and what the model is told.                                   *)
(***************************************************************************)
\* A bad number among the naturals has a smallest one: the induction the provers can follow.
LEMMA SmallestBad ==
  ASSUME NEW S \in SUBSET Nat, S # {}
  PROVE  \E n \in S : \A m \in S : ~(m < n)
<1>1. PICK n \in S : \A m \in S : <<m, n>> \notin OpToRel(<, Nat)
  BY WFMin, NatLessThanWellFounded, Zenon
<1>2. \A m \in S : ~(m < n)
  BY <1>1, Zenon DEF OpToRel
<1> QED BY <1>2

\* A loop's induction, over the set of rounds after which a fact holds.
LEMMA EveryRound ==
  ASSUME NEW N \in Nat, NEW G \in SUBSET (0..N), 0 \in G, \A n \in 1..N : n - 1 \in G => n \in G
  PROVE  \A n \in 0..N : n \in G
<1> DEFINE Bad == {n \in 0..N : n \notin G}
<1> SUFFICES ASSUME Bad # {} PROVE FALSE
  OBVIOUS
<1>1. Bad \in SUBSET Nat
  OBVIOUS
<1>2. PICK n \in Bad : \A m \in Bad : ~(m < n)
  BY <1>1, SmallestBad
<1>3. n \in 1..N /\ n - 1 \in 0..N
  BY <1>2
<1>4. n - 1 \in G
  BY <1>2, <1>3
<1> QED BY <1>2, <1>3, <1>4

-----------------------------------------------------------------------------
(***************************************************************************)
(* A loop of the code is a fold over an order.  The provers know FoldLeft  *)
(* by its definition only, a function on sets of positions, so it is first *)
(* brought into the form of a loop: f[n] is what n rounds lead to.  Round  *)
(* is one round of any loop of planRecovery or buildModelHistory; `of` is  *)
(* what an inner loop is about.                                            *)
(***************************************************************************)
Round(x, kind, of, id) ==
  CASE kind = "requests"  -> CloseRequest(x, id)
    [] kind = "approvals" -> CloseApproval(x, id)
    [] kind = "tools"     -> CloseTool(x, id)
    [] kind = "steps"     -> CloseStep(x, id)
    [] kind = "history"   -> SayRequest(of, x, id)
    [] kind = "results"   -> SayCall(of[1], x, <<of[2], id>>)

Iterates(g, n, start, kind, of, order) ==
  g = [s \in SUBSET (1..n) |->
         IF s = {} THEN start ELSE Round(g[s \ {Max(s)}], kind, of, order[Max(s)])]

LEMMA MaxIs ==
  ASSUME NEW n \in Nat, NEW s \in SUBSET (1..n), s # {}
  PROVE  /\ Max(s) \in s /\ (\A m \in s : m <= Max(s))
         /\ n \in s => Max(s) = n
         /\ n \notin s /\ n > 0 => s \in SUBSET (1..(n - 1))
<1>1. \E m \in s : \A k \in s : m >= k
  <2> DEFINE Above == {m \in 0..n : \A k \in s : m >= k}
  <2>1. n \in Above /\ Above \in SUBSET Nat
    OBVIOUS
  <2>2. PICK m \in Above : \A k \in Above : ~(k < m)
    BY <2>1, SmallestBad
  <2>3. m \in s
    <3> SUFFICES ASSUME m \notin s PROVE FALSE
      OBVIOUS
    <3>1. PICK k \in s : TRUE
      OBVIOUS
    <3>2. m - 1 \in 0..n /\ \A j \in s : m - 1 >= j
      OBVIOUS
    <3> QED BY <3>2, <2>2
  <2> QED BY <2>3
<1>2. Max(s) \in s /\ (\A m \in s : m <= Max(s))
  BY <1>1 DEF Max
<1>3. n \in s => Max(s) = n
  <2>1. Max(s) \in 1..n
    BY <1>2
  <2> QED BY <1>2, <2>1
<1>4. n \notin s /\ n > 0 => s \in SUBSET (1..(n - 1))
  OBVIOUS
<1> QED BY <1>2, <1>3, <1>4

LEMMA IteratesExist ==
  ASSUME NEW N \in Nat, NEW start, NEW kind, NEW of, NEW order
  PROVE  \E g : Iterates(g, N, start, kind, of, order)
<1> DEFINE Bad == {n \in Nat : ~\E g : Iterates(g, n, start, kind, of, order)}
<1> SUFFICES ASSUME Bad # {} PROVE FALSE
  OBVIOUS
<1>1. PICK n \in Bad : \A m \in Bad : ~(m < n)
  BY SmallestBad
<1>2. n # 0
  <2> SUFFICES ASSUME n = 0 PROVE FALSE
    OBVIOUS
  <2> DEFINE g == [s \in SUBSET (1..0) |-> start]
  <2>1. \A s \in SUBSET (1..0) : s = {}
    OBVIOUS
  <2>2. g = [s \in SUBSET (1..0) |-> IF s = {} THEN start ELSE Round(g[s \ {Max(s)}], kind, of, order[Max(s)])]
    BY <2>1
  <2>3. Iterates(g, 0, start, kind, of, order)
    BY <2>2 DEF Iterates
  <2> QED BY <2>3
<1>3. n - 1 \in Nat /\ n - 1 \notin Bad
  BY <1>1, <1>2
<1>4. PICK g : Iterates(g, n - 1, start, kind, of, order)
  BY <1>3
<1> DEFINE h == [s \in SUBSET (1..n) |-> IF n \in s THEN Round(g[s \ {n}], kind, of, order[n]) ELSE g[s]]
<1>5. ASSUME NEW s \in SUBSET (1..n)
      PROVE  h[s] = IF s = {} THEN start ELSE Round(h[s \ {Max(s)}], kind, of, order[Max(s)])
  <2>1. n \in Nat
    BY <1>1
  <2>2. CASE s = {}
    <3>1. h[s] = g[s] /\ s \in SUBSET (1..(n - 1))
      BY <2>2
    <3> QED BY <3>1, <2>2, <1>4 DEF Iterates
  <2>3. CASE s # {} /\ n \in s
    <3>1. Max(s) = n
      BY <2>1, <2>3, MaxIs
    <3>2. h[s] = Round(g[s \ {n}], kind, of, order[n])
      BY <2>3
    <3>3. s \ {n} \in SUBSET (1..n) /\ n \notin s \ {n}
      OBVIOUS
    <3>4. h[s \ {n}] = g[s \ {n}]
      BY <3>3
    <3> QED BY <2>3, <3>1, <3>2, <3>4
  <2>4. CASE s # {} /\ n \notin s
    <3>1. s \in SUBSET (1..(n - 1))
      BY <1>2, <2>1, <2>4
    <3>2. h[s] = g[s]
      BY <2>4
    <3>3. s \ {Max(s)} \in SUBSET (1..n) /\ n \notin s \ {Max(s)}
      BY <2>4
    <3>4. h[s \ {Max(s)}] = g[s \ {Max(s)}]
      BY <3>3
    <3>5. g[s] = Round(g[s \ {Max(s)}], kind, of, order[Max(s)])
      BY <3>1, <2>4, <1>4 DEF Iterates
    <3> QED BY <2>4, <3>2, <3>4, <3>5
  <2> QED BY <2>2, <2>3, <2>4
<1>6. h = [s \in SUBSET (1..n) |-> h[s]]
  OBVIOUS
<1>7. Iterates(h, n, start, kind, of, order)
  <2> HIDE DEF h
  <2>1. [s \in SUBSET (1..n) |-> h[s]] =
          [s \in SUBSET (1..n) |-> IF s = {} THEN start ELSE Round(h[s \ {Max(s)}], kind, of, order[Max(s)])]
    BY <1>5
  <2> QED BY <1>6, <2>1 DEF Iterates
<1> QED BY <1>1, <1>7

\* f[n] is the plan after the first n rounds of a loop.
Rounds(f, N, start, kind, of, order) ==
  /\ f[0] = start
  /\ \A n \in 1..N : f[n] = Round(f[n - 1], kind, of, order[n])

LEMMA IteratesAreRounds ==
  ASSUME NEW N \in Nat, NEW start, NEW kind, NEW of, NEW order, NEW g, Iterates(g, N, start, kind, of, order)
  PROVE  \E f : Rounds(f, N, start, kind, of, order) /\ f[N] = g[1..N]
<1> DEFINE f == [n \in 0..N |-> g[1..n]]
<1>1. f[0] = start
  <2>1. f[0] = g[1..0] /\ 1..0 = {} /\ 1..0 \in SUBSET (1..N)
    OBVIOUS
  <2> QED BY <2>1 DEF Iterates
<1>2. ASSUME NEW n \in 1..N PROVE f[n] = Round(f[n - 1], kind, of, order[n])
  <2>1. f[n] = g[1..n] /\ f[n - 1] = g[1..(n - 1)]
    OBVIOUS
  <2>2. 1..n \in SUBSET (1..N) /\ 1..n # {} /\ (1..n) \ {n} = 1..(n - 1)
    OBVIOUS
  <2>3. Max(1..n) = n
    <3>1. n \in Nat /\ n \in 1..n
      OBVIOUS
    <3> QED BY <2>2, <3>1, MaxIs
  <2>4. g[1..n] = Round(g[(1..n) \ {Max(1..n)}], kind, of, order[Max(1..n)])
    BY <2>2 DEF Iterates
  <2> QED BY <2>1, <2>2, <2>3, <2>4
<1>3. f[N] = g[1..N]
  OBVIOUS
<1> HIDE DEF f
<1> QED BY <1>1, <1>2, <1>3 DEF Rounds

LEMMA RequestRounds ==
  ASSUME NEW N \in Nat, NEW plan, NEW order, DOMAIN order = 1..N
  PROVE  \E f : Rounds(f, N, plan, "requests", 0, order) /\ FoldLeft(CloseRequest, plan, order) = f[N]
<1> DEFINE Loop(g) == g = [s \in SUBSET (1..N) |->
                             IF s = {} THEN plan ELSE CloseRequest(g[s \ {Max(s)}], order[Max(s)])]
           iter == CHOOSE g : Loop(g)
<1>1. FoldLeft(CloseRequest, plan, order) = iter[1..N]
  BY DEF FoldLeft, MapThenFoldSet
<1>2. \A p, id : Round(p, "requests", 0, id) = CloseRequest(p, id)
  BY DEF Round
<1>3. \A g : Loop(g) <=> Iterates(g, N, plan, "requests", 0, order)
  BY <1>2 DEF Iterates
<1>4. \E g : Loop(g)
  BY <1>3, IteratesExist
<1>5. Loop(iter)
  BY <1>4
<1> HIDE DEF iter, Loop
<1> QED BY <1>1, <1>3, <1>5, IteratesAreRounds

LEMMA ApprovalRounds ==
  ASSUME NEW N \in Nat, NEW plan, NEW order, DOMAIN order = 1..N
  PROVE  \E f : Rounds(f, N, plan, "approvals", 0, order) /\ FoldLeft(CloseApproval, plan, order) = f[N]
<1> DEFINE Loop(g) == g = [s \in SUBSET (1..N) |->
                             IF s = {} THEN plan ELSE CloseApproval(g[s \ {Max(s)}], order[Max(s)])]
           iter == CHOOSE g : Loop(g)
<1>1. FoldLeft(CloseApproval, plan, order) = iter[1..N]
  BY DEF FoldLeft, MapThenFoldSet
<1>2. \A p, id : Round(p, "approvals", 0, id) = CloseApproval(p, id)
  BY DEF Round
<1>3. \A g : Loop(g) <=> Iterates(g, N, plan, "approvals", 0, order)
  BY <1>2 DEF Iterates
<1>4. \E g : Loop(g)
  BY <1>3, IteratesExist
<1>5. Loop(iter)
  BY <1>4
<1> HIDE DEF iter, Loop
<1> QED BY <1>1, <1>3, <1>5, IteratesAreRounds

LEMMA ToolRounds ==
  ASSUME NEW N \in Nat, NEW plan, NEW order, DOMAIN order = 1..N
  PROVE  \E f : Rounds(f, N, plan, "tools", 0, order) /\ FoldLeft(CloseTool, plan, order) = f[N]
<1> DEFINE Loop(g) == g = [s \in SUBSET (1..N) |->
                             IF s = {} THEN plan ELSE CloseTool(g[s \ {Max(s)}], order[Max(s)])]
           iter == CHOOSE g : Loop(g)
<1>1. FoldLeft(CloseTool, plan, order) = iter[1..N]
  BY DEF FoldLeft, MapThenFoldSet
<1>2. \A p, id : Round(p, "tools", 0, id) = CloseTool(p, id)
  BY DEF Round
<1>3. \A g : Loop(g) <=> Iterates(g, N, plan, "tools", 0, order)
  BY <1>2 DEF Iterates
<1>4. \E g : Loop(g)
  BY <1>3, IteratesExist
<1>5. Loop(iter)
  BY <1>4
<1> HIDE DEF iter, Loop
<1> QED BY <1>1, <1>3, <1>5, IteratesAreRounds

LEMMA StepRounds ==
  ASSUME NEW N \in Nat, NEW plan, NEW order, DOMAIN order = 1..N
  PROVE  \E f : Rounds(f, N, plan, "steps", 0, order) /\ FoldLeft(CloseStep, plan, order) = f[N]
<1> DEFINE Loop(g) == g = [s \in SUBSET (1..N) |->
                             IF s = {} THEN plan ELSE CloseStep(g[s \ {Max(s)}], order[Max(s)])]
           iter == CHOOSE g : Loop(g)
<1>1. FoldLeft(CloseStep, plan, order) = iter[1..N]
  BY DEF FoldLeft, MapThenFoldSet
<1>2. \A p, id : Round(p, "steps", 0, id) = CloseStep(p, id)
  BY DEF Round
<1>3. \A g : Loop(g) <=> Iterates(g, N, plan, "steps", 0, order)
  BY <1>2 DEF Iterates
<1>4. \E g : Loop(g)
  BY <1>3, IteratesExist
<1>5. Loop(iter)
  BY <1>4
<1> HIDE DEF iter, Loop
<1> QED BY <1>1, <1>3, <1>5, IteratesAreRounds

-----------------------------------------------------------------------------
(***************************************************************************)
(* The orders are those of the maps: each identity once, and the calls of  *)
(* a step in the order of their slots.                                     *)
(***************************************************************************)
LEMMA RequestOrderIs ==
  /\ 2 * MaxStep \in Nat /\ DOMAIN RequestOrder = 1..(2 * MaxStep)
  /\ \A n \in 1..(2 * MaxStep) : RequestOrder[n] \in Requests
  /\ \A q \in Requests : \E n \in 1..(2 * MaxStep) : RequestOrder[n] = q
<1>1. 2 * MaxStep \in Nat /\ DOMAIN RequestOrder = 1..(2 * MaxStep)
  BY BoundsAssumption DEF RequestOrder
<1>2. ASSUME NEW n \in 1..(2 * MaxStep) PROVE RequestOrder[n] \in Requests
  <2>1. RequestOrder[n] = <<(n + 1) \div 2, 2 - (n % 2)>>
    BY DEF RequestOrder
  <2>2. (n + 1) \div 2 \in 1..MaxStep /\ 2 - (n % 2) \in 1..2
    BY BoundsAssumption
  <2> QED BY <2>1, <2>2 DEF Requests, Steps, Attempts
<1>3. ASSUME NEW q \in Requests PROVE \E n \in 1..(2 * MaxStep) : RequestOrder[n] = q
  <2>1. PICK k \in 1..MaxStep, a \in 1..2 : q = <<k, a>>
    BY DEF Requests, Steps, Attempts
  <2> DEFINE n == 2 * (k - 1) + a
  <2>2. n \in 1..(2 * MaxStep) /\ (n + 1) \div 2 = k /\ 2 - (n % 2) = a
    BY BoundsAssumption
  <2> QED BY <2>1, <2>2 DEF RequestOrder
<1> QED BY <1>1, <1>2, <1>3

LEMMA StepOrderIs ==
  /\ MaxStep \in Nat /\ DOMAIN StepOrder = 1..MaxStep
  /\ \A k \in 1..MaxStep : StepOrder[k] = k
BY BoundsAssumption DEF StepOrder, Steps

\* Where a call stands: its step's calls follow those of the steps before.
LEMMA Position ==
  ASSUME NEW k \in Steps, NEW i \in Slots
  PROVE  /\ (k - 1) * MaxCall + i \in 1..(MaxCall * MaxStep)
         /\ (((k - 1) * MaxCall + i) - 1) \div MaxCall = k - 1
         /\ (((k - 1) * MaxCall + i) - 1) % MaxCall = i - 1
<1>1. MaxCall \in Nat /\ MaxStep \in Nat /\ MaxCall > 0 /\ k \in 1..MaxStep /\ i \in 1..MaxCall
  BY BoundsAssumption DEF Steps, Slots
<1>2. (k - 1) * MaxCall + i \in 1..(MaxCall * MaxStep)
  <2>1. (k - 1) * MaxCall \in Nat
    BY <1>1
  <2>2. (MaxStep - k) * MaxCall >= 0
    BY <1>1
  <2>3. MaxCall * MaxStep = (k - 1) * MaxCall + MaxCall + (MaxStep - k) * MaxCall
    BY <1>1
  <2> QED BY <1>1, <2>1, <2>2, <2>3
<1>3. (((k - 1) * MaxCall + i) - 1) \div MaxCall = k - 1 /\ (((k - 1) * MaxCall + i) - 1) % MaxCall = i - 1
  BY <1>1
<1> QED BY <1>2, <1>3

LEMMA CallOrderIs ==
  /\ MaxCall * MaxStep \in Nat /\ DOMAIN CallOrder = 1..(MaxCall * MaxStep)
  /\ \A n \in 1..(MaxCall * MaxStep) : CallOrder[n] \in Calls
  /\ \A t \in Calls : \E n \in 1..(MaxCall * MaxStep) : CallOrder[n] = t
  /\ \A n \in 1..(MaxCall * MaxStep) : \A u \in EarlierSlots(CallOrder[n]) : \E m \in 1..(n - 1) : CallOrder[m] = u
<1>1. MaxCall * MaxStep \in Nat /\ DOMAIN CallOrder = 1..(MaxCall * MaxStep)
  BY BoundsAssumption DEF CallOrder
<1>2. ASSUME NEW k \in Steps, NEW i \in Slots
      PROVE  (k - 1) * MaxCall + i \in 1..(MaxCall * MaxStep) /\ CallOrder[(k - 1) * MaxCall + i] = <<k, i>>
  <2> DEFINE n == (k - 1) * MaxCall + i
  <2>1. n \in 1..(MaxCall * MaxStep) /\ (n - 1) \div MaxCall = k - 1 /\ (n - 1) % MaxCall = i - 1
    BY Position, Zenon
  <2>2. 1 + (k - 1) = k /\ 1 + (i - 1) = i
    BY BoundsAssumption DEF Steps, Slots
  <2> HIDE DEF n
  <2>3. CallOrder[n] = <<1 + (k - 1), 1 + (i - 1)>>
    BY <2>1 DEF CallOrder
  <2> QED BY <2>1, <2>2, <2>3 DEF n
<1>3. ASSUME NEW n \in 1..(MaxCall * MaxStep)
      PROVE  /\ MaxCall > 0
             /\ (n - 1) \div MaxCall \in Nat /\ (n - 1) % MaxCall \in Nat
             /\ 1 + ((n - 1) \div MaxCall) \in Steps /\ 1 + ((n - 1) % MaxCall) \in Slots
             /\ CallOrder[n] = <<1 + ((n - 1) \div MaxCall), 1 + ((n - 1) % MaxCall)>>
             /\ n = ((n - 1) \div MaxCall) * MaxCall + 1 + ((n - 1) % MaxCall)
  <2>1. MaxCall \in Nat /\ MaxStep \in Nat /\ MaxCall > 0
    BY BoundsAssumption
  <2> DEFINE a == (n - 1) \div MaxCall
             b == (n - 1) % MaxCall
  <2>2. a \in Int /\ b \in 0..(MaxCall - 1) /\ n - 1 = MaxCall * a + b
    BY <2>1
  <2>3. CallOrder[n] = <<1 + a, 1 + b>>
    BY DEF CallOrder
  <2> HIDE DEF a, b
  <2>4. a >= 0
    BY <2>1, <2>2
  <2>5. a < MaxStep
    <3> SUFFICES ASSUME a >= MaxStep PROVE FALSE
      BY <2>1, <2>2
    <3>1. MaxCall * a >= MaxCall * MaxStep
      BY <2>1, <2>2
    <3> QED BY <2>1, <2>2, <3>1
  <2>6. 1 + a \in Steps /\ 1 + b \in Slots
    BY <2>1, <2>2, <2>4, <2>5 DEF Steps, Slots
  <2> QED BY <2>1, <2>2, <2>3, <2>4, <2>6 DEF a, b
<1>4. ASSUME NEW n \in 1..(MaxCall * MaxStep) PROVE CallOrder[n] \in Calls
  <2>1. PICK k \in Steps, i \in Slots : CallOrder[n] = <<k, i>>
    BY <1>3
  <2> QED BY <2>1 DEF Calls
<1>5. \A t \in Calls : \E n \in 1..(MaxCall * MaxStep) : CallOrder[n] = t
  BY <1>2 DEF Calls
<1>6. ASSUME NEW n \in 1..(MaxCall * MaxStep), NEW u \in EarlierSlots(CallOrder[n])
      PROVE  \E m \in 1..(n - 1) : CallOrder[m] = u
  <2> DEFINE a == (n - 1) \div MaxCall
             b == (n - 1) % MaxCall
             t == CallOrder[n]
  <2>1. /\ 1 + a \in Steps /\ 1 + b \in Slots /\ t = <<1 + a, 1 + b>> /\ n = a * MaxCall + 1 + b
        /\ a \in Nat /\ b \in Nat
    BY <1>3
  <2> HIDE DEF a, b, t
  <2>2. PICK i \in 1..(1 + b - 1) : u = <<1 + a, i>>
    <3>1. t[1] = 1 + a /\ t[2] = 1 + b /\ u \in EarlierSlots(t)
      BY <2>1 DEF t
    <3>2. PICK i \in 1..(t[2] - 1) : u = <<t[1], i>>
      BY <3>1 DEF EarlierSlots
    <3>3. i \in 1..(1 + b - 1) /\ u = <<1 + a, i>>
      BY <2>1, <3>1, <3>2
    <3> QED BY <3>3
  <2>3. MaxCall \in Nat /\ i \in Slots /\ i \in 1..b
    BY <2>1, <2>2, BoundsAssumption DEF Slots
  <2>4. CallOrder[(1 + a - 1) * MaxCall + i] = <<1 + a, i>> /\ (1 + a - 1) * MaxCall + i \in 1..(MaxCall * MaxStep)
    BY <1>2, <2>1, <2>3
  <2>5. 1 + a - 1 = a /\ a * MaxCall \in Nat
    BY <2>1, <2>3
  <2>6. a * MaxCall + i \in 1..(n - 1)
    <3> DEFINE before == a * MaxCall
    <3>1. n - 1 = before + b /\ before \in Nat
      BY <2>1, <2>5
    <3> HIDE DEF before
    <3>2. before + i \in 1..(n - 1)
      BY <2>1, <2>3, <3>1
    <3> QED BY <3>2 DEF before
  <2> QED BY <2>2, <2>4, <2>5, <2>6
<1> QED BY <1>1, <1>4, <1>5, <1>6

-----------------------------------------------------------------------------
(***************************************************************************)
(* What the conversation is read off: only a successful response declares  *)
(* calls, an open one has no context_limit reason, a step that did not     *)
(* complete blocks the run, and the user's message comes first.  Fresh     *)
(* relates a record to the next: a request that is new comes after every   *)
(* request there was.                                                      *)
(***************************************************************************)
Told(run) ==
  /\ \A q \in Requests : /\ run.requests[q].status # "succeeded" => run.requests[q].calls = 0
                         /\ run.requests[q].status = "running" => run.requests[q].reason # "context_limit"
  /\ \A k \in Steps : run.steps[k] \in TerminalStatus \ {"completed"} => run.blockedReason # NoReason
  /\ ~run.userMessage => \A k \in Steps : run.steps[k] = "absent"

Later(p, q) == p[1] > q[1] \/ (p[1] = q[1] /\ p[2] > q[2])

Fresh(run, next) ==
  /\ run.userMessage => next.userMessage
  /\ \A q \in Requests : run.requests[q].status = "absent" /\ next.requests[q].status # "absent" =>
       \A p \in Requests : Later(p, q) => run.requests[p].status = "absent"

\* An event that closes no step and neither opens nor closes a request.
LEMMA SameTold ==
  ASSUME NEW run, Told(run), NEW next, next.steps = run.steps, run.userMessage => next.userMessage,
         \A q \in Requests : /\ next.requests[q].status = run.requests[q].status
                             /\ next.requests[q].reason = run.requests[q].reason
                             /\ next.requests[q].calls = run.requests[q].calls,
         run.blockedReason # NoReason => next.blockedReason # NoReason
  PROVE  Told(next) /\ Fresh(run, next)
BY DEF Told, Fresh

LEMMA ReasonsAreReal ==
  NoReason \notin Reasons
BY ReasonsAssumption DEF NoReason, Reasons

LEMMA AdmitMessageTold ==
  ASSUME NEW run, RunInv(run), Told(run)
  PROVE  Told(AdmitMessage(run)) /\ Fresh(run, AdmitMessage(run))
<1> DEFINE next == AdmitMessage(run)
<1>1. next.steps = run.steps /\ next.userMessage /\ next.requests = run.requests
      /\ next.blockedReason = run.blockedReason
  BY DEF AdmitMessage, Refresh, RunInv, RunType
<1> HIDE DEF next
<1>2. Told(next) /\ Fresh(run, next)
  BY <1>1, SameTold
<1> QED BY <1>2 DEF next

LEMMA RequestCancelTold ==
  ASSUME NEW run, RunInv(run), Told(run)
  PROVE  Told(RequestCancel(run)) /\ Fresh(run, RequestCancel(run))
<1> DEFINE next == RequestCancel(run)
<1>1. next.steps = run.steps /\ next.userMessage = run.userMessage /\ next.requests = run.requests
      /\ next.blockedReason = run.blockedReason
  BY DEF RequestCancel, Refresh, RunInv, RunType
<1> HIDE DEF next
<1>2. Told(next) /\ Fresh(run, next)
  BY <1>1, SameTold
<1> QED BY <1>2 DEF next

LEMMA StartStepTold ==
  ASSUME NEW run, RunInv(run), Told(run), NEW k \in Steps, CanStartStep(run, k)
  PROVE  Told(StartStep(run, k)) /\ Fresh(run, StartStep(run, k))
<1> DEFINE next == StartStep(run, k)
<1>1. /\ next.userMessage = run.userMessage /\ next.requests = run.requests
      /\ next.blockedReason = run.blockedReason
      /\ next.steps[k] = "running" /\ \A j \in Steps : j # k => next.steps[j] = run.steps[j]
  BY DEF StartStep, Refresh, RunInv, RunType
<1>2. run.userMessage
  BY DEF CanStartStep
<1> HIDE DEF next
<1>3. Told(next) /\ Fresh(run, next)
  BY <1>1, <1>2 DEF Told, Fresh, TerminalStatus
<1> QED BY <1>3 DEF next

LEMMA StartRequestTold ==
  ASSUME NEW run, RunInv(run), OutcomeInv(run), Told(run), NEW k \in Steps, NEW a \in Attempts,
         CanStartRequest(run, k, a)
  PROVE  Told(StartRequest(run, k, a)) /\ Fresh(run, StartRequest(run, k, a))
<1> DEFINE next == StartRequest(run, k, a)
           q == <<k, a>>
<1>1. /\ next.steps = run.steps /\ next.userMessage = run.userMessage /\ next.blockedReason = run.blockedReason
      /\ \A p \in Requests : p # q => next.requests[p] = run.requests[p]
      /\ next.requests[q] = [status |-> "running", reason |-> NoReason, calls |-> 0, deltas |-> 0]
  BY DEF StartRequest, Refresh, RunInv, RunType, Requests
<1>2. run.steps[k] = "running" /\ run.requests[<<k, 2>>].status = "absent"
  BY DEF CanStartRequest
<1> HIDE DEF next
<1>3. ASSUME NEW p \in Requests, Later(p, q) PROVE run.requests[p].status = "absent"
  <2>1. p[1] \in Steps /\ p[2] \in Attempts /\ p = <<p[1], p[2]>> /\ q[1] = k /\ q[2] = a
    BY DEF Requests
  <2>2. CASE p[1] = k
    <3>1. p[2] > a
      BY <1>3, <2>1, <2>2 DEF Later, Steps
    <3>2. p[2] = 2
      BY <2>1, <3>1 DEF Attempts
    <3>3. p = <<k, 2>>
      BY <2>1, <2>2, <3>2
    <3> QED BY <1>2, <3>3
  <2>3. CASE p[1] > k
    <3>1. run.steps[p[1]] = "absent"
      BY <1>2, <2>1, <2>3, BoundsAssumption DEF OutcomeInv, StepsWhole, Steps
    <3> QED BY <3>1 DEF RunInv, RequestHasStep
  <2> QED BY <1>3, <2>1, <2>2, <2>3 DEF Later
<1>4. Fresh(run, next)
  BY <1>1, <1>3 DEF Fresh
<1>5. Told(next)
  BY <1>1 DEF Told, NoReason
<1> QED BY <1>4, <1>5 DEF next

LEMMA RecordDeltaTold ==
  ASSUME NEW run, RunInv(run), Told(run), NEW q \in Requests
  PROVE  Told(RecordDelta(run, q)) /\ Fresh(run, RecordDelta(run, q))
<1> DEFINE next == RecordDelta(run, q)
<1>1. /\ next.steps = run.steps /\ next.userMessage = run.userMessage /\ next.blockedReason = run.blockedReason
      /\ \A p \in Requests : p # q => next.requests[p] = run.requests[p]
      /\ next.requests[q] = [run.requests[q] EXCEPT !.deltas = run.requests[q].deltas + 1]
      /\ run.requests[q] \in RequestType
  BY DEF RecordDelta, Refresh, RunInv, RunType
<1> HIDE DEF next
<1>2. /\ next.requests[q].status = run.requests[q].status /\ next.requests[q].calls = run.requests[q].calls
      /\ next.requests[q].reason = run.requests[q].reason
  BY <1>1 DEF RequestType
<1>3. Told(next) /\ Fresh(run, next)
  BY <1>1, <1>2, SameTold
<1> QED BY <1>3 DEF next

LEMMA FinishRequestTold ==
  ASSUME NEW run, RunInv(run), Told(run), NEW q \in Requests, NEW o, IsOutcome(o, TerminalRequest),
         NEW calls \in 0..MaxCall, CanFinishRequest(run, q, o, calls)
  PROVE  Told(FinishRequest(run, q, o, calls)) /\ Fresh(run, FinishRequest(run, q, o, calls))
<1> DEFINE next == FinishRequest(run, q, o, calls)
<1>1. /\ next.steps = run.steps /\ next.userMessage = run.userMessage
      /\ \A p \in Requests : p # q => next.requests[p] = run.requests[p]
      /\ next.requests[q] = [run.requests[q] EXCEPT !.status = o.status, !.reason = o.reason, !.calls = calls]
      /\ run.requests[q] \in RequestType
  BY DEF FinishRequest, Refresh, RunInv, RunType
<1>2. run.blockedReason # NoReason => next.blockedReason # NoReason
  BY DEF FinishRequest, Refresh, RunInv, RunType, BlockedOr
<1> HIDE DEF next
<1>3. next.requests[q].status = o.status /\ next.requests[q].calls = calls
  BY <1>1 DEF RequestType
<1>4. run.requests[q].status = "running" /\ (o.status # "succeeded" => calls = 0) /\ o.status # "running"
  BY DEF CanFinishRequest, IsOutcome, TerminalRequest
<1>5. Fresh(run, next)
  BY <1>1, <1>4 DEF Fresh
<1>6. Told(next)
  BY <1>1, <1>2, <1>3, <1>4 DEF Told
<1> QED BY <1>5, <1>6 DEF next

LEMMA StartCompactionTold ==
  ASSUME NEW run, RunInv(run), Told(run), NEW trigger
  PROVE  Told(StartCompaction(run, trigger)) /\ Fresh(run, StartCompaction(run, trigger))
<1> DEFINE next == StartCompaction(run, trigger)
<1>1. next.steps = run.steps /\ next.userMessage = run.userMessage /\ next.requests = run.requests
      /\ next.blockedReason = run.blockedReason
  BY DEF StartCompaction, Refresh, RunInv, RunType
<1> HIDE DEF next
<1>2. Told(next) /\ Fresh(run, next)
  BY <1>1, SameTold
<1> QED BY <1>2 DEF next

LEMMA SettleCompactionTold ==
  ASSUME NEW run, RunInv(run), Told(run)
  PROVE  /\ Told(SucceedCompaction(run)) /\ Fresh(run, SucceedCompaction(run))
         /\ Told(FailCompaction(run)) /\ Fresh(run, FailCompaction(run))
<1> DEFINE done   == SucceedCompaction(run)
           failed == FailCompaction(run)
<1>1. done.steps = run.steps /\ done.userMessage = run.userMessage /\ done.requests = run.requests
      /\ done.blockedReason = run.blockedReason
  BY DEF SucceedCompaction, Refresh, RunInv, RunType
<1>2. /\ failed.steps = run.steps /\ failed.userMessage = run.userMessage /\ failed.requests = run.requests
      /\ failed.blockedReason \in {run.blockedReason, "context_limit"}
  BY DEF FailCompaction, Refresh, RunInv, RunType
<1> HIDE DEF done, failed
<1>3. Told(done) /\ Fresh(run, done)
  BY <1>1, SameTold
<1>4. Told(failed) /\ Fresh(run, failed)
  BY <1>2, SameTold DEF NoReason
<1> QED BY <1>3, <1>4 DEF done, failed

\* Calls and approvals are not looked at.
LEMMA CallsTold ==
  ASSUME NEW run, RunInv(run), Told(run), NEW t \in Calls
  PROVE  /\ \A gated, mode : Told(CreateCall(run, t, gated, mode)) /\ Fresh(run, CreateCall(run, t, gated, mode))
         /\ Told(RequestApproval(run, t)) /\ Fresh(run, RequestApproval(run, t))
         /\ \A d : Told(ResolveApproval(run, t, d)) /\ Fresh(run, ResolveApproval(run, t, d))
         /\ Told(StartTool(run, t)) /\ Fresh(run, StartTool(run, t))
         /\ \A o : Told(FinishTool(run, t, o)) /\ Fresh(run, FinishTool(run, t, o))
<1> DEFINE Quiet(next) == /\ next.steps = run.steps /\ next.userMessage = run.userMessage
                          /\ next.requests = run.requests
                          /\ next.blockedReason \in {run.blockedReason, "cleanup_failed"}
<1>1. ASSUME NEW next, Quiet(next) PROVE Told(next) /\ Fresh(run, next)
  BY <1>1, SameTold DEF NoReason
<1>2. \A gated, mode : Quiet(CreateCall(run, t, gated, mode))
  BY DEF CreateCall, Refresh, RunInv, RunType
<1>3. Quiet(RequestApproval(run, t))
  BY DEF RequestApproval, Refresh, RunInv, RunType
<1>4. \A d : Quiet(ResolveApproval(run, t, d))
  BY DEF ResolveApproval, Refresh, RunInv, RunType
<1>5. Quiet(StartTool(run, t))
  BY DEF StartTool, Refresh, RunInv, RunType
<1>6. \A o : Quiet(FinishTool(run, t, o))
  BY DEF FinishTool, Refresh, RunInv, RunType
<1> HIDE DEF Quiet
<1> QED BY <1>1, <1>2, <1>3, <1>4, <1>5, <1>6

LEMMA FinishStepTold ==
  ASSUME NEW run, RunInv(run), Told(run), NEW k \in Steps, NEW o, IsOutcome(o, TerminalStatus),
         CanFinishStep(run, k, o)
  PROVE  Told(FinishStep(run, k, o)) /\ Fresh(run, FinishStep(run, k, o))
<1> DEFINE next == FinishStep(run, k, o)
<1>1. /\ next.userMessage = run.userMessage /\ next.requests = run.requests
      /\ next.blockedReason = IF o.status = "completed" THEN run.blockedReason ELSE BlockedOr(run, o.reason)
      /\ next.steps[k] = o.status /\ \A j \in Steps : j # k => next.steps[j] = run.steps[j]
  BY DEF FinishStep, Refresh, RunInv, RunType
<1> HIDE DEF next
<1>2. o.reason # NoReason /\ run.steps[k] = "running"
  BY ReasonsAreReal DEF IsOutcome, CanFinishStep
<1>3. /\ run.blockedReason # NoReason => next.blockedReason # NoReason
      /\ o.status # "completed" => next.blockedReason # NoReason
  BY <1>1, <1>2 DEF BlockedOr
<1>4. Told(next) /\ Fresh(run, next)
  BY <1>1, <1>2, <1>3 DEF Told, Fresh
<1> QED BY <1>4 DEF next

LEMMA FinishRunTold ==
  ASSUME NEW run, RunInv(run), Told(run), NEW o
  PROVE  Told(FinishRun(run, o)) /\ Fresh(run, FinishRun(run, o))
<1> DEFINE next == FinishRun(run, o)
<1>1. next.steps = run.steps /\ next.userMessage = run.userMessage /\ next.requests = run.requests
      /\ next.blockedReason = run.blockedReason
  BY DEF FinishRun, RunInv, RunType
<1> HIDE DEF next
<1>2. Told(next) /\ Fresh(run, next)
  BY <1>1, SameTold
<1> QED BY <1>2 DEF next

-----------------------------------------------------------------------------
(***************************************************************************)
(* What a plan does to a run: it settles what is open, and nothing else.   *)
(***************************************************************************)
Closes(run, next) ==
  /\ next.command = run.command /\ next.cancelRequested = run.cancelRequested
  /\ next.userMessage = run.userMessage
  /\ next.activeCompaction => run.activeCompaction
  /\ \A k \in Steps : run.steps[k] # "running" => next.steps[k] = run.steps[k]
  /\ \A q \in Requests : run.requests[q].status # "running" => next.requests[q] = run.requests[q]
  /\ \A t \in Calls :
       /\ ~IsOpen(run.tools[t]) => next.tools[t] = run.tools[t]
       /\ IsOpen(run.tools[t]) => next.tools[t].status \in {run.tools[t].status, "interrupted"}
       /\ next.tools[t].started = run.tools[t].started
       /\ run.approvals[t] # "pending" => next.approvals[t] = run.approvals[t]

\* Every fact so far was accepted, and the run is one a legal history leads to.
Accepted(plan) == plan.ok = TRUE /\ RunInv(plan.run) /\ OutcomeInv(plan.run) /\ Told(plan.run)

Advances(plan, next) == Accepted(next) /\ Closes(plan.run, next.run)

LEMMA ClosesNothing ==
  ASSUME NEW run
  PROVE  Closes(run, run)
BY DEF Closes

LEMMA ClosesMore ==
  ASSUME NEW run, NEW next, NEW last, Closes(run, next), Closes(next, last)
  PROVE  Closes(run, last)
<1>1. \A t \in Calls : /\ ~IsOpen(run.tools[t]) => ~IsOpen(next.tools[t]) /\ last.tools[t] = run.tools[t]
                       /\ last.tools[t].started = run.tools[t].started
                       /\ run.approvals[t] # "pending" => last.approvals[t] = run.approvals[t]
  BY DEF Closes
<1>2. \A t \in Calls : IsOpen(run.tools[t]) => last.tools[t].status \in {run.tools[t].status, "interrupted"}
  BY DEF Closes
<1>3. /\ \A k \in Steps : run.steps[k] # "running" => last.steps[k] = run.steps[k]
      /\ \A q \in Requests : run.requests[q].status # "running" => last.requests[q] = run.requests[q]
  BY DEF Closes
<1> QED BY <1>1, <1>2, <1>3 DEF Closes

LEMMA InterruptedIs ==
  /\ IsOutcome(Interrupted, TerminalRequest) /\ IsOutcome(Interrupted, TerminalCall)
  /\ IsOutcome(Interrupted, TerminalStatus)
  /\ Interrupted.status = "interrupted" /\ Interrupted.reason = "interrupted" /\ Interrupted.origin = "recovery"
  /\ \A run : TerminalSemantics(run, Interrupted)
BY DEF Interrupted, IsOutcome, TerminalRequest, TerminalCall, TerminalStatus, Reasons, TerminalSemantics

LEMMA AddIs ==
  ASSUME NEW plan, plan.ok = TRUE, NEW run
  PROVE  Add(plan, TRUE, run).ok = TRUE /\ Add(plan, TRUE, run).run = run
BY DEF Add

LEMMA CloseCompactionAdvances ==
  ASSUME NEW plan, Accepted(plan)
  PROVE  Advances(plan, CloseCompaction(plan)) /\ ~CloseCompaction(plan).run.activeCompaction
<1>1. CASE ~plan.run.activeCompaction
  BY <1>1, ClosesNothing DEF CloseCompaction, Advances
<1>2. CASE plan.run.activeCompaction
  <2> DEFINE run == plan.run
             next == FailCompaction(run)
  <2>1. CanSettleCompaction(run)
    BY <1>2 DEF Accepted, RunInv, ActiveSetsAgree, CanSettleCompaction
  <2>2. RunInv(next) /\ OutcomeInv(next) /\ Told(next)
    BY <2>1, FailCompactionInv, FailCompactionOutcome, SettleCompactionTold DEF Accepted
  <2>3. /\ next.command = run.command /\ next.cancelRequested = run.cancelRequested /\ ~next.activeCompaction
        /\ next.userMessage = run.userMessage
        /\ next.steps = run.steps /\ next.requests = run.requests /\ next.tools = run.tools
        /\ next.approvals = run.approvals
    BY DEF FailCompaction, Refresh, Accepted, RunInv, RunType
  <2>4. CloseCompaction(plan) = Add(plan, CanSettleCompaction(run), next)
    BY <1>2 DEF CloseCompaction
  <2> HIDE DEF next
  <2>5. Closes(run, next)
    BY <2>3 DEF Closes
  <2>6. CloseCompaction(plan).ok = TRUE /\ CloseCompaction(plan).run = next
    <3>1. plan.ok = TRUE
      BY DEF Accepted
    <3>2. CanSettleCompaction(run) = TRUE
      BY <2>1 DEF CanSettleCompaction
    <3>3. CloseCompaction(plan) = Add(plan, TRUE, next)
      BY <3>2, <2>4
    <3> QED BY <3>1, <3>3, AddIs
  <2> QED BY <2>2, <2>3, <2>5, <2>6 DEF Advances, Accepted
<1> QED BY <1>1, <1>2

LEMMA CloseRequestAdvances ==
  ASSUME NEW plan, Accepted(plan), NEW q \in Requests
  PROVE  Advances(plan, CloseRequest(plan, q)) /\ CloseRequest(plan, q).run.requests[q].status # "running"
<1>1. CASE plan.run.requests[q].status # "running"
  BY <1>1, ClosesNothing DEF CloseRequest, Advances
<1>2. CASE plan.run.requests[q].status = "running"
  <2> DEFINE run == plan.run
             next == FinishRequest(run, q, Interrupted, 0)
  <2>1. CanFinishRequest(run, q, Interrupted, 0) /\ 0 \in 0..MaxCall
    BY <1>2, InterruptedIs, BoundsAssumption DEF Accepted, RunInv, ActiveSetsAgree, CanFinishRequest
  <2>2. RunInv(next) /\ OutcomeInv(next) /\ Told(next)
    BY <2>1, InterruptedIs, FinishRequestInv, FinishRequestOutcome, FinishRequestTold DEF Accepted
  <2>3. /\ next.command = run.command /\ next.cancelRequested = run.cancelRequested /\ next.userMessage = run.userMessage
        /\ next.activeCompaction = run.activeCompaction
        /\ next.steps = run.steps /\ next.tools = run.tools /\ next.approvals = run.approvals
        /\ \A p \in Requests : p # q => next.requests[p] = run.requests[p]
        /\ next.requests[q] = [run.requests[q] EXCEPT !.status = Interrupted.status, !.reason = Interrupted.reason,
                                                      !.calls = 0]
    BY DEF FinishRequest, Refresh, Accepted, RunInv, RunType
  <2>4. next.requests[q].status = "interrupted"
    <3>1. run.requests[q] \in RequestType
      BY DEF Accepted, RunInv, RunType
    <3> QED BY <2>3, <3>1, InterruptedIs DEF RequestType
  <2>5. CloseRequest(plan, q) = Add(plan, CanFinishRequest(run, q, Interrupted, 0), next)
    BY <1>2 DEF CloseRequest
  <2> HIDE DEF next
  <2>6. Closes(run, next)
    BY <1>2, <2>3 DEF Closes
  <2>7. CloseRequest(plan, q).ok = TRUE /\ CloseRequest(plan, q).run = next
    <3>1. plan.ok = TRUE
      BY DEF Accepted
    <3>2. CanFinishRequest(run, q, Interrupted, 0) = TRUE
      BY <2>1 DEF CanFinishRequest
    <3>3. CloseRequest(plan, q) = Add(plan, TRUE, next)
      BY <3>2, <2>5
    <3> QED BY <3>1, <3>3, AddIs
  <2> QED BY <2>2, <2>4, <2>6, <2>7 DEF Advances, Accepted
<1> QED BY <1>1, <1>2

LEMMA CloseApprovalAdvances ==
  ASSUME NEW plan, Accepted(plan), NEW t \in Calls
  PROVE  Advances(plan, CloseApproval(plan, t)) /\ CloseApproval(plan, t).run.approvals[t] # "pending"
<1>1. CASE plan.run.approvals[t] # "pending"
  BY <1>1, ClosesNothing DEF CloseApproval, Advances
<1>2. CASE plan.run.approvals[t] = "pending"
  <2> DEFINE run == plan.run
             next == ResolveApproval(run, t, "cancelled")
  <2>1. IsOpen(run.tools[t])
    BY <1>2 DEF Accepted, RunInv, ActiveSetsAgree, IsOpen, OpenCall
  <2>2. CanResolveApproval(run, t, "cancelled", "recovery")
    BY <1>2, <2>1 DEF CanResolveApproval
  <2>3. RunInv(next) /\ OutcomeInv(next) /\ Told(next)
    BY <2>2, ResolveApprovalInv, ResolveApprovalOutcome, CallsTold DEF Accepted
  <2>4. /\ next.command = run.command /\ next.cancelRequested = run.cancelRequested /\ next.userMessage = run.userMessage
        /\ next.activeCompaction = run.activeCompaction
        /\ next.steps = run.steps /\ next.requests = run.requests /\ next.approvals[t] = "cancelled"
        /\ \A u \in Calls : u # t => next.approvals[u] = run.approvals[u]
        /\ \A u \in Calls : next.tools[u] = run.tools[u]
    BY DEF ResolveApproval, Refresh, Accepted, RunInv, RunType
  <2>5. CloseApproval(plan, t) = Add(plan, CanResolveApproval(run, t, "cancelled", "recovery"), next)
    BY <1>2 DEF CloseApproval
  <2> HIDE DEF next
  <2>6. Closes(run, next)
    BY <1>2, <2>4 DEF Closes
  <2>7. CloseApproval(plan, t).ok = TRUE /\ CloseApproval(plan, t).run = next
    <3>1. plan.ok = TRUE
      BY DEF Accepted
    <3>2. CanResolveApproval(run, t, "cancelled", "recovery") = TRUE
      BY <2>2 DEF CanResolveApproval
    <3>3. CloseApproval(plan, t) = Add(plan, TRUE, next)
      BY <3>2, <2>5
    <3> QED BY <3>1, <3>3, AddIs
  <2> QED BY <2>3, <2>4, <2>6, <2>7 DEF Advances, Accepted
<1> QED BY <1>1, <1>2

LEMMA CloseToolAdvances ==
  ASSUME NEW plan, Accepted(plan), NEW t \in Calls,
         \A u \in EarlierSlots(t) : ~IsOpen(plan.run.tools[u]), ~PendingApproval(plan.run)
  PROVE  Advances(plan, CloseTool(plan, t)) /\ ~IsOpen(CloseTool(plan, t).run.tools[t])
<1>1. CASE ~IsOpen(plan.run.tools[t])
  BY <1>1, ClosesNothing DEF CloseTool, Advances
<1>2. CASE IsOpen(plan.run.tools[t])
  <2> DEFINE run == plan.run
             next == FinishTool(run, t, Interrupted)
  <2>1. run.activeStep = t[1] /\ t[1] \in Steps
    BY <1>2, OpenCallAlone DEF Accepted, Calls
  <2>2. NextTool(run, t)
    BY <1>2, <2>1 DEF NextTool, Accepted, RunInv, ActiveSetsAgree, EarlierOpen
  <2>3. run.tools[t].status = "running" => t \in run.activeTools
    BY DEF Accepted, RunInv, ActiveSetsAgree
  <2>4. CanFinishTool(run, t, Interrupted)
    BY <2>2, <2>3, InterruptedIs DEF CanFinishTool, PendingApproval
  <2>5. RunInv(next) /\ OutcomeInv(next) /\ Told(next)
    BY <2>4, InterruptedIs, FinishToolInv, FinishToolOutcome, CallsTold DEF Accepted
  <2>6. /\ next.command = run.command /\ next.cancelRequested = run.cancelRequested /\ next.userMessage = run.userMessage
        /\ next.activeCompaction = run.activeCompaction
        /\ next.steps = run.steps /\ next.requests = run.requests /\ next.approvals = run.approvals
        /\ \A u \in Calls : u # t => next.tools[u] = run.tools[u]
        /\ next.tools[t] = [run.tools[t] EXCEPT !.status = Interrupted.status, !.reason = Interrupted.reason]
    BY DEF FinishTool, Refresh, Accepted, RunInv, RunType
  <2>7. next.tools[t].status = "interrupted" /\ next.tools[t].started = run.tools[t].started
    BY <2>6, InterruptedIs DEF Accepted, RunInv, RunType, CallType
  <2>8. CloseTool(plan, t) = Add(plan, CanFinishTool(run, t, Interrupted), next)
    BY <1>2 DEF CloseTool
  <2> HIDE DEF next
  <2>9. Closes(run, next)
    <3>1. \A u \in Calls : u # t =>
            /\ next.tools[u] = run.tools[u]
            /\ next.tools[u].status \in {run.tools[u].status, "interrupted"}
            /\ next.tools[u].started = run.tools[u].started
      BY <2>6
    <3> QED BY <1>2, <2>6, <2>7, <3>1 DEF Closes
  <2>10. CloseTool(plan, t).ok = TRUE /\ CloseTool(plan, t).run = next
    <3>1. plan.ok = TRUE
      BY DEF Accepted
    <3>2. CanFinishTool(run, t, Interrupted) = TRUE
      BY <2>4 DEF CanFinishTool
    <3>3. CloseTool(plan, t) = Add(plan, TRUE, next)
      BY <3>2, <2>8
    <3> QED BY <3>1, <3>3, AddIs
  <2> QED BY <2>5, <2>7, <2>9, <2>10 DEF Advances, Accepted, IsOpen, OpenCall
<1> QED BY <1>1, <1>2

LEMMA CloseStepAdvances ==
  ASSUME NEW plan, Accepted(plan), NEW k \in Steps,
         \A q \in Requests : plan.run.requests[q].status # "running",
         \A t \in Calls : ~IsOpen(plan.run.tools[t]), ~PendingApproval(plan.run)
  PROVE  Advances(plan, CloseStep(plan, k)) /\ CloseStep(plan, k).run.steps[k] # "running"
<1>1. CASE plan.run.steps[k] # "running"
  BY <1>1, ClosesNothing DEF CloseStep, Advances
<1>2. CASE plan.run.steps[k] = "running"
  <2> DEFINE run == plan.run
             next == FinishStep(run, k, Interrupted)
  <2>1. run.activeRequest = NoRequest /\ run.activeTools = {}
    BY DEF Accepted, RunInv, RunType, ActiveSetsAgree, IsOpen, OpenCall
  <2>2. \A i \in Slots : ~IsOpen(run.tools[<<k, i>>])
    BY DEF Calls
  <2>3. CanFinishStep(run, k, Interrupted)
    BY <1>2, <2>1, <2>2, InterruptedIs DEF CanFinishStep, Accepted, RunInv, ActiveSetsAgree
  <2>4. RunInv(next) /\ OutcomeInv(next) /\ Told(next)
    BY <2>3, InterruptedIs, FinishStepInv, FinishStepOutcome, FinishStepTold DEF Accepted
  <2>5. /\ next.command = run.command /\ next.cancelRequested = run.cancelRequested /\ next.userMessage = run.userMessage
        /\ next.activeCompaction = run.activeCompaction
        /\ next.requests = run.requests /\ next.approvals = run.approvals /\ next.tools = run.tools
        /\ \A j \in Steps : j # k => next.steps[j] = run.steps[j]
        /\ next.steps[k] = Interrupted.status
    BY DEF FinishStep, Refresh, Accepted, RunInv, RunType
  <2>6. CloseStep(plan, k) = Add(plan, CanFinishStep(run, k, Interrupted), next)
    BY <1>2 DEF CloseStep
  <2> HIDE DEF next
  <2>7. Closes(run, next)
    BY <1>2, <2>5 DEF Closes
  <2>8. CloseStep(plan, k).ok = TRUE /\ CloseStep(plan, k).run = next
    <3>1. plan.ok = TRUE
      BY DEF Accepted
    <3>2. CanFinishStep(run, k, Interrupted) = TRUE
      BY <2>3 DEF CanFinishStep
    <3>3. CloseStep(plan, k) = Add(plan, TRUE, next)
      BY <3>2, <2>6
    <3> QED BY <3>1, <3>3, AddIs
  <2> QED BY <2>4, <2>5, <2>7, <2>8, InterruptedIs DEF Advances, Accepted
<1> QED BY <1>1, <1>2

-----------------------------------------------------------------------------
(***************************************************************************)
(* A loop settles every identity of its order, and no later one opens it   *)
(* again.                                                                  *)
(***************************************************************************)
Kinds == {"requests", "approvals", "tools", "steps"}

Ids(kind) ==
  CASE kind = "requests"  -> Requests
    [] kind = "approvals" -> Calls
    [] kind = "tools"     -> Calls
    [] kind = "steps"     -> Steps

Unsettled(run, kind, id) ==
  \/ kind = "requests" /\ run.requests[id].status = "running"
  \/ kind = "approvals" /\ run.approvals[id] = "pending"
  \/ kind = "tools" /\ IsOpen(run.tools[id])
  \/ kind = "steps" /\ run.steps[id] = "running"

\* What the loops before this one have settled, as far as it matters here.
Ready(run, kind) ==
  /\ kind \in {"tools", "steps"} => ~PendingApproval(run)
  /\ kind = "steps" => /\ \A q \in Requests : run.requests[q].status # "running"
                       /\ \A t \in Calls : ~IsOpen(run.tools[t])

InOrder(kind, N, order) ==
  /\ \A n \in 1..N : order[n] \in Ids(kind)
  /\ kind = "tools" => \A n \in 1..N : \A u \in EarlierSlots(order[n]) : \E m \in 1..(n - 1) : order[m] = u

LEMMA StaysSettled ==
  ASSUME NEW run, NEW next, Closes(run, next), NEW kind \in Kinds
  PROVE  /\ \A id \in Ids(kind) : Unsettled(next, kind, id) => Unsettled(run, kind, id)
         /\ Ready(run, kind) => Ready(next, kind)
<1>1. /\ \A q \in Requests : next.requests[q].status = "running" => run.requests[q].status = "running"
      /\ \A t \in Calls : next.approvals[t] = "pending" => run.approvals[t] = "pending"
      /\ \A t \in Calls : IsOpen(next.tools[t]) => IsOpen(run.tools[t])
      /\ \A k \in Steps : next.steps[k] = "running" => run.steps[k] = "running"
  BY DEF Closes
<1>2. \A id \in Ids(kind) : Unsettled(next, kind, id) => Unsettled(run, kind, id)
  BY <1>1 DEF Kinds, Ids, Unsettled
<1>3. Ready(run, kind) => Ready(next, kind)
  BY <1>1 DEF Ready, PendingApproval
<1> QED BY <1>2, <1>3

LEMMA RoundAdvances ==
  ASSUME NEW kind \in Kinds, NEW plan, Accepted(plan), Ready(plan.run, kind), NEW id \in Ids(kind),
         kind = "tools" => \A u \in EarlierSlots(id) : ~IsOpen(plan.run.tools[u])
  PROVE  Advances(plan, Round(plan, kind, 0, id)) /\ ~Unsettled(Round(plan, kind, 0, id).run, kind, id)
<1>1. CASE kind = "requests"
  BY <1>1, CloseRequestAdvances DEF Ids, Round, Unsettled
<1>2. CASE kind = "approvals"
  BY <1>2, CloseApprovalAdvances DEF Ids, Round, Unsettled
<1>3. CASE kind = "tools"
  BY <1>3, CloseToolAdvances DEF Ids, Round, Unsettled, Ready
<1>4. CASE kind = "steps"
  BY <1>4, CloseStepAdvances DEF Ids, Round, Unsettled, Ready
<1> QED BY <1>1, <1>2, <1>3, <1>4 DEF Kinds

LEMMA LoopAdvances ==
  ASSUME NEW kind \in Kinds, NEW N \in Nat, NEW plan, NEW order, InOrder(kind, N, order),
         Accepted(plan), Ready(plan.run, kind), NEW f, Rounds(f, N, plan, kind, 0, order)
  PROVE  Advances(plan, f[N]) /\ \A n \in 1..N : ~Unsettled(f[N].run, kind, order[n])
<1> DEFINE Good(n) == Advances(plan, f[n]) /\ \A m \in 1..n : ~Unsettled(f[n].run, kind, order[m])
           G == {n \in 0..N : Good(n)}
<1>0. N \in Nat
  OBVIOUS
<1>1. Good(0)
  BY ClosesNothing DEF Rounds, Advances
<1>2. ASSUME NEW n \in 1..N, Good(n - 1) PROVE Good(n)
  <2> DEFINE last == f[n - 1]
             next == f[n]
  <2>1. next = Round(last, kind, 0, order[n]) /\ order[n] \in Ids(kind)
    BY DEF Rounds, InOrder
  <2>2. Accepted(last) /\ Closes(plan.run, last.run)
    BY <1>2 DEF Advances
  <2>3. \A m \in 1..(n - 1) : ~Unsettled(last.run, kind, order[m]) /\ order[m] \in Ids(kind)
    BY <1>2 DEF InOrder
  <2> HIDE DEF last, next
  <2>4. Ready(last.run, kind)
    BY <2>2, StaysSettled
  <2>5. kind = "tools" => \A u \in EarlierSlots(order[n]) : ~IsOpen(last.run.tools[u])
    BY <2>3 DEF InOrder, Unsettled
  <2>6. Advances(last, next) /\ ~Unsettled(next.run, kind, order[n])
    BY <2>1, <2>2, <2>4, <2>5, RoundAdvances
  <2>7. Advances(plan, next)
    BY <2>2, <2>6, ClosesMore DEF Advances
  <2>8. \A m \in 1..(n - 1) : ~Unsettled(next.run, kind, order[m])
    BY <2>3, <2>6, StaysSettled DEF Advances
  <2>9. \A m \in 1..n : m = n \/ m \in 1..(n - 1)
    OBVIOUS
  <2> QED BY <2>6, <2>7, <2>8, <2>9 DEF next
<1> HIDE DEF Good
<1>3. G \in SUBSET (0..N) /\ 0 \in G /\ \A n \in 1..N : n - 1 \in G => n \in G
  BY <1>0, <1>1, <1>2
<1>4. Good(N)
  <2> HIDE DEF G
  <2>1. N \in G
    BY <1>0, <1>3, EveryRound
  <2> QED BY <2>1 DEF G
<1> QED BY <1>4 DEF Good

LEMMA RequestsSettle ==
  ASSUME NEW plan, Accepted(plan)
  PROVE  LET next == FoldLeft(CloseRequest, plan, RequestOrder)
         IN  Advances(plan, next) /\ \A q \in Requests : next.run.requests[q].status # "running"
<1> DEFINE next == FoldLeft(CloseRequest, plan, RequestOrder)
           N == 2 * MaxStep
<1>1. PICK f : Rounds(f, N, plan, "requests", 0, RequestOrder) /\ next = f[N]
  BY RequestOrderIs, RequestRounds
<1>2. InOrder("requests", N, RequestOrder) /\ "requests" \in Kinds /\ Ready(plan.run, "requests")
  BY RequestOrderIs DEF InOrder, Ids, Kinds, Ready
<1> HIDE DEF next
<1>3. Advances(plan, next) /\ \A n \in 1..N : ~Unsettled(next.run, "requests", RequestOrder[n])
  BY <1>1, <1>2, RequestOrderIs, LoopAdvances
<1>4. \A q \in Requests : next.run.requests[q].status # "running"
  BY <1>3, RequestOrderIs DEF Unsettled
<1> QED BY <1>3, <1>4 DEF next

LEMMA ApprovalsSettle ==
  ASSUME NEW plan, Accepted(plan)
  PROVE  LET next == FoldLeft(CloseApproval, plan, CallOrder)
         IN  Advances(plan, next) /\ ~PendingApproval(next.run)
<1> DEFINE next == FoldLeft(CloseApproval, plan, CallOrder)
           N == MaxCall * MaxStep
<1>1. PICK f : Rounds(f, N, plan, "approvals", 0, CallOrder) /\ next = f[N]
  BY CallOrderIs, ApprovalRounds
<1>2. InOrder("approvals", N, CallOrder) /\ "approvals" \in Kinds /\ Ready(plan.run, "approvals")
  BY CallOrderIs DEF InOrder, Ids, Kinds, Ready
<1> HIDE DEF next
<1>3. Advances(plan, next) /\ \A n \in 1..N : ~Unsettled(next.run, "approvals", CallOrder[n])
  BY <1>1, <1>2, CallOrderIs, LoopAdvances
<1>4. ~PendingApproval(next.run)
  BY <1>3, CallOrderIs DEF Unsettled, PendingApproval
<1> QED BY <1>3, <1>4 DEF next

\* After the approvals: no call is left waiting, so each can be settled in its turn.
LEMMA ToolsSettle ==
  ASSUME NEW plan, Accepted(plan), ~PendingApproval(plan.run)
  PROVE  LET next == FoldLeft(CloseTool, plan, CallOrder)
         IN  Advances(plan, next) /\ \A t \in Calls : ~IsOpen(next.run.tools[t])
<1> DEFINE next == FoldLeft(CloseTool, plan, CallOrder)
           N == MaxCall * MaxStep
<1>1. PICK f : Rounds(f, N, plan, "tools", 0, CallOrder) /\ next = f[N]
  BY CallOrderIs, ToolRounds
<1>2. InOrder("tools", N, CallOrder) /\ "tools" \in Kinds /\ Ready(plan.run, "tools")
  BY CallOrderIs DEF InOrder, Ids, Kinds, Ready
<1> HIDE DEF next
<1>3. Advances(plan, next) /\ \A n \in 1..N : ~Unsettled(next.run, "tools", CallOrder[n])
  BY <1>1, <1>2, CallOrderIs, LoopAdvances
<1>4. \A t \in Calls : ~IsOpen(next.run.tools[t])
  BY <1>3, CallOrderIs DEF Unsettled
<1> QED BY <1>3, <1>4 DEF next

LEMMA StepsSettle ==
  ASSUME NEW plan, Accepted(plan), Ready(plan.run, "steps")
  PROVE  LET next == FoldLeft(CloseStep, plan, StepOrder)
         IN  Advances(plan, next) /\ \A k \in Steps : next.run.steps[k] # "running"
<1> DEFINE next == FoldLeft(CloseStep, plan, StepOrder)
<1>1. PICK f : Rounds(f, MaxStep, plan, "steps", 0, StepOrder) /\ next = f[MaxStep]
  BY StepOrderIs, StepRounds
<1>2. InOrder("steps", MaxStep, StepOrder) /\ "steps" \in Kinds
  BY StepOrderIs DEF InOrder, Ids, Kinds, Steps
<1> HIDE DEF next
<1>3. Advances(plan, next) /\ \A n \in 1..MaxStep : ~Unsettled(next.run, "steps", StepOrder[n])
  BY <1>1, <1>2, StepOrderIs, LoopAdvances
<1>4. \A k \in Steps : next.run.steps[k] # "running"
  BY <1>3, StepOrderIs DEF Unsettled, Steps
<1> QED BY <1>3, <1>4 DEF next

\* Nothing open is left, whatever was open: the whole plan is accepted and closes the run.
LEMMA PlanCloses ==
  ASSUME NEW run, RunInv(run), OutcomeInv(run), Told(run)
  PROVE  LET plan == PlanRecovery(run)
         IN  Accepted(plan) /\ Closes(run, plan.run) /\ Settled(plan.run) /\ plan.run.status = "interrupted"
<1> DEFINE start      == [ok |-> TRUE, run |-> run]
           compaction == CloseCompaction(start)
           requests   == FoldLeft(CloseRequest, compaction, RequestOrder)
           approvals  == FoldLeft(CloseApproval, requests, CallOrder)
           tools      == FoldLeft(CloseTool, approvals, CallOrder)
           steps      == FoldLeft(CloseStep, tools, StepOrder)
<1>0. PlanRecovery(run) = CloseRun(steps)
  BY DEF PlanRecovery
<1>1. Accepted(start) /\ start.run = run
  BY DEF Accepted
<1> HIDE DEF start
<1>2. Advances(start, compaction) /\ ~compaction.run.activeCompaction
  BY <1>1, CloseCompactionAdvances
<1> HIDE DEF compaction
<1>3. Advances(compaction, requests) /\ \A q \in Requests : requests.run.requests[q].status # "running"
  BY <1>2, RequestsSettle DEF Advances
<1> HIDE DEF requests
<1>4. Advances(requests, approvals) /\ ~PendingApproval(approvals.run)
  BY <1>3, ApprovalsSettle DEF Advances
<1> HIDE DEF approvals
<1>5. Advances(approvals, tools) /\ \A t \in Calls : ~IsOpen(tools.run.tools[t])
  BY <1>4, ToolsSettle DEF Advances
<1> HIDE DEF tools
<1>6. Ready(tools.run, "steps")
  <2>1. Closes(requests.run, approvals.run) /\ Closes(approvals.run, tools.run)
    BY <1>4, <1>5 DEF Advances
  <2>2. \A q \in Requests : tools.run.requests[q].status # "running"
    BY <1>3, <2>1 DEF Closes
  <2>3. ~PendingApproval(tools.run)
    BY <1>4, <2>1 DEF Closes, PendingApproval
  <2> QED BY <1>5, <2>2, <2>3 DEF Ready
<1>7. Advances(tools, steps) /\ \A k \in Steps : steps.run.steps[k] # "running"
  BY <1>5, <1>6, StepsSettle DEF Advances
<1> HIDE DEF steps
<1> DEFINE before == steps.run
           next == FinishRun(before, Interrupted)
<1>8. Closes(run, before) /\ Accepted(steps)
  <2>1. Closes(run, requests.run)
    BY <1>1, <1>2, <1>3, ClosesMore DEF Advances
  <2>2. Closes(run, tools.run)
    BY <2>1, <1>4, <1>5, ClosesMore DEF Advances
  <2> QED BY <2>2, <1>7, ClosesMore DEF Advances
<1>9. Settled(before)
  <2>1. Closes(tools.run, before) /\ RunInv(before)
    BY <1>7 DEF Advances, Accepted
  <2>2. /\ \A q \in Requests : before.requests[q].status # "running"
        /\ \A t \in Calls : ~IsOpen(before.tools[t])
        /\ ~PendingApproval(before)
    BY <1>6, <2>1, StaysSettled DEF Ready, Kinds
  <2>3. ~before.activeCompaction
    <3>1. Closes(compaction.run, requests.run) /\ Closes(requests.run, approvals.run)
          /\ Closes(approvals.run, tools.run)
      BY <1>3, <1>4, <1>5 DEF Advances
    <3> QED BY <1>2, <2>1, <3>1 DEF Closes
  <2>4. before.activeStep = 0 /\ before.activeRequest = NoRequest /\ before.activeTools = {}
    <3>1. /\ before.activeStep \in 0..MaxStep /\ before.activeTools \subseteq Calls
          /\ before.activeRequest \in Requests \cup {NoRequest}
      BY <2>1 DEF RunInv, RunType
    <3>2. before.activeStep = 0
      BY <1>7, <2>1, <3>1, BoundsAssumption DEF RunInv, ActiveSetsAgree, Steps
    <3>3. before.activeRequest = NoRequest
      BY <2>1, <2>2, <3>1 DEF RunInv, ActiveSetsAgree
    <3>4. before.activeTools = {}
      BY <2>1, <2>2, <3>1 DEF RunInv, ActiveSetsAgree, IsOpen, OpenCall
    <3> QED BY <3>2, <3>3, <3>4
  <2> QED BY <1>7, <2>2, <2>3, <2>4 DEF Settled
<1>10. CanFinishRun(before, Interrupted)
  BY <1>9, InterruptedIs DEF CanFinishRun
<1>11. RunInv(next) /\ OutcomeInv(next) /\ Told(next)
  BY <1>8, <1>10, InterruptedIs, FinishRunInv, FinishRunOutcome, FinishRunTold DEF Accepted
<1>12. /\ next.command = before.command /\ next.cancelRequested = before.cancelRequested
       /\ next.userMessage = before.userMessage
       /\ next.activeCompaction = before.activeCompaction
       /\ next.steps = before.steps /\ next.requests = before.requests /\ next.tools = before.tools
       /\ next.approvals = before.approvals
       /\ next.status = "interrupted"
  BY <1>8, InterruptedIs DEF FinishRun, Accepted, RunInv, RunType
<1>13. Settled(next)
  BY <1>8, <1>10, InterruptedIs, FinishRunGrows DEF Accepted
<1>14. CloseRun(steps).ok = TRUE /\ CloseRun(steps).run = next
  <2>1. steps.ok = TRUE
    BY <1>8 DEF Accepted
  <2>2. CanFinishRun(before, Interrupted) = TRUE
    BY <1>10 DEF CanFinishRun
  <2> HIDE DEF next
  <2>3. CloseRun(steps) = Add(steps, TRUE, next)
    BY <2>2 DEF CloseRun, next
  <2> QED BY <2>1, <2>3, AddIs
<1> HIDE DEF next
<1>15. Closes(before, next)
  BY <1>12 DEF Closes
<1>16. Closes(run, next)
  BY <1>8, <1>15, ClosesMore
<1> QED BY <1>0, <1>11, <1>12, <1>13, <1>14, <1>16 DEF Accepted

-----------------------------------------------------------------------------
(***************************************************************************)
(* What the record says of a call's dispatch.  RunInv and OutcomeInv are   *)
(* silent about it, because no guard reads `started`; the workspace's      *)
(* blockers are read off it.                                               *)
(***************************************************************************)
DispatchKnown(run) ==
  \A t \in Calls :
    /\ run.tools[t].status \in {"absent", "created", "waiting_for_approval"} => ~run.tools[t].started
    /\ run.tools[t].status = "running" => run.tools[t].started
    /\ IsOpen(run.tools[t]) => run.tools[t].reason # "cleanup_failed"

\* Every event either leaves the calls alone or writes one.
LEMMA SameDispatch ==
  ASSUME NEW run, DispatchKnown(run), NEW next, \A t \in Calls : next.tools[t] = run.tools[t]
  PROVE  DispatchKnown(next)
BY DEF DispatchKnown

LEMMA OneDispatch ==
  ASSUME NEW run, DispatchKnown(run), NEW next, NEW t \in Calls,
         \A u \in Calls : u # t => next.tools[u] = run.tools[u],
         next.tools[t].status \in {"absent", "created", "waiting_for_approval"} => ~next.tools[t].started,
         next.tools[t].status = "running" => next.tools[t].started,
         IsOpen(next.tools[t]) => next.tools[t].reason # "cleanup_failed"
  PROVE  DispatchKnown(next)
BY DEF DispatchKnown

\* Recovery closes every call and leaves `started` alone.
LEMMA ClosedDispatch ==
  ASSUME NEW run, DispatchKnown(run), NEW next, Closes(run, next), Settled(next)
  PROVE  DispatchKnown(next)
<1> SUFFICES ASSUME NEW t \in Calls
             PROVE  /\ next.tools[t].status \in {"absent", "created", "waiting_for_approval"} => ~next.tools[t].started
                    /\ next.tools[t].status = "running" => next.tools[t].started
                    /\ IsOpen(next.tools[t]) => next.tools[t].reason # "cleanup_failed"
  BY DEF DispatchKnown
<1>1. ~IsOpen(next.tools[t])
  BY DEF Settled
<1>2. CASE ~IsOpen(run.tools[t])
  BY <1>2 DEF Closes, DispatchKnown
<1>3. CASE IsOpen(run.tools[t])
  <2>1. next.tools[t].status = "interrupted"
    BY <1>1, <1>3 DEF Closes, IsOpen
  <2> QED BY <1>1, <2>1
<1> QED BY <1>2, <1>3

(***************************************************************************)
(* The session, with restarts.                                             *)
(***************************************************************************)
RecoveryInv ==
  /\ OutcomesHold
  /\ \A r \in Runs : DispatchKnown(runs[r]) /\ Told(runs[r])

LEMMA NextDispatch ==
  ASSUME RecoveryInv, Next
  PROVE  \A r \in Runs : DispatchKnown(runs'[r])
<1>1. \A r \in Runs : runs[r] \in RunType /\ DispatchKnown(runs[r])
  BY DEF RecoveryInv, OutcomesHold, SessionInv, Inv, RunInv
<1> DEFINE Kept == \A s \in Runs : DispatchKnown(runs'[s])
<1>2. CASE UNCHANGED runs
  BY <1>1, <1>2
<1>3. ASSUME NEW r \in Runs, NEW next, DispatchKnown(next), runs' = [runs EXCEPT ![r] = next]
      PROVE  Kept
  <2>1. \A s \in Runs : runs'[s] = IF s = r THEN next ELSE runs[s]
    BY <1>3 DEF RecoveryInv, OutcomesHold, SessionInv, Inv, TypeOK
  <2> QED BY <1>1, <1>3, <2>1
<1> HIDE DEF Kept
<1>4. ASSUME NEW r \in Runs, NEW next, next.tools = runs[r].tools, runs' = [runs EXCEPT ![r] = next]
      PROVE  Kept
  BY <1>1, <1>3, <1>4, SameDispatch
<1>5. ASSUME NEW r \in Runs, NEW c \in Commands, RunStarted(r, c) PROVE Kept
  <2>1. DispatchKnown(StartedRun(c))
    BY DEF DispatchKnown, StartedRun, AbsentRun, IsOpen, OpenCall
  <2> QED BY <1>3, <1>5, <2>1 DEF RunStarted, Replace
<1>6. ASSUME NEW r \in Runs, NEW c \in Commands, UserMessage(r, c) PROVE Kept
  <2>1. AdmitMessage(runs[r]).tools = runs[r].tools
    BY <1>1 DEF AdmitMessage, Refresh, RunType
  <2> QED BY <1>4, <1>6, <2>1 DEF UserMessage, Replace
<1>7. ASSUME NEW r \in Runs, RunCancelRequested(r) PROVE Kept
  <2>1. RequestCancel(runs[r]).tools = runs[r].tools
    BY <1>1 DEF RequestCancel, Refresh, RunType
  <2> QED BY <1>4, <1>7, <2>1 DEF RunCancelRequested, Replace
<1>8. ASSUME NEW r \in Runs, NEW k \in Steps, StepStarted(r, k) PROVE Kept
  <2>1. StartStep(runs[r], k).tools = runs[r].tools
    BY <1>1 DEF StartStep, Refresh, RunType
  <2> QED BY <1>4, <1>8, <2>1 DEF StepStarted, Replace
<1>9. ASSUME NEW r \in Runs, NEW k \in Steps, NEW a \in Attempts, ModelRequestStarted(r, k, a) PROVE Kept
  <2>1. StartRequest(runs[r], k, a).tools = runs[r].tools
    BY <1>1 DEF StartRequest, Refresh, RunType
  <2> QED BY <1>4, <1>9, <2>1 DEF ModelRequestStarted, Replace
<1>10. ASSUME NEW r \in Runs, NEW q \in Requests, ModelResponseDelta(r, q) PROVE Kept
  <2>1. RecordDelta(runs[r], q).tools = runs[r].tools
    BY <1>1 DEF RecordDelta, Refresh, RunType
  <2> QED BY <1>4, <1>10, <2>1 DEF ModelResponseDelta, Replace
<1>11. ASSUME NEW r \in Runs, NEW q \in Requests, NEW o \in RequestOutcomes, NEW n \in 0..MaxCall,
              ModelRequestFinished(r, q, o, n)
       PROVE  Kept
  <2>1. FinishRequest(runs[r], q, o, n).tools = runs[r].tools
    BY <1>1 DEF FinishRequest, Refresh, RunType
  <2> QED BY <1>4, <1>11, <2>1 DEF ModelRequestFinished, Replace
<1>12. ASSUME NEW r \in Runs, NEW trigger \in Triggers, CompactionStarted(r, trigger) PROVE Kept
  <2>1. StartCompaction(runs[r], trigger).tools = runs[r].tools
    BY <1>1 DEF StartCompaction, Refresh, RunType
  <2> QED BY <1>4, <1>12, <2>1 DEF CompactionStarted, Replace
<1>13. ASSUME NEW r \in Runs, CompactionSucceeded(r) PROVE Kept
  <2>1. SucceedCompaction(runs[r]).tools = runs[r].tools
    BY <1>1 DEF SucceedCompaction, Refresh, RunType
  <2> QED BY <1>4, <1>13, <2>1 DEF CompactionSucceeded, Replace
<1>14. ASSUME NEW r \in Runs, CompactionFailed(r) PROVE Kept
  <2>1. FailCompaction(runs[r]).tools = runs[r].tools
    BY <1>1 DEF FailCompaction, Refresh, RunType
  <2> QED BY <1>4, <1>14, <2>1 DEF CompactionFailed, Replace
<1>15. ASSUME NEW r \in Runs, NEW t \in Calls, NEW gated \in BOOLEAN, NEW mode \in {"parallel", "exclusive"},
              ToolCallCreated(r, t, gated, mode)
       PROVE  Kept
  <2> DEFINE next == CreateCall(runs[r], t, gated, mode)
  <2>1. /\ \A u \in Calls : u # t => next.tools[u] = runs[r].tools[u]
        /\ next.tools[t] = [status |-> "created", reason |-> NoReason, started |-> FALSE,
                            gated |-> gated, mode |-> mode]
    BY <1>1 DEF CreateCall, Refresh, RunType
  <2>2. runs' = [runs EXCEPT ![r] = next]
    BY <1>15 DEF ToolCallCreated, Replace
  <2> HIDE DEF next
  <2>3. DispatchKnown(next)
    BY <1>1, <2>1, OneDispatch DEF NoReason
  <2> QED BY <1>3, <2>2, <2>3
<1>16. ASSUME NEW r \in Runs, NEW t \in Calls, ApprovalRequested(r, t) PROVE Kept
  <2> DEFINE next == RequestApproval(runs[r], t)
             call == runs[r].tools[t]
  <2>1. /\ \A u \in Calls : u # t => next.tools[u] = runs[r].tools[u]
        /\ next.tools[t] = [call EXCEPT !.status = "waiting_for_approval"]
    BY <1>1 DEF RequestApproval, Refresh, RunType
  <2>2. runs' = [runs EXCEPT ![r] = next] /\ call.status = "created"
    BY <1>16 DEF ApprovalRequested, CanRequestApproval, Replace
  <2>3. call \in CallType /\ ~call.started /\ call.reason # "cleanup_failed"
    BY <1>1, <2>2 DEF DispatchKnown, RunType, IsOpen, OpenCall
  <2> HIDE DEF next, call
  <2>4. next.tools[t].status = "waiting_for_approval" /\ ~next.tools[t].started /\ next.tools[t].reason = call.reason
    BY <2>1, <2>3 DEF CallType
  <2>5. DispatchKnown(next)
    BY <1>1, <2>1, <2>3, <2>4, OneDispatch
  <2> QED BY <1>3, <2>2, <2>5
<1>17. ASSUME NEW r \in Runs, NEW t \in Calls, NEW d \in {"allowed", "denied", "expired", "cancelled"},
              NEW origin \in {"user", "system", "recovery"}, ApprovalResolved(r, t, d, origin)
       PROVE  Kept
  <2> DEFINE next == ResolveApproval(runs[r], t, d)
             call == runs[r].tools[t]
  <2>1. /\ \A u \in Calls : u # t => next.tools[u] = runs[r].tools[u]
        /\ next.tools[t] = IF d = "allowed" THEN [call EXCEPT !.status = "created"] ELSE call
    BY <1>1 DEF ResolveApproval, Refresh, RunType
  <2>2. runs' = [runs EXCEPT ![r] = next] /\ runs[r].approvals[t] = "pending"
    BY <1>17 DEF ApprovalResolved, CanResolveApproval, Replace
  <2>3. call \in CallType /\ call.status = "waiting_for_approval"
    BY <2>2 DEF RecoveryInv, OutcomesHold, SessionInv, Inv, RunInv, ActiveSetsAgree, RunType
  <2>4. ~call.started /\ call.reason # "cleanup_failed"
    BY <1>1, <2>3 DEF DispatchKnown, IsOpen, OpenCall
  <2> HIDE DEF next, call
  <2>5. /\ next.tools[t].status \in {"created", "waiting_for_approval"} /\ ~next.tools[t].started
        /\ next.tools[t].reason = call.reason
    BY <2>1, <2>3, <2>4 DEF CallType
  <2>6. DispatchKnown(next)
    BY <1>1, <2>1, <2>4, <2>5, OneDispatch
  <2> QED BY <1>3, <2>2, <2>6
<1>18. ASSUME NEW r \in Runs, NEW t \in Calls, ToolStarted(r, t) PROVE Kept
  <2> DEFINE next == StartTool(runs[r], t)
             call == runs[r].tools[t]
  <2>1. /\ \A u \in Calls : u # t => next.tools[u] = runs[r].tools[u]
        /\ next.tools[t] = [call EXCEPT !.status = "running", !.started = TRUE]
    BY <1>1 DEF StartTool, Refresh, RunType
  <2>2. runs' = [runs EXCEPT ![r] = next] /\ call.status = "created"
    BY <1>18 DEF ToolStarted, CanStartTool, Replace
  <2>3. call \in CallType /\ call.reason # "cleanup_failed"
    BY <1>1, <2>2 DEF DispatchKnown, RunType, IsOpen, OpenCall
  <2> HIDE DEF next, call
  <2>4. next.tools[t].status = "running" /\ next.tools[t].started /\ next.tools[t].reason = call.reason
    BY <2>1, <2>3 DEF CallType
  <2>5. DispatchKnown(next)
    BY <1>1, <2>1, <2>3, <2>4, OneDispatch
  <2> QED BY <1>3, <2>2, <2>5
<1>19. ASSUME NEW r \in Runs, NEW t \in Calls, NEW o \in ToolOutcomes, ToolFinished(r, t, o) PROVE Kept
  <2> DEFINE next == FinishTool(runs[r], t, o)
             call == runs[r].tools[t]
  <2>1. /\ \A u \in Calls : u # t => next.tools[u] = runs[r].tools[u]
        /\ next.tools[t] = [call EXCEPT !.status = o.status, !.reason = o.reason]
    BY <1>1 DEF FinishTool, Refresh, RunType
  <2>2. runs' = [runs EXCEPT ![r] = next] /\ call \in CallType /\ o.status \in TerminalCall
    BY <1>1, <1>19 DEF ToolFinished, Replace, RunType, ToolOutcomes
  <2> HIDE DEF next, call
  <2>3. next.tools[t].status = o.status
    BY <2>1, <2>2 DEF CallType
  <2>4. DispatchKnown(next)
    BY <1>1, <2>1, <2>2, <2>3, OneDispatch DEF TerminalCall, IsOpen, OpenCall
  <2> QED BY <1>3, <2>2, <2>4
<1>20. ASSUME NEW r \in Runs, NEW k \in Steps, NEW o \in StepOutcomes, StepFinished(r, k, o) PROVE Kept
  <2>1. FinishStep(runs[r], k, o).tools = runs[r].tools
    BY <1>1 DEF FinishStep, Refresh, RunType
  <2> QED BY <1>4, <1>20, <2>1 DEF StepFinished, Replace
<1>21. ASSUME NEW r \in Runs, NEW o \in StepOutcomes, RunFinished(r, o) PROVE Kept
  <2>1. FinishRun(runs[r], o).tools = runs[r].tools
    BY <1>1 DEF FinishRun, RunType
  <2> QED BY <1>4, <1>21, <2>1 DEF RunFinished
<1>22. CreateSession \/ (\E r \in Runs, b \in Calls \cup {CleanupBlocker} : BlockerResolved(r, b))
         => UNCHANGED runs
  BY DEF CreateSession, BlockerResolved
<1>23. Kept
  BY <1>2, <1>5, <1>6, <1>7, <1>8, <1>9, <1>10, <1>11, <1>12, <1>13, <1>14, <1>15, <1>16, <1>17, <1>18, <1>19,
     <1>20, <1>21, <1>22 DEF Next, Kept
<1> QED BY <1>23 DEF Kept

LEMMA NextTold ==
  ASSUME RecoveryInv, Next
  PROVE  \A s \in Runs : Told(runs'[s]) /\ Fresh(runs[s], runs'[s])
<1>1. \A r \in Runs : RunInv(runs[r]) /\ OutcomeInv(runs[r]) /\ Told(runs[r]) /\ Fresh(runs[r], runs[r])
  BY DEF RecoveryInv, OutcomesHold, SessionInv, Inv, Fresh
<1> DEFINE Kept == \A s \in Runs : Told(runs'[s]) /\ Fresh(runs[s], runs'[s])
<1>2. CASE UNCHANGED runs
  BY <1>1, <1>2
<1>3. ASSUME NEW r \in Runs, NEW next, Told(next) /\ Fresh(runs[r], next), runs' = [runs EXCEPT ![r] = next]
      PROVE  Kept
  <2>1. \A s \in Runs : runs'[s] = IF s = r THEN next ELSE runs[s]
    BY <1>3 DEF RecoveryInv, OutcomesHold, SessionInv, Inv, TypeOK
  <2> QED BY <1>1, <1>3, <2>1
<1> HIDE DEF Kept
<1>4. ASSUME NEW r \in Runs, NEW c \in Commands, RunStarted(r, c) PROVE Kept
  <2>1. runs[r] = AbsentRun
    BY <1>4 DEF RunStarted, RecoveryInv, OutcomesHold, SessionInv
  <2>2. Told(StartedRun(c)) /\ Fresh(AbsentRun, StartedRun(c))
    BY DEF Told, Fresh, StartedRun, AbsentRun, TerminalStatus, NoReason
  <2> QED BY <1>3, <1>4, <2>1, <2>2 DEF RunStarted, Replace
<1>5. ASSUME NEW r \in Runs, NEW c \in Commands, UserMessage(r, c) PROVE Kept
  BY <1>1, <1>3, <1>5, AdmitMessageTold DEF UserMessage, Replace
<1>6. ASSUME NEW r \in Runs, RunCancelRequested(r) PROVE Kept
  BY <1>1, <1>3, <1>6, RequestCancelTold DEF RunCancelRequested, Replace
<1>7. ASSUME NEW r \in Runs, NEW k \in Steps, StepStarted(r, k) PROVE Kept
  BY <1>1, <1>3, <1>7, StartStepTold DEF StepStarted, Replace
<1>8. ASSUME NEW r \in Runs, NEW k \in Steps, NEW a \in Attempts, ModelRequestStarted(r, k, a) PROVE Kept
  BY <1>1, <1>3, <1>8, StartRequestTold DEF ModelRequestStarted, Replace
<1>9. ASSUME NEW r \in Runs, NEW q \in Requests, ModelResponseDelta(r, q) PROVE Kept
  BY <1>1, <1>3, <1>9, RecordDeltaTold DEF ModelResponseDelta, Replace
<1>10. ASSUME NEW r \in Runs, NEW q \in Requests, NEW o \in RequestOutcomes, NEW n \in 0..MaxCall,
              ModelRequestFinished(r, q, o, n)
       PROVE  Kept
  BY <1>1, <1>3, <1>10, FinishRequestTold, OutcomesTyped DEF ModelRequestFinished, Replace
<1>11. ASSUME NEW r \in Runs, NEW trigger \in Triggers, CompactionStarted(r, trigger) PROVE Kept
  BY <1>1, <1>3, <1>11, StartCompactionTold DEF CompactionStarted, Replace
<1>12. ASSUME NEW r \in Runs, CompactionSucceeded(r) PROVE Kept
  BY <1>1, <1>3, <1>12, SettleCompactionTold DEF CompactionSucceeded, Replace
<1>13. ASSUME NEW r \in Runs, CompactionFailed(r) PROVE Kept
  BY <1>1, <1>3, <1>13, SettleCompactionTold DEF CompactionFailed, Replace
<1>14. ASSUME NEW r \in Runs, NEW t \in Calls, NEW gated \in BOOLEAN, NEW mode \in {"parallel", "exclusive"},
              ToolCallCreated(r, t, gated, mode)
       PROVE  Kept
  BY <1>1, <1>3, <1>14, CallsTold DEF ToolCallCreated, Replace
<1>15. ASSUME NEW r \in Runs, NEW t \in Calls, ApprovalRequested(r, t) PROVE Kept
  BY <1>1, <1>3, <1>15, CallsTold DEF ApprovalRequested, Replace
<1>16. ASSUME NEW r \in Runs, NEW t \in Calls, NEW d \in {"allowed", "denied", "expired", "cancelled"},
              NEW origin \in {"user", "system", "recovery"}, ApprovalResolved(r, t, d, origin)
       PROVE  Kept
  BY <1>1, <1>3, <1>16, CallsTold DEF ApprovalResolved, Replace
<1>17. ASSUME NEW r \in Runs, NEW t \in Calls, ToolStarted(r, t) PROVE Kept
  BY <1>1, <1>3, <1>17, CallsTold DEF ToolStarted, Replace
<1>18. ASSUME NEW r \in Runs, NEW t \in Calls, NEW o \in ToolOutcomes, ToolFinished(r, t, o) PROVE Kept
  BY <1>1, <1>3, <1>18, CallsTold DEF ToolFinished, Replace
<1>19. ASSUME NEW r \in Runs, NEW k \in Steps, NEW o \in StepOutcomes, StepFinished(r, k, o) PROVE Kept
  BY <1>1, <1>3, <1>19, FinishStepTold, OutcomesTyped DEF StepFinished, Replace
<1>20. ASSUME NEW r \in Runs, NEW o \in StepOutcomes, RunFinished(r, o) PROVE Kept
  BY <1>1, <1>3, <1>20, FinishRunTold DEF RunFinished
<1>21. CreateSession \/ (\E r \in Runs, b \in Calls \cup {CleanupBlocker} : BlockerResolved(r, b))
         => UNCHANGED runs
  BY DEF CreateSession, BlockerResolved
<1>22. Kept
  BY <1>2, <1>4, <1>5, <1>6, <1>7, <1>8, <1>9, <1>10, <1>11, <1>12, <1>13, <1>14, <1>15, <1>16, <1>17, <1>18, <1>19,
     <1>20, <1>21 DEF Next, Kept
<1> QED BY <1>22 DEF Kept

LEMMA ClosesGrows ==
  ASSUME NEW run, NEW next, Closes(run, next)
  PROVE  Grows(run, next)
<1>1. /\ \A k \in Steps : run.steps[k] \in TerminalStatus => next.steps[k] = run.steps[k]
      /\ \A q \in Requests : run.requests[q].status \notin {"absent", "running"} => next.requests[q] = run.requests[q]
      /\ \A t \in Calls :
           /\ run.tools[t].status \in TerminalCall => next.tools[t] = run.tools[t]
           /\ run.approvals[t] \notin {"absent", "pending"} => next.approvals[t] = run.approvals[t]
  BY DEF Closes, TerminalStatus, TerminalCall, IsOpen, OpenCall
<1>2. ~Dispatches(run, next)
  BY DEF Closes, Dispatches, IsOpen, OpenCall
<1> QED BY <1>1, <1>2 DEF Closes, Grows, Frozen

\* The process that opens the store again leaves a session as legal as it found it, and rewrites nothing settled.
LEMMA ReopenKeeps ==
  ASSUME RecoveryInv, Reopen
  PROVE  RecoveryInv' /\ Steady /\ \A s \in Runs : Fresh(runs[s], runs'[s])
<1> DEFINE r == activeRunId
           next == PlanRecovery(runs[r]).run
<1>1. r \in Runs /\ r # NoRun
  BY DEF RecoveryInv, OutcomesHold, SessionInv, Inv, TypeOK, Reopen
<1>2. RunInv(runs[r]) /\ OutcomeInv(runs[r]) /\ DispatchKnown(runs[r]) /\ Told(runs[r])
  BY <1>1 DEF RecoveryInv, OutcomesHold, SessionInv, Inv
<1>3. /\ RunInv(next) /\ OutcomeInv(next) /\ Told(next) /\ Closes(runs[r], next) /\ Settled(next)
      /\ next.status = "interrupted"
  BY <1>2, PlanCloses DEF Accepted
<1>4. runs' = [runs EXCEPT ![r] = next] /\ activeRunId' = NoRun /\ activity' = "idle"
      /\ UNCHANGED <<created, resolved>>
  BY DEF Reopen
<1> HIDE DEF next, r
<1>5. \A s \in Runs : runs'[s] = IF s = r THEN next ELSE runs[s]
  BY <1>4 DEF RecoveryInv, OutcomesHold, SessionInv, Inv, TypeOK
<1>6. Grows(runs[r], next) /\ DispatchKnown(next)
  BY <1>2, <1>3, ClosesGrows, ClosedDispatch
<1>7. runs[r].status \in LiveStatus /\ runs[r].status \notin {"absent"} \cup TerminalStatus
  BY <1>1, DisjointStatus DEF RecoveryInv, OutcomesHold, SessionInv, OneLiveRun, r
<1>8. next.status \in TerminalStatus /\ next.status \notin {"absent"} \cup LiveStatus
      /\ next.command = runs[r].command
  BY <1>3, DisjointStatus DEF TerminalStatus, Closes
<1>9. Inv'
  <2>1. next \in RunType
    BY <1>3 DEF RunInv
  <2>2. TypeOK'
    BY <1>1, <1>4, <2>1 DEF RecoveryInv, OutcomesHold, SessionInv, Inv, TypeOK
  <2>3. \A s \in Runs : RunInv(runs'[s])
    BY <1>3, <1>5 DEF RecoveryInv, OutcomesHold, SessionInv, Inv
  <2> QED BY <2>2, <2>3 DEF Inv
<1>10. OneLiveRun'
  BY <1>4, <1>5, <1>8, RunAssumption DEF RecoveryInv, OutcomesHold, SessionInv, OneLiveRun, r
<1>11. \A s \in Runs : /\ runs'[s].status = "absent" => runs'[s] = AbsentRun
                       /\ runs'[s].status # "absent" => runs'[s].command # NoCommand
  BY <1>5, <1>7, <1>8 DEF RecoveryInv, OutcomesHold, SessionInv
<1>12. CommandStartsOneRun'
  BY <1>5, <1>7, <1>8 DEF RecoveryInv, OutcomesHold, SessionInv, CommandStartsOneRun
<1>13. TerminalClosed'
  BY <1>3, <1>5 DEF RecoveryInv, OutcomesHold, SessionInv, TerminalClosed, TerminalIsClosed
<1>14. ResolvedAreReal'
  <2>1. \A p \in resolved : p[1] \in Runs /\ p[1] # r
    BY <1>7 DEF RecoveryInv, OutcomesHold, SessionInv, ResolvedAreReal, Inv, TypeOK
  <2> QED BY <1>4, <1>5, <2>1 DEF RecoveryInv, OutcomesHold, SessionInv, ResolvedAreReal
<1>15. SessionInv'
  BY <1>9, <1>10, <1>11, <1>12, <1>13, <1>14 DEF SessionInv
<1>16. \A s \in Runs : OutcomeInv(runs'[s]) /\ DispatchKnown(runs'[s]) /\ Told(runs'[s])
  BY <1>3, <1>5, <1>6 DEF RecoveryInv, OutcomesHold
<1>17. Steady
  BY <1>5, <1>6, <1>7, NothingChanges DEF Steady, Grows
<1>18. \A s \in Runs : Fresh(runs[s], runs'[s])
  BY <1>3, <1>5 DEF Closes, Fresh
<1> QED BY <1>15, <1>16, <1>17, <1>18 DEF RecoveryInv, OutcomesHold

LEMMA InitRecovery ==
  Init => RecoveryInv
<1>1. DispatchKnown(AbsentRun)
  BY DEF DispatchKnown, AbsentRun, IsOpen, OpenCall
<1>2. Told(AbsentRun)
  BY DEF Told, AbsentRun, TerminalStatus, NoReason
<1> QED BY <1>1, <1>2, InitOutcomes DEF Init, RecoveryInv

LEMMA NextRecovery ==
  RecoveryInv /\ [RecoveryNext]_vars => RecoveryInv' /\ Steady /\ \A s \in Runs : Fresh(runs[s], runs'[s])
<1> SUFFICES ASSUME RecoveryInv, [RecoveryNext]_vars
             PROVE  RecoveryInv' /\ Steady /\ \A s \in Runs : Fresh(runs[s], runs'[s])
  OBVIOUS
<1>1. CASE UNCHANGED vars
  <2>1. OutcomesHold' /\ Steady
    BY <1>1, NextOutcomes, NextSession DEF RecoveryInv, OutcomesHold
  <2>2. \A s \in Runs : Fresh(runs[s], runs'[s])
    BY <1>1 DEF vars, Fresh
  <2> QED BY <1>1, <2>1, <2>2 DEF RecoveryInv, vars
<1>2. CASE Next
  <2>1. OutcomesHold' /\ Steady
    BY <1>2, NextOutcomes, NextSession DEF RecoveryInv, OutcomesHold
  <2> QED BY <1>2, <2>1, NextDispatch, NextTold DEF RecoveryInv
<1>3. CASE Reopen
  BY <1>3, ReopenKeeps
<1> QED BY <1>1, <1>2, <1>3 DEF RecoveryNext

-----------------------------------------------------------------------------
\* Crashes and restarts included, every record is one the reducer's rules account for.
THEOREM RecoveryInvariant ==
  RecoverySpec => []RecoveryInv
BY InitRecovery, NextRecovery, PTL DEF RecoverySpec

\* Every promise of the session's records is kept by the process that opens the store again, and by all after it.
THEOREM RulesSurviveRestarts ==
  RecoverySpec => [](/\ TypeOK /\ OneLiveRun /\ CommandStartsOneRun /\ ActiveSets /\ OneOperation /\ Gate
                     /\ RetryRecovers /\ ToolOrder /\ TerminalClosed /\ CompletedWhole /\ CleanupKept
                     /\ ResolvedAreReal)
<1>1. RecoveryInv => /\ TypeOK /\ OneLiveRun /\ CommandStartsOneRun /\ ActiveSets /\ OneOperation /\ Gate
                     /\ RetryRecovers /\ ToolOrder /\ TerminalClosed /\ CompletedWhole /\ CleanupKept
                     /\ ResolvedAreReal
  <2> SUFFICES ASSUME RecoveryInv
               PROVE  /\ TypeOK /\ OneLiveRun /\ CommandStartsOneRun /\ ActiveSets /\ OneOperation /\ Gate
                      /\ RetryRecovers /\ ToolOrder /\ TerminalClosed /\ CompletedWhole /\ CleanupKept
                      /\ ResolvedAreReal
    OBVIOUS
  <2>1. SessionInv /\ Inv /\ \A r \in Runs : RunInv(runs[r]) /\ OutcomeInv(runs[r])
    BY DEF RecoveryInv, OutcomesHold, SessionInv, Inv
  <2>2. TypeOK /\ OneLiveRun /\ CommandStartsOneRun /\ TerminalClosed /\ ResolvedAreReal
    BY <2>1 DEF SessionInv, Inv
  <2>3. ActiveSets /\ OneOperation /\ Gate /\ RetryRecovers
    BY <2>1 DEF RunInv, ActiveSets, OneOperation, Gate, RetryRecovers
  <2>4. ToolOrder /\ CompletedWhole /\ CleanupKept
    BY <2>1 DEF OutcomeInv, ToolOrder, CompletedWhole, CleanupKept
  <2> QED BY <2>2, <2>3, <2>4
<1> QED BY <1>1, RecoveryInvariant, PTL

\* Neither an event nor a restart rewrites what is settled, reopens a closed run, or starts anything in a stopped one.
THEOREM HistorySurvivesRestarts ==
  RecoverySpec => HistoryFrozen /\ NoDispatchOnceStopped
<1>1. RecoveryInv /\ [RecoveryNext]_vars =>
        [\A r \in Runs :
           /\ runs[r].status \in TerminalStatus => runs'[r] = runs[r]
           /\ \A k \in Steps : runs[r].steps[k] \in TerminalStatus => runs'[r].steps[k] = runs[r].steps[k]
           /\ \A q \in Requests : runs[r].requests[q].status \notin {"absent", "running"} =>
                runs'[r].requests[q] = runs[r].requests[q]
           /\ \A t \in Calls :
                /\ runs[r].tools[t].status \in TerminalCall => runs'[r].tools[t] = runs[r].tools[t]
                /\ runs[r].approvals[t] \notin {"absent", "pending"} => runs'[r].approvals[t] = runs[r].approvals[t]
           /\ runs[r].cancelRequested => runs'[r].cancelRequested]_vars
  BY NextRecovery DEF Steady, Frozen
<1>2. RecoveryInv /\ [RecoveryNext]_vars =>
        [\A r \in Runs : runs[r].cancelRequested \/ runs[r].blockedReason # NoReason => ~NewlyDispatched(r)]_vars
  BY NextRecovery DEF Steady, Halted, Dispatches, NewlyDispatched
<1> QED BY <1>1, <1>2, RecoveryInvariant, PTL DEF RecoverySpec, HistoryFrozen, NoDispatchOnceStopped

\* Wherever the process dies, the reducer accepts the whole plan and the store opens again.
THEOREM AlwaysReopensCorrect ==
  RecoverySpec => []AlwaysReopens
<1>1. RecoveryInv => AlwaysReopens
  <2> SUFFICES ASSUME RecoveryInv, activeRunId # NoRun
               PROVE  LET plan == PlanRecovery(runs[activeRunId])
                      IN  plan.ok /\ Settled(plan.run) /\ plan.run.status = "interrupted"
    BY DEF AlwaysReopens
  <2>1. RunInv(runs[activeRunId]) /\ OutcomeInv(runs[activeRunId]) /\ Told(runs[activeRunId])
    BY DEF RecoveryInv, OutcomesHold, SessionInv, Inv, TypeOK
  <2> QED BY <2>1, PlanCloses DEF Accepted
<1> QED BY <1>1, RecoveryInvariant, PTL

\* What was settled stays, nothing is dispatched, and a blocker is left exactly for what nobody can know the outcome of.
THEOREM RecoveryInventsNothingCorrect ==
  RecoverySpec => []RecoveryInventsNothing
<1>1. RecoveryInv => RecoveryInventsNothing
  <2> SUFFICES ASSUME RecoveryInv, activeRunId # NoRun PROVE RecoveryInventsNothing
    BY DEF RecoveryInventsNothing
  <2> DEFINE run == runs[activeRunId]
             next == PlanRecovery(run).run
  <2>1. RunInv(run) /\ OutcomeInv(run) /\ DispatchKnown(run) /\ Told(run)
    BY DEF RecoveryInv, OutcomesHold, SessionInv, Inv, TypeOK
  <2>2. Closes(run, next) /\ Settled(next) /\ OutcomeInv(next)
    BY <2>1, PlanCloses DEF Accepted
  <2> HIDE DEF next
  <2>3. ASSUME NEW t \in Calls PROVE t \in RunBlockers(next) \ RunBlockers(run) <=> run.tools[t].status = "running"
    <3>1. t # CleanupBlocker
      BY BoundsAssumption DEF Calls, Steps, CleanupBlocker
    <3>2. /\ t \in RunBlockers(run) <=> run.tools[t].started /\ run.tools[t].status = "interrupted"
          /\ t \in RunBlockers(next) <=> next.tools[t].started /\ next.tools[t].status = "interrupted"
      BY <3>1 DEF RunBlockers
    <3>3. CASE ~IsOpen(run.tools[t])
      BY <2>2, <3>2, <3>3 DEF Closes, IsOpen, OpenCall
    <3>4. CASE IsOpen(run.tools[t])
      <4>1. next.tools[t].status = "interrupted" /\ next.tools[t].started = run.tools[t].started
        BY <2>2, <3>4 DEF Closes, Settled, IsOpen
      <4>2. run.tools[t].started <=> run.tools[t].status = "running"
        BY <2>1, <3>4 DEF DispatchKnown, IsOpen, OpenCall
      <4>3. run.tools[t].status # "interrupted"
        BY <3>4 DEF IsOpen, OpenCall
      <4> QED BY <3>2, <4>1, <4>2, <4>3
    <3> QED BY <3>3, <3>4
  <2>4. (\E t \in Calls : run.tools[t].reason = "cleanup_failed") => CleanupBlocker \in RunBlockers(next)
    <3> SUFFICES ASSUME NEW t \in Calls, run.tools[t].reason = "cleanup_failed"
                 PROVE  CleanupBlocker \in RunBlockers(next)
      OBVIOUS
    <3>1. next.tools[t].reason = "cleanup_failed"
      BY <2>1, <2>2 DEF DispatchKnown, Closes
    <3>2. next.blockedReason = "cleanup_failed"
      BY <2>2, <3>1 DEF OutcomeInv, CleanupFailureKept
    <3> QED BY <3>2 DEF RunBlockers
  <2>5. /\ \A q \in Requests : run.requests[q].status # "running" => next.requests[q] = run.requests[q]
        /\ \A t \in Calls :
             /\ ~IsOpen(run.tools[t]) => next.tools[t] = run.tools[t]
             /\ run.approvals[t] # "pending" => next.approvals[t] = run.approvals[t]
             /\ next.tools[t].started = run.tools[t].started
    BY <2>2 DEF Closes
  <2> QED BY <2>3, <2>4, <2>5 DEF RecoveryInventsNothing, next
<1> QED BY <1>1, RecoveryInvariant, PTL

-----------------------------------------------------------------------------
(***************************************************************************)
(* The conversation.  SayRequest and RunHistory are loops too.             *)
(***************************************************************************)
MessageType ==
  [role : {"user", "assistant", "tool"}, of : Requests \cup Calls \cup {NoRequest},
   status : {"absent", "running", "interrupted", "completed", "not_started"} \cup OpenCall \cup TerminalCall,
   reason : Reasons \cup {NoReason}, execution : {"unknown", "settled", "not_started"}]

HistoryType == [complete : BOOLEAN, messages : Seq(MessageType)]

\* h begins g, message by message.
Begins(h, g) ==
  /\ Len(h.messages) <= Len(g.messages)
  /\ \A i \in 1..Len(h.messages) : g.messages[i] = h.messages[i]

LEMMA BeginsIs ==
  ASSUME NEW h \in HistoryType, NEW g \in HistoryType
  PROVE  /\ Begins(h, h)
         /\ Begins(h, g) => IsPrefix(h.messages, g.messages)
         /\ \A f \in HistoryType : Begins(h, g) /\ Begins(g, f) => Begins(h, f)
<1>1. h.messages \in Seq(MessageType) /\ g.messages \in Seq(MessageType)
  BY DEF HistoryType
<1>2. Len(h.messages) \in Nat /\ Len(g.messages) \in Nat
  BY <1>1
<1>3. Begins(h, h)
  BY <1>2 DEF Begins
<1>4. Begins(h, g) => IsPrefix(h.messages, g.messages)
  <2> SUFFICES ASSUME Begins(h, g) PROVE IsPrefix(h.messages, g.messages)
    OBVIOUS
  <2> DEFINE n == Len(h.messages)
  <2>1. n \in Nat /\ n <= Len(g.messages) /\ \A i \in 1..n : g.messages[i] = h.messages[i]
    BY <1>2 DEF Begins
  <2>2. /\ SubSeq(h.messages, 1, n) = [i \in 1..n |-> h.messages[i]]
        /\ SubSeq(g.messages, 1, n) = [i \in 1..n |-> g.messages[i]]
    BY <1>1, <1>2, <2>1
  <2>3. [i \in 1..n |-> h.messages[i]] = [i \in 1..n |-> g.messages[i]]
    BY <2>1
  <2> QED BY <2>1, <2>2, <2>3 DEF IsPrefix
<1>5. ASSUME NEW f \in HistoryType, Begins(h, g), Begins(g, f) PROVE Begins(h, f)
  <2>1. Len(f.messages) \in Nat
    BY DEF HistoryType
  <2>2. 1..Len(h.messages) \subseteq 1..Len(g.messages)
    BY <1>2, <1>5 DEF Begins
  <2> QED BY <1>2, <1>5, <2>1, <2>2 DEF Begins
<1> QED BY <1>3, <1>4, <1>5

LEMMA SayIs ==
  ASSUME NEW h \in HistoryType, NEW known \in BOOLEAN, NEW message \in MessageType
  PROVE  /\ Say(h, known, message) \in HistoryType /\ Begins(h, Say(h, known, message))
         /\ Say(h, known, message).complete <=> h.complete /\ known
         /\ ~(h.complete /\ known) => Say(h, known, message).messages = h.messages
<1> DEFINE g == Say(h, known, message)
<1>1. h.complete \in BOOLEAN /\ h.messages \in Seq(MessageType)
  BY DEF HistoryType
<1>2. /\ g.complete = (h.complete /\ known)
      /\ g.messages = IF h.complete /\ known THEN Append(h.messages, message) ELSE h.messages
      /\ g = [complete |-> g.complete, messages |-> g.messages]
  BY DEF Say
<1>3. /\ Append(h.messages, message) \in Seq(MessageType)
      /\ Len(Append(h.messages, message)) = Len(h.messages) + 1 /\ Len(h.messages) \in Nat
      /\ \A i \in 1..Len(h.messages) : Append(h.messages, message)[i] = h.messages[i]
  BY <1>1
<1> HIDE DEF g
<1>4. g \in HistoryType
  BY <1>1, <1>2, <1>3 DEF HistoryType
<1>5. Begins(h, g)
  BY <1>1, <1>2, <1>3 DEF Begins
<1> QED BY <1>1, <1>2, <1>4, <1>5 DEF g

\* The calls of a response, by their slots.
Declared(n) == [i \in 1..n |-> i]

LEMMA ResultRounds ==
  ASSUME NEW run, NEW h, NEW q, NEW N \in Nat, N = run.requests[q].calls, ~Skipped(run.requests[q])
  PROVE  LET request  == run.requests[q]
             answered == Say(h, request.status # "running",
                             Message("assistant", q, request.status, request.reason, "settled"))
         IN  \E f : /\ Rounds(f, N, answered, "results", <<run, q[1]>>, Declared(N))
                    /\ SayRequest(run, h, q) = f[N]
<1> DEFINE answered == Say(h, run.requests[q].status # "running",
                           Message("assistant", q, run.requests[q].status, run.requests[q].reason, "settled"))
           order == Declared(N)
           Loop(g) == g = [s \in SUBSET (1..N) |->
                             IF s = {} THEN answered
                             ELSE SayCall(run, g[s \ {Max(s)}], <<q[1], order[Max(s)]>>)]
           iter == CHOOSE g : Loop(g)
<1>1. SayRequest(run, h, q) = iter[1..N]
  BY DEF SayRequest, FoldLeft, MapThenFoldSet, Declared
<1> DEFINE of == <<run, q[1]>>
<1>2. \A x, id : Round(x, "results", of, id) = SayCall(run, x, <<q[1], id>>)
  BY DEF Round
<1> HIDE DEF order, answered, of
<1>3. \A g : Loop(g) <=> Iterates(g, N, answered, "results", of, order)
  <2> SUFFICES ASSUME NEW g
               PROVE  [s \in SUBSET (1..N) |-> IF s = {} THEN answered
                                               ELSE SayCall(run, g[s \ {Max(s)}], <<q[1], order[Max(s)]>>)]
                      = [s \in SUBSET (1..N) |-> IF s = {} THEN answered
                                                 ELSE Round(g[s \ {Max(s)}], "results", of, order[Max(s)])]
    BY DEF Iterates
  <2>1. \A s \in SUBSET (1..N) : SayCall(run, g[s \ {Max(s)}], <<q[1], order[Max(s)]>>)
                                = Round(g[s \ {Max(s)}], "results", of, order[Max(s)])
    BY <1>2
  <2> QED BY <2>1
<1>4. \E g : Loop(g)
  BY <1>3, IteratesExist
<1>5. Loop(iter)
  BY <1>4
<1> HIDE DEF iter, Loop
<1>6. \E f : Rounds(f, N, answered, "results", of, order) /\ f[N] = iter[1..N]
  BY <1>3, <1>5, IteratesAreRounds
<1> QED BY <1>1, <1>6 DEF order, answered, of

Opening(run) ==
  [complete |-> TRUE,
   messages |-> IF run.userMessage THEN <<Message("user", NoRequest, "completed", NoReason, "settled")>> ELSE <<>>]

LEMMA HistoryRounds ==
  ASSUME NEW run
  PROVE  \E f : /\ Rounds(f, 2 * MaxStep, Opening(run), "history", run, RequestOrder)
                /\ RunHistory(run) = f[2 * MaxStep]
<1> DEFINE N == 2 * MaxStep
           start == Opening(run)
           Loop(g) == g = [s \in SUBSET (1..N) |->
                             IF s = {} THEN start ELSE SayRequest(run, g[s \ {Max(s)}], RequestOrder[Max(s)])]
           iter == CHOOSE g : Loop(g)
<1>0. N \in Nat /\ DOMAIN RequestOrder = 1..N
  BY RequestOrderIs
<1>1. RunHistory(run) = iter[1..N]
  BY <1>0 DEF RunHistory, FoldLeft, MapThenFoldSet, Opening
<1>2. \A x, id : Round(x, "history", run, id) = SayRequest(run, x, id)
  BY DEF Round
<1> HIDE DEF N, start
<1>3. \A g : Loop(g) <=> Iterates(g, N, start, "history", run, RequestOrder)
  BY <1>2 DEF Iterates
<1>4. \E g : Loop(g)
  BY <1>0, <1>3, IteratesExist
<1>5. Loop(iter)
  BY <1>4
<1> HIDE DEF iter, Loop
<1>6. \E f : Rounds(f, N, start, "history", run, RequestOrder) /\ f[N] = iter[1..N]
  BY <1>0, <1>3, <1>5, IteratesAreRounds
<1> QED BY <1>1, <1>6 DEF N, start

\* What one more message, result or request does to the conversation so far.
Extends(h, g) ==
  /\ h \in HistoryType /\ g \in HistoryType /\ Begins(h, g)
  /\ ~h.complete => ~g.complete /\ g.messages = h.messages

LEMMA ExtendsMore ==
  ASSUME NEW h \in HistoryType, NEW g
  PROVE  /\ Extends(h, h)
         /\ \A f : Extends(h, g) /\ Extends(g, f) => Extends(h, f)
BY BeginsIs DEF Extends

LEMMA ToolMessageType ==
  ASSUME NEW run \in RunType, NEW t \in Calls
  PROVE  ToolMessage(run, t) \in MessageType
<1>1. run.tools[t] \in CallType /\ run.reason \in Reasons \cup {NoReason}
  BY DEF RunType
<1>2. Execution(run.tools[t]) \in {"unknown", "settled", "not_started"}
  BY DEF Execution
<1>3. CASE run.tools[t].status = "absent"
  BY <1>1, <1>3 DEF ToolMessage, Message, MessageType
<1>4. CASE run.tools[t].status # "absent"
  <2>1. ToolMessage(run, t) = Message("tool", t, run.tools[t].status, run.tools[t].reason, Execution(run.tools[t]))
    BY <1>4 DEF ToolMessage
  <2>2. /\ run.tools[t].status \in {"absent"} \cup OpenCall \cup TerminalCall
        /\ run.tools[t].reason \in Reasons \cup {NoReason}
    BY <1>1 DEF CallType
  <2> QED BY <1>2, <2>1, <2>2 DEF Message, MessageType
<1> QED BY <1>3, <1>4

LEMMA SayCallIs ==
  ASSUME NEW run \in RunType, NEW h \in HistoryType, NEW t \in Calls
  PROVE  /\ Extends(h, SayCall(run, h, t))
         /\ SayCall(run, h, t).complete <=> h.complete /\ ~Undecided(run, t)
         /\ Undecided(run, t) => SayCall(run, h, t).messages = h.messages
<1> DEFINE message == ToolMessage(run, t)
<1>1. message \in MessageType
  BY ToolMessageType
<1> HIDE DEF message
<1>2. CASE Undecided(run, t)
  <2>1. (~Undecided(run, t)) = FALSE
    BY <1>2 DEF Undecided
  <2>2. SayCall(run, h, t) = Say(h, FALSE, message)
    BY <2>1 DEF SayCall, message
  <2>3. LET g == Say(h, FALSE, message)
        IN  /\ g \in HistoryType /\ Begins(h, g) /\ (g.complete <=> h.complete /\ FALSE)
            /\ ~(h.complete /\ FALSE) => g.messages = h.messages
    BY <1>1, SayIs
  <2> QED BY <1>2, <2>2, <2>3 DEF Extends
<1>3. CASE ~Undecided(run, t)
  <2>1. (~Undecided(run, t)) = TRUE
    BY <1>3 DEF Undecided
  <2>2. SayCall(run, h, t) = Say(h, TRUE, message)
    BY <2>1 DEF SayCall, message
  <2>3. LET g == Say(h, TRUE, message)
        IN  /\ g \in HistoryType /\ Begins(h, g) /\ (g.complete <=> h.complete /\ TRUE)
            /\ ~(h.complete /\ TRUE) => g.messages = h.messages
    BY <1>1, SayIs
  <2> QED BY <1>3, <2>2, <2>3 DEF Extends
<1> QED BY <1>2, <1>3

\* The results of one response, in the order it declared the calls.
LEMMA ResultsExtend ==
  ASSUME NEW run \in RunType, NEW h \in HistoryType, NEW k \in Steps, NEW N \in 0..MaxCall,
         NEW f, Rounds(f, N, h, "results", <<run, k>>, Declared(N))
  PROVE  /\ Extends(h, f[N])
         /\ (\A i \in 1..N : ~Undecided(run, <<k, i>>)) => (f[N].complete <=> h.complete)
<1> DEFINE Decided == \A i \in 1..N : ~Undecided(run, <<k, i>>)
           Good(n) == Extends(h, f[n]) /\ (Decided => (f[n].complete <=> h.complete))
           G == {n \in 0..N : Good(n)}
<1>0. N \in Nat /\ MaxCall \in Nat
  BY BoundsAssumption
<1>1. Good(0)
  BY ExtendsMore DEF Rounds
<1>2. ASSUME NEW n \in 1..N, Good(n - 1) PROVE Good(n)
  <2>1. <<k, n>> \in Calls
    BY <1>0 DEF Calls, Slots
  <2>2. f[n] = SayCall(run, f[n - 1], <<k, n>>)
    BY DEF Rounds, Round, Declared
  <2>3. Extends(h, f[n - 1]) /\ f[n - 1] \in HistoryType
    BY <1>2 DEF Extends
  <2>4. Extends(f[n - 1], f[n]) /\ (f[n].complete <=> f[n - 1].complete /\ ~Undecided(run, <<k, n>>))
    BY <2>1, <2>2, <2>3, SayCallIs
  <2>5. Extends(h, f[n])
    BY <2>3, <2>4, ExtendsMore
  <2> QED BY <1>2, <2>4, <2>5
<1> HIDE DEF Good
<1>3. G \in SUBSET (0..N) /\ 0 \in G /\ \A n \in 1..N : n - 1 \in G => n \in G
  BY <1>0, <1>1, <1>2
<1>4. Good(N)
  <2> HIDE DEF G
  <2>1. N \in G
    BY <1>0, <1>3, EveryRound
  <2> QED BY <2>1 DEF G
<1> QED BY <1>4 DEF Good

\* A request contributes nothing, or its answer and then its results.
LEMMA SayRequestIs ==
  ASSUME NEW run \in RunType, NEW h \in HistoryType, NEW q \in Requests
  PROVE  LET request == run.requests[q]
             next    == SayRequest(run, h, q)
         IN  /\ Extends(h, next)
             /\ Skipped(request) => next = h
             /\ ~Skipped(request) /\ request.status = "running" /\ request.calls = 0 =>
                  ~next.complete /\ next.messages = h.messages
             /\ request.status # "running" /\ (\A i \in 1..request.calls : ~Undecided(run, <<q[1], i>>)) =>
                  (next.complete <=> h.complete)
<1> DEFINE request  == run.requests[q]
           next     == SayRequest(run, h, q)
           message  == Message("assistant", q, request.status, request.reason, "settled")
           answered == Say(h, request.status # "running", message)
           N        == request.calls
<1>1. CASE Skipped(request)
  <2>1. next = h
    BY <1>1 DEF SayRequest
  <2> QED BY <1>1, <2>1, ExtendsMore
<1>2. CASE ~Skipped(request)
  <2>1. request \in RequestType /\ N \in 0..MaxCall /\ N \in Nat /\ q[1] \in Steps
    BY BoundsAssumption DEF RunType, RequestType, Requests
  <2>2. message \in MessageType
    BY <2>1 DEF Message, MessageType, RequestType, TerminalCall
  <2>3. (request.status # "running") \in BOOLEAN
    OBVIOUS
  <2>4. PICK f : Rounds(f, N, answered, "results", <<run, q[1]>>, Declared(N)) /\ next = f[N]
    <3>1. N = run.requests[q].calls /\ N \in Nat /\ ~Skipped(run.requests[q])
      BY <1>2, <2>1
    <3> HIDE DEF N
    <3> QED BY <3>1, ResultRounds
  <2> HIDE DEF message
  <2>5. /\ answered \in HistoryType /\ Extends(h, answered)
        /\ answered.complete <=> h.complete /\ request.status # "running"
        /\ request.status = "running" => answered.messages = h.messages
    BY <2>2, <2>3, SayIs DEF Extends
  <2> HIDE DEF answered, next, request, N
  <2>6. /\ Extends(answered, next)
        /\ (\A i \in 1..N : ~Undecided(run, <<q[1], i>>)) => (next.complete <=> answered.complete)
    BY <2>1, <2>4, <2>5, ResultsExtend
  <2>7. Extends(h, next)
    BY <2>5, <2>6, ExtendsMore
  <2>8. request.status = "running" => ~next.complete /\ next.messages = h.messages
    BY <2>5, <2>6 DEF Extends
  <2> QED BY <1>2, <2>5, <2>6, <2>7, <2>8 DEF request, next, N
<1> QED BY <1>1, <1>2

LEMMA OpeningIs ==
  ASSUME NEW run
  PROVE  /\ Opening(run) \in HistoryType /\ Opening(run).complete
         /\ run.userMessage => Opening(run).messages = <<Message("user", NoRequest, "completed", NoReason, "settled")>>
         /\ ~run.userMessage => Opening(run).messages = <<>>
<1>1. Message("user", NoRequest, "completed", NoReason, "settled") \in MessageType
  BY DEF Message, MessageType
<1> QED BY <1>1 DEF Opening, HistoryType

\* Nothing of the request is undecided, so its part of the conversation can be written.
Decided(run, q) ==
  \/ Skipped(run.requests[q])
  \/ run.requests[q].status # "running" /\ \A i \in 1..run.requests[q].calls : ~Undecided(run, <<q[1], i>>)

LEMMA DecidedBuilds ==
  ASSUME NEW run \in RunType, \A q \in Requests : Decided(run, q)
  PROVE  RunHistory(run).complete
<1> DEFINE N == 2 * MaxStep
<1>0. N \in Nat /\ \A n \in 1..N : RequestOrder[n] \in Requests
  BY RequestOrderIs
<1>1. PICK f : Rounds(f, N, Opening(run), "history", run, RequestOrder) /\ RunHistory(run) = f[N]
  BY HistoryRounds
<1> HIDE DEF N
<1> DEFINE Good(n) == f[n] \in HistoryType /\ f[n].complete
           G == {n \in 0..N : Good(n)}
<1>2. Good(0)
  BY <1>1, OpeningIs DEF Rounds
<1>3. ASSUME NEW n \in 1..N, Good(n - 1) PROVE Good(n)
  <2>1. f[n] = SayRequest(run, f[n - 1], RequestOrder[n])
    BY <1>1 DEF Rounds, Round
  <2> DEFINE q == RequestOrder[n]
  <2>2. q \in Requests /\ Decided(run, q)
    BY <1>0
  <2> HIDE DEF q
  <2>3. Extends(f[n - 1], SayRequest(run, f[n - 1], q)) /\ SayRequest(run, f[n - 1], q).complete
    <3>1. CASE Skipped(run.requests[q])
      BY <1>3, <2>2, <3>1, SayRequestIs
    <3>2. CASE ~Skipped(run.requests[q])
      BY <1>3, <2>2, <3>2, SayRequestIs DEF Decided
    <3> QED BY <3>1, <3>2
  <2> QED BY <2>1, <2>3 DEF Extends, q
<1> HIDE DEF Good
<1>4. G \in SUBSET (0..N) /\ 0 \in G /\ \A n \in 1..N : n - 1 \in G => n \in G
  BY <1>0, <1>2, <1>3
<1>5. Good(N)
  <2> HIDE DEF G
  <2>1. N \in G
    BY <1>0, <1>4, EveryRound
  <2> QED BY <2>1 DEF G
<1> QED BY <1>1, <1>5 DEF Good

\* A run that is closed or was never started has nothing undecided.
LEMMA ClosedBuilds ==
  ASSUME NEW run, RunInv(run), TerminalIsClosed(run), run.status \notin LiveStatus, run.status = "absent" => run = AbsentRun
  PROVE  RunHistory(run).complete
<1>1. run \in RunType /\ run.status \in {"absent"} \cup TerminalStatus
  BY DEF RunInv, RunType
<1>2. ASSUME NEW q \in Requests PROVE Decided(run, q)
  <2>1. CASE run.status = "absent"
    <3>1. AbsentRun.requests[q].status = "absent"
      BY DEF AbsentRun
    <3> QED BY <2>1, <3>1 DEF Decided, Skipped
  <2>2. CASE run.status # "absent"
    <3>1. run.requests[q].status # "running" /\ \A t \in Calls : ~Undecided(run, t)
      BY <1>1, <2>2 DEF TerminalIsClosed, Settled, Undecided
    <3>2. \A i \in 1..run.requests[q].calls : <<q[1], i>> \in Calls
      BY <1>1, BoundsAssumption DEF RunType, RequestType, Requests, Calls, Slots
    <3> QED BY <3>1, <3>2 DEF Decided
  <2> QED BY <2>1, <2>2
<1> QED BY <1>1, <1>2, DecidedBuilds

(***************************************************************************)
(* A live run that is not blocked, with no request open and no successful  *)
(* response in its open step: every other step completed, so each call it  *)
(* declared was created and settled.                                       *)
(***************************************************************************)
LEMMA PausedBuilds ==
  ASSUME NEW run, RunInv(run), OutcomeInv(run), Told(run), run.blockedReason = NoReason,
         run.activeRequest = NoRequest,
         run.activeStep # 0 => \A a \in Attempts : run.requests[<<run.activeStep, a>>].status # "succeeded"
  PROVE  RunHistory(run).complete
<1>1. run \in RunType
  BY DEF RunInv
<1>2. \A q \in Requests : run.requests[q].status # "running"
  BY BoundsAssumption DEF RunInv, ActiveSetsAgree, Requests, Steps, NoRequest
<1>3. ASSUME NEW q \in Requests PROVE Decided(run, q)
  <2> DEFINE request == run.requests[q]
             k == q[1]
  <2>1. k \in Steps /\ q[2] \in Attempts /\ q = <<k, q[2]>> /\ request \in RequestType /\ k # 0
    BY <1>1 DEF Requests, RunType, Steps
  <2>2. CASE request.status # "succeeded"
    <3>1. request.calls = 0
      BY <2>2 DEF Told
    <3> QED BY <1>2, <3>1 DEF Decided
  <2>3. CASE request.status = "succeeded"
    <3>1. k # run.activeStep
      BY <2>1, <2>3
    <3>2. run.steps[k] = "completed"
      <4>1. run.steps[k] # "absent"
        BY <2>3 DEF RunInv, RequestHasStep
      <4>2. run.steps[k] # "running"
        BY <2>1, <3>1 DEF RunInv, ActiveSetsAgree
      <4>3. run.steps[k] \in {"absent", "running"} \cup TerminalStatus
        BY <1>1, <2>1 DEF RunType
      <4> QED BY <2>1, <4>1, <4>2, <4>3 DEF Told
    <3>3. LastRequest(run, k) = request
      <4>1. CASE q[2] = 1
        <5>1. run.requests[<<k, 2>>].status = "absent"
          BY <2>1, <2>3, <4>1 DEF RunInv, RetryIsRecovery
        <5> QED BY <2>1, <4>1, <5>1 DEF LastRequest, LastAttempt
      <4>2. CASE q[2] = 2
        BY <2>1, <2>3, <4>2 DEF LastRequest, LastAttempt
      <4> QED BY <2>1, <4>1, <4>2 DEF Attempts
    <3>4. ASSUME NEW i \in 1..request.calls PROVE ~Undecided(run, <<k, i>>)
      <4>1. i \in Slots /\ <<k, i>> \in Calls
        BY <2>1, BoundsAssumption DEF RequestType, Slots, Calls
      <4>2. run.tools[<<k, i>>].status # "absent"
        BY <2>1, <3>2, <3>3, <4>1 DEF OutcomeInv, StepsWhole, AllDeclaredCreated, Slots
      <4>3. ~IsOpen(run.tools[<<k, i>>])
        BY <3>1, <4>1 DEF RunInv, ActiveSetsAgree
      <4> QED BY <4>2, <4>3 DEF Undecided
    <3> QED BY <1>2, <3>4 DEF Decided
  <2> QED BY <2>2, <2>3
<1> QED BY <1>1, <1>3, DecidedBuilds

\* Whenever a request or a compaction may start, the conversation it is given can be written.
THEOREM HistoryBuildableCorrect ==
  RecoverySpec => []HistoryBuildable
<1>1. RecoveryInv => HistoryBuildable
  <2> SUFFICES ASSUME RecoveryInv, NEW r \in Runs, Active(r),
                      \/ \E k \in Steps, a \in Attempts : CanStartRequest(runs[r], k, a)
                      \/ \E trigger \in Triggers : CanStartCompaction(runs[r], trigger)
               PROVE  RequestBuilds
    BY DEF HistoryBuildable
  <2> DEFINE run == runs[r]
  <2>1. RunInv(run) /\ OutcomeInv(run) /\ Told(run)
    BY DEF RecoveryInv, OutcomesHold, SessionInv, Inv
  <2>2. /\ run.blockedReason = NoReason /\ run.activeRequest = NoRequest
        /\ run.activeStep # 0 => \A a \in Attempts : run.requests[<<run.activeStep, a>>].status # "succeeded"
    <3>1. ASSUME NEW k \in Steps, NEW a \in Attempts, CanStartRequest(run, k, a)
          PROVE  /\ run.blockedReason = NoReason /\ run.activeRequest = NoRequest
                 /\ run.activeStep = k
                 /\ run.requests[<<k, 1>>].status # "succeeded" /\ run.requests[<<k, 2>>].status # "succeeded"
      BY <3>1 DEF CanStartRequest, ValidAttempt, Dispatchable
    <3>2. ASSUME NEW trigger \in Triggers, CanStartCompaction(run, trigger)
          PROVE  /\ run.blockedReason = NoReason /\ run.activeRequest = NoRequest
                 /\ run.activeStep # 0 => /\ run.requests[<<run.activeStep, 1>>].status # "succeeded"
                                          /\ run.requests[<<run.activeStep, 2>>].status # "succeeded"
      BY <3>2 DEF CanStartCompaction, LastAttempt, LastRequest, Dispatchable
    <3> DEFINE Paused == /\ run.blockedReason = NoReason /\ run.activeRequest = NoRequest
                         /\ run.activeStep # 0 => /\ run.requests[<<run.activeStep, 1>>].status # "succeeded"
                                                  /\ run.requests[<<run.activeStep, 2>>].status # "succeeded"
    <3>3. (\E k \in Steps, a \in Attempts : CanStartRequest(run, k, a)) => Paused
      BY <3>1
    <3>4. (\E trigger \in Triggers : CanStartCompaction(run, trigger)) => Paused
      BY <3>2
    <3>5. Paused
      BY <3>3, <3>4
    <3> HIDE DEF run
    <3>6. \A a \in Attempts : a = 1 \/ a = 2
      BY DEF Attempts
    <3> QED BY <3>5, <3>6
  <2>3. RunHistory(run).complete
    BY <2>1, <2>2, PausedBuilds
  <2>4. ASSUME NEW s \in Runs, s # r PROVE RunHistory(runs[s]).complete
    <3>1. runs[s].status \notin LiveStatus
      BY <2>4 DEF RecoveryInv, OutcomesHold, SessionInv, OneLiveRun, Active
    <3>2. RunInv(runs[s]) /\ TerminalIsClosed(runs[s]) /\ (runs[s].status = "absent" => runs[s] = AbsentRun)
      BY DEF RecoveryInv, OutcomesHold, SessionInv, Inv, TerminalClosed
    <3> QED BY <3>1, <3>2, ClosedBuilds
  <2> QED BY <2>3, <2>4 DEF RequestBuilds
<1> QED BY <1>1, RecoveryInvariant, PTL

(***************************************************************************)
(* Two conversations of one run, before an event and after it.  As long as *)
(* the earlier one is complete they are the same; from the first message   *)
(* it does not know yet, it stands still and the later one may go on.      *)
(***************************************************************************)
Tracks(h, g) ==
  /\ h \in HistoryType /\ g \in HistoryType /\ Begins(h, g)
  /\ h.complete => g = h

LEMMA SayTracks ==
  ASSUME NEW h, NEW g, Tracks(h, g), NEW known \in BOOLEAN, NEW later \in BOOLEAN, known => later,
         NEW m \in MessageType, NEW n \in MessageType, known => n = m
  PROVE  Tracks(Say(h, known, m), Say(g, later, n))
<1> DEFINE h2 == Say(h, known, m)
           g2 == Say(g, later, n)
<1>1. /\ h2 \in HistoryType /\ g2 \in HistoryType /\ Begins(g, g2)
      /\ h2.complete <=> h.complete /\ known
      /\ ~(h.complete /\ known) => h2.messages = h.messages
  BY SayIs DEF Tracks
<1>2. CASE h.complete /\ known
  <2>1. g = h /\ n = m /\ known = TRUE /\ later = TRUE
    BY <1>2 DEF Tracks
  <2>2. g2 = h2
    BY <2>1
  <2> QED BY <1>1, <2>2, BeginsIs DEF Tracks
<1>3. CASE ~(h.complete /\ known)
  <2>1. Begins(h, g2)
    BY <1>1, BeginsIs DEF Tracks
  <2> HIDE DEF h2, g2
  <2>2. Begins(h2, g2)
    BY <1>1, <1>3, <2>1 DEF Begins
  <2>3. ~h2.complete
    BY <1>1, <1>3
  <2> QED BY <1>1, <2>2, <2>3 DEF Tracks, h2, g2
<1> QED BY <1>2, <1>3

\* What the earlier record says of a call, once it says anything, the later one says too.
SameResult(run, next, t) ==
  ~Undecided(run, t) => ~Undecided(next, t) /\ ToolMessage(next, t) = ToolMessage(run, t)

LEMMA ResultsTrack ==
  ASSUME NEW run \in RunType, NEW next \in RunType, NEW k \in Steps, NEW N \in 0..MaxCall,
         NEW h, NEW g, Tracks(h, g),
         \A i \in 1..N : SameResult(run, next, <<k, i>>),
         NEW e, Rounds(e, N, h, "results", <<run, k>>, Declared(N)),
         NEW f, Rounds(f, N, g, "results", <<next, k>>, Declared(N))
  PROVE  Tracks(e[N], f[N])
<1> DEFINE Good(n) == Tracks(e[n], f[n])
           G == {n \in 0..N : Good(n)}
<1>0. N \in Nat /\ MaxCall \in Nat
  BY BoundsAssumption
<1>1. Good(0)
  BY DEF Rounds
<1>2. ASSUME NEW n \in 1..N, Good(n - 1) PROVE Good(n)
  <2> DEFINE t == <<k, n>>
             known == ~Undecided(run, t)
             later == ~Undecided(next, t)
  <2>1. t \in Calls
    BY <1>0 DEF Calls, Slots
  <2>2. e[n] = SayCall(run, e[n - 1], t) /\ f[n] = SayCall(next, f[n - 1], t)
    BY DEF Rounds, Round, Declared
  <2>3. known \in BOOLEAN /\ later \in BOOLEAN
    BY DEF Undecided
  <2>4. known => later /\ ToolMessage(next, t) = ToolMessage(run, t)
    BY DEF SameResult
  <2>5. /\ e[n] = Say(e[n - 1], known, ToolMessage(run, t))
        /\ f[n] = Say(f[n - 1], later, ToolMessage(next, t))
    BY <2>2 DEF SayCall
  <2>6. ToolMessage(run, t) \in MessageType /\ ToolMessage(next, t) \in MessageType
    BY <2>1, ToolMessageType
  <2> HIDE DEF known, later, t
  <2> QED BY <1>2, <2>3, <2>4, <2>5, <2>6, SayTracks
<1> HIDE DEF Good
<1>3. G \in SUBSET (0..N) /\ 0 \in G /\ \A n \in 1..N : n - 1 \in G => n \in G
  BY <1>0, <1>1, <1>2
<1>4. Good(N)
  <2> HIDE DEF G
  <2>1. N \in G
    BY <1>0, <1>3, EveryRound
  <2> QED BY <2>1 DEF G
<1> QED BY <1>4 DEF Good

\* A settled request: both tell it, as far as the earlier one can.
LEMMA RequestTracks ==
  ASSUME NEW run \in RunType, NEW next \in RunType, NEW q \in Requests, NEW h, NEW g, Tracks(h, g),
         next.requests[q] = run.requests[q],
         \A i \in 1..run.requests[q].calls : SameResult(run, next, <<q[1], i>>)
  PROVE  Tracks(SayRequest(run, h, q), SayRequest(next, g, q))
<1> DEFINE request  == run.requests[q]
           message  == Message("assistant", q, request.status, request.reason, "settled")
           first    == Say(h, request.status # "running", message)
           second   == Say(g, request.status # "running", message)
           N        == request.calls
<1>1. CASE Skipped(request)
  BY <1>1 DEF SayRequest
<1>2. CASE ~Skipped(request)
  <2>1. request \in RequestType /\ N \in 0..MaxCall /\ N \in Nat /\ q[1] \in Steps
    BY BoundsAssumption DEF RunType, RequestType, Requests
  <2>2. message \in MessageType
    BY <2>1 DEF Message, MessageType, RequestType, TerminalCall
  <2>3. PICK e : Rounds(e, N, first, "results", <<run, q[1]>>, Declared(N)) /\ SayRequest(run, h, q) = e[N]
    <3>1. N = run.requests[q].calls /\ N \in Nat /\ ~Skipped(run.requests[q])
      BY <1>2, <2>1
    <3> HIDE DEF N
    <3> QED BY <3>1, ResultRounds
  <2>4. PICK f : Rounds(f, N, second, "results", <<next, q[1]>>, Declared(N)) /\ SayRequest(next, g, q) = f[N]
    <3>1. N = next.requests[q].calls /\ N \in Nat /\ ~Skipped(next.requests[q]) /\ request = next.requests[q]
      BY <1>2, <2>1
    <3> HIDE DEF N, request
    <3> QED BY <3>1, ResultRounds
  <2>5. Tracks(first, second)
    <3>1. (request.status # "running") \in BOOLEAN
      OBVIOUS
    <3> QED BY <2>2, <3>1, SayTracks
  <2> HIDE DEF message, first, second
  <2>6. \A i \in 1..N : SameResult(run, next, <<q[1], i>>)
    OBVIOUS
  <2> HIDE DEF N
  <2> QED BY <2>1, <2>3, <2>4, <2>5, <2>6, ResultsTrack
<1> QED BY <1>1, <1>2

LEMMA RequestOrderRises ==
  ASSUME NEW n \in 1..(2 * MaxStep), NEW m \in 1..(2 * MaxStep), n < m
  PROVE  Later(RequestOrder[m], RequestOrder[n])
<1>1. /\ RequestOrder[n] = <<(n + 1) \div 2, 2 - (n % 2)>>
      /\ RequestOrder[m] = <<(m + 1) \div 2, 2 - (m % 2)>>
  BY DEF RequestOrder
<1>2. \/ (m + 1) \div 2 > (n + 1) \div 2
      \/ (m + 1) \div 2 = (n + 1) \div 2 /\ 2 - (m % 2) > 2 - (n % 2)
  BY BoundsAssumption
<1> QED BY <1>1, <1>2 DEF Later

\* What an event may do to a run, as far as the conversation goes.
Continues(run, next) ==
  /\ run \in RunType /\ next \in RunType
  /\ Told(run) /\ RequestHasStep(run)
  /\ Frozen(run, next) /\ Fresh(run, next)
  /\ \/ run.status \in LiveStatus \/ next = run
     \/ \A q \in Requests : run.requests[q].status = "absent"

LEMMA SameResults ==
  ASSUME NEW run, NEW next, Continues(run, next), run.status \in LiveStatus \/ next = run, NEW t \in Calls
  PROVE  SameResult(run, next, t)
<1>0. CASE next = run
  BY <1>0 DEF SameResult
<1> SUFFICES ASSUME run.status \in LiveStatus, ~Undecided(run, t)
             PROVE  ~Undecided(next, t) /\ ToolMessage(next, t) = ToolMessage(run, t)
  BY <1>0 DEF SameResult
<1>1. run.tools[t].status \in TerminalCall
  BY DEF Undecided, IsOpen, Continues, RunType, CallType
<1>2. next.tools[t] = run.tools[t]
  BY <1>1 DEF Continues, Frozen
<1>3. run.tools[t].status # "absent" /\ run.tools[t].status \notin OpenCall
  BY <1>1 DEF TerminalCall, OpenCall
<1> QED BY <1>2, <1>3 DEF Undecided, IsOpen, ToolMessage

\* The earlier record has no request after the first n.
Ended(run, n) == \A m \in (n + 1)..(2 * MaxStep) : run.requests[RequestOrder[m]].status = "absent"

\* The conversations after n requests.
Abreast(run, n, h, g) ==
  /\ h \in HistoryType /\ g \in HistoryType /\ Begins(h, g)
  /\ h.complete => g = h \/ Ended(run, n)

LEMMA RoundKeepsAbreast ==
  ASSUME NEW run, NEW next, Continues(run, next), NEW n \in 1..(2 * MaxStep),
         NEW h, NEW g, Abreast(run, n - 1, h, g)
  PROVE  Abreast(run, n, SayRequest(run, h, RequestOrder[n]), SayRequest(next, g, RequestOrder[n]))
<1> DEFINE q  == RequestOrder[n]
           h2 == SayRequest(run, h, q)
           g2 == SayRequest(next, g, q)
           N  == 2 * MaxStep
<1> SUFFICES Abreast(run, n, h2, g2)
  OBVIOUS
<1>0. N \in Nat /\ q \in Requests /\ run \in RunType /\ next \in RunType
  BY RequestOrderIs DEF Continues
<1>1. h \in HistoryType /\ g \in HistoryType /\ Begins(h, g)
  BY DEF Abreast
<1>2. Extends(h, h2) /\ Extends(g, g2)
  BY <1>0, <1>1, SayRequestIs
<1>3. h2 \in HistoryType /\ g2 \in HistoryType /\ Begins(h, g2)
  <2> HIDE DEF h2, g2
  <2> QED BY <1>1, <1>2, BeginsIs DEF Extends
<1>4. Ended(run, n - 1) => Ended(run, n) /\ run.requests[q].status = "absent"
  <2> SUFFICES ASSUME Ended(run, n - 1) PROVE Ended(run, n) /\ run.requests[q].status = "absent"
    OBVIOUS
  <2>1. n \in ((n - 1) + 1)..(2 * MaxStep) /\ (n + 1)..(2 * MaxStep) \subseteq ((n - 1) + 1)..(2 * MaxStep)
    BY <1>0
  <2> QED BY <2>1 DEF Ended
\* Nothing new of the earlier one: it stands where it stood.
<1>5. ASSUME h2.messages = h.messages, ~h2.complete \/ Ended(run, n)
      PROVE  Abreast(run, n, h2, g2)
  <2> HIDE DEF h2, g2
  <2>1. Begins(h2, g2)
    BY <1>3, <1>5 DEF Begins
  <2> QED BY <1>3, <1>5, <2>1 DEF Abreast
<1>6. CASE run.requests[q].status = "absent"
  <2>1. h2 = h
    BY <1>0, <1>1, <1>6, SayRequestIs DEF Skipped
  <2>2. CASE next.requests[q].status = "absent"
    <3>1. g2 = g
      BY <1>0, <1>1, <2>2, SayRequestIs DEF Skipped
    <3> HIDE DEF h2, g2, q
    <3> QED BY <1>4, <2>1, <3>1 DEF Abreast
  <2>3. CASE next.requests[q].status # "absent"
    <3>1. \A p \in Requests : Later(p, q) => run.requests[p].status = "absent"
      BY <1>0, <1>6, <2>3 DEF Continues, Fresh
    <3>2. ASSUME NEW m \in (n + 1)..(2 * MaxStep) PROVE run.requests[RequestOrder[m]].status = "absent"
      <4>1. m \in 1..(2 * MaxStep) /\ n < m
        BY <1>0
      <4>2. RequestOrder[m] \in Requests /\ Later(RequestOrder[m], q)
        BY <4>1, RequestOrderIs, RequestOrderRises
      <4> QED BY <3>1, <4>2
    <3>3. Ended(run, n)
      BY <3>2 DEF Ended
    <3> QED BY <1>5, <2>1, <3>3
  <2> QED BY <2>2, <2>3
<1>7. CASE run.requests[q].status = "running"
  <2>1. ~Skipped(run.requests[q]) /\ run.requests[q].calls = 0
    BY <1>0, <1>7 DEF Continues, Told, Skipped
  <2>2. ~h2.complete /\ h2.messages = h.messages
    BY <1>0, <1>1, <1>7, <2>1, SayRequestIs
  <2> QED BY <1>5, <2>2
<1>8. CASE run.requests[q].status \notin {"absent", "running"}
  <2>1. next.requests[q] = run.requests[q] /\ (run.status \in LiveStatus \/ next = run)
    BY <1>0, <1>8 DEF Continues, Frozen
  <2>2. \A i \in 1..run.requests[q].calls : SameResult(run, next, <<q[1], i>>)
    <3>1. \A i \in 1..run.requests[q].calls : <<q[1], i>> \in Calls
      <4>1. run.requests[q].calls \in 0..MaxCall /\ q[1] \in Steps
        BY <1>0 DEF RunType, RequestType, Requests
      <4> QED BY <4>1, BoundsAssumption DEF Calls, Slots
    <3> QED BY <2>1, <3>1, SameResults
  <2>3. Tracks(h, g)
    BY <1>1, <1>4, <1>8 DEF Abreast, Tracks
  <2>4. Tracks(h2, g2)
    BY <1>0, <2>1, <2>2, <2>3, RequestTracks
  <2> HIDE DEF h2, g2
  <2> QED BY <2>4 DEF Tracks, Abreast
<1> QED BY <1>6, <1>7, <1>8

LEMMA OpeningsAbreast ==
  ASSUME NEW run, NEW next, Continues(run, next)
  PROVE  Abreast(run, 0, Opening(run), Opening(next))
<1> DEFINE h == Opening(run)
           g == Opening(next)
<1>1. h \in HistoryType /\ g \in HistoryType
  BY OpeningIs
<1>2. CASE run.userMessage
  <2>1. g = h
    BY <1>2 DEF Opening, Continues, Fresh
  <2> HIDE DEF h, g
  <2> QED BY <1>1, <2>1, BeginsIs DEF Abreast, h, g
<1>3. CASE ~run.userMessage
  <2>1. \A q \in Requests : run.requests[q].status = "absent"
    BY <1>3 DEF Continues, Told, RequestHasStep, Requests
  <2>2. Ended(run, 0)
    BY <2>1, RequestOrderIs DEF Ended
  <2>3. h.messages = <<>>
    BY <1>3, OpeningIs
  <2>4. Begins(h, g)
    <3>1. Len(g.messages) \in Nat
      BY <1>1 DEF HistoryType
    <3> HIDE DEF h, g
    <3> QED BY <2>3, <3>1 DEF Begins
  <2> QED BY <1>1, <2>2, <2>4 DEF Abreast
<1> QED BY <1>2, <1>3

LEMMA HistoryContinues ==
  ASSUME NEW run, NEW next, Continues(run, next)
  PROVE  IsPrefix(RunHistory(run).messages, RunHistory(next).messages)
<1> DEFINE N == 2 * MaxStep
<1>0. N \in Nat
  BY RequestOrderIs
<1>1. PICK e : Rounds(e, N, Opening(run), "history", run, RequestOrder) /\ RunHistory(run) = e[N]
  BY HistoryRounds
<1>2. PICK f : Rounds(f, N, Opening(next), "history", next, RequestOrder) /\ RunHistory(next) = f[N]
  BY HistoryRounds
<1> DEFINE Good(n) == Abreast(run, n, e[n], f[n])
           G == {n \in 0..N : Good(n)}
<1>3. Good(0)
  BY <1>1, <1>2, OpeningsAbreast DEF Rounds
<1>4. ASSUME NEW n \in 1..N, Good(n - 1) PROVE Good(n)
  <2>1. e[n] = SayRequest(run, e[n - 1], RequestOrder[n]) /\ f[n] = SayRequest(next, f[n - 1], RequestOrder[n])
    BY <1>1, <1>2 DEF Rounds, Round
  <2> QED BY <1>4, <2>1, RoundKeepsAbreast
<1> HIDE DEF Good, N
<1>5. G \in SUBSET (0..N) /\ 0 \in G /\ \A n \in 1..N : n - 1 \in G => n \in G
  BY <1>0, <1>3, <1>4
<1>6. Good(N)
  <2> HIDE DEF G
  <2>1. N \in G
    BY <1>0, <1>5, EveryRound
  <2> QED BY <2>1 DEF G
<1> QED BY <1>1, <1>2, <1>6, BeginsIs DEF Good, Abreast

\* Through every event, cancellation, crash and recovery, what was once told is only ever continued.
THEOREM HistoryOnlyGrowsCorrect ==
  RecoverySpec => HistoryOnlyGrows
<1>1. RecoveryInv /\ [RecoveryNext]_vars =>
        [\A r \in Runs : IsPrefix(RunHistory(runs[r]).messages, RunHistory(runs'[r]).messages)]_vars
  <2> SUFFICES ASSUME RecoveryInv, [RecoveryNext]_vars, NEW r \in Runs
               PROVE  IsPrefix(RunHistory(runs[r]).messages, RunHistory(runs'[r]).messages)
    OBVIOUS
  <2>1. RecoveryInv' /\ Steady /\ Fresh(runs[r], runs'[r])
    BY NextRecovery
  <2>2. RunInv(runs[r]) /\ RunInv(runs'[r]) /\ Told(runs[r]) /\ Frozen(runs[r], runs'[r])
    BY <2>1 DEF RecoveryInv, OutcomesHold, SessionInv, Inv, Steady
  <2>3. \/ runs[r].status \in LiveStatus \/ runs'[r] = runs[r]
        \/ \A q \in Requests : runs[r].requests[q].status = "absent"
    <3>1. runs[r].status \in {"absent"} \cup LiveStatus \cup TerminalStatus
      BY <2>2 DEF RunInv, RunType
    <3>2. runs[r].status = "absent" => runs[r] = AbsentRun
      BY DEF RecoveryInv, OutcomesHold, SessionInv
    <3>3. \A q \in Requests : AbsentRun.requests[q].status = "absent"
      BY DEF AbsentRun
    <3>4. runs[r].status \in TerminalStatus => runs'[r] = runs[r]
      BY <2>1 DEF Steady
    <3> QED BY <3>1, <3>2, <3>3, <3>4
  <2>4. Continues(runs[r], runs'[r])
    BY <2>1, <2>2, <2>3 DEF Continues, RunInv
  <2> QED BY <2>4, HistoryContinues
<1> QED BY <1>1, RecoveryInvariant, PTL DEF RecoverySpec, HistoryOnlyGrows
================================================================================
