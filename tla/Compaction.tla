------------------------------ MODULE Compaction ------------------------------
(***************************************************************************)
(* What the model is shown of a long session: context-compaction.ts        *)
(* buildCompactionPlan, the checkpoint it leads to, and the way            *)
(* buildModelHistory (history.ts) hides what a checkpoint summarises.  A   *)
(* session has several runs and any number of compactions; the loop awaits *)
(* the provider's summary, and the process may die meanwhile.              *)
(*                                                                         *)
(* A message is a user's, a request's answer or one of its calls' results, *)
(* each one token long; when compaction starts every call is settled       *)
(* (ModelHistory).  Texts, facts and measured sizes are left out: whether  *)
(* the summary meets the target is any choice.                             *)
(***************************************************************************)
EXTENDS SequencesExt, Integers

CONSTANTS
  MaxChatRuns,   \* bound: runs of the session
  MaxRequests,   \* bound: answered requests of a run
  MaxResults,    \* bound: calls of a request
  RetainTokens   \* policy.retainRawTokens

ASSUME ChatAssumption == {MaxChatRuns, MaxRequests, MaxResults, RetainTokens} \subseteq Nat

VARIABLES
  log,         \* every message of the session, in order
  chatRuns,    \* "absent", "live", "closed", or "blocked": interrupted or with a blockedReason
  checkpoint,  \* the last succeeded compaction: shadowed_run_ids and shadowed_request_ids
  plan,        \* the plan whose summary is awaited, or NoPlan
  covered,     \* the messages some summary in force has read, itself or through an older one
  told         \* the messages the next request was measured with, and what came since

chatVars == <<log, chatRuns, checkpoint, plan, covered, told>>

NoCheckpoint == [present |-> FALSE, runs |-> {}, requests |-> {}]
NoPlan       == [selected |-> <<>>, retained |-> <<>>, tokens |-> 0]

\* The result numbered i of the n-th request of run r; zero where a message has no request or call.
Chat(role, r, n, i) == [role |-> role, run |-> r, request |-> n, result |-> i]
Summary == Chat("system", 0, 0, 0)

ChatInit ==
  /\ log = <<>> /\ told = <<>> /\ covered = {}
  /\ chatRuns = [r \in 1..MaxChatRuns |-> "absent"]
  /\ checkpoint = NoCheckpoint /\ plan = NoPlan

-----------------------------------------------------------------------------
(***************************************************************************)
(* buildModelHistory: a run's identity hides its user message, a request's *)
(* its answer and results.                                                 *)
(***************************************************************************)
IsShown(m) ==
  IF m.role = "user" THEN m.run \notin checkpoint.runs ELSE <<m.run, m.request>> \notin checkpoint.requests

Show(messages, m) == IF IsShown(m) THEN Append(messages, m) ELSE messages

History == FoldLeft(Show, IF checkpoint.present THEN <<Summary>> ELSE <<>>, log)

Answers(m, result) == m.role = "assistant" /\ m.run = result.run /\ m.request = result.request

\* A result stays with its answer.
Grouped(messages) ==
  FoldLeft(LAMBDA groups, m :
             IF m.role = "tool" /\ groups # <<>> /\ \E a \in ToSet(Last(groups)) : Answers(a, m)
             THEN [groups EXCEPT ![Len(groups)] = Append(@, m)]
             ELSE Append(groups, <<m>>),
           <<>>, messages)

\* The current run, and any an operator may still have to look at.
Protected(group) == chatRuns[group[1].run] \in {"live", "blocked"}

\* An older checkpoint is kept as the messages are.
FaultyKept(group, tokens) == group = <<Summary>> \/ Protected(group) \/ tokens < RetainTokens

Kept(group, tokens) == group # <<Summary>> /\ (Protected(group) \/ tokens < RetainTokens)

Split(group, split) ==
  IF Kept(group, split.tokens)
  THEN [split EXCEPT !.retained = group \o @,
                     !.tokens = IF group # <<Summary>> /\ Protected(group) THEN @ ELSE @ + Len(group)]
  ELSE [split EXCEPT !.selected = group \o @]

\* From the newest group back; nothing selected is no plan.
BuildPlan == FoldRight(Split, Grouped(History), NoPlan)

Checkpoint(p) ==
  [present  |-> TRUE,
   runs     |-> checkpoint.runs \cup {m.run : m \in {s \in ToSet(p.selected) :
                                                       s.role = "user" /\ chatRuns[s.run] # "live"}},
   requests |-> checkpoint.requests \cup {<<m.run, m.request>> : m \in {s \in ToSet(p.selected) :
                                                                        s.role \in {"assistant", "tool"}}}]

\* projectedRequestAfterCompaction: what is measured against the target.
Projected(p) == <<Summary>> \o p.retained

-----------------------------------------------------------------------------
Live == {r \in DOMAIN chatRuns : chatRuns[r] = "live"}
Begun == {r \in DOMAIN chatRuns : chatRuns[r] # "absent"}
Awaited == plan # NoPlan

Says(messages) == log' = log \o messages /\ told' = told \o messages

UserSays(r) ==
  /\ Live = {} /\ Begun = 1..(r - 1)
  /\ chatRuns' = [chatRuns EXCEPT ![r] = "live"]
  /\ Says(<<Chat("user", r, 0, 0)>>)
  /\ UNCHANGED <<checkpoint, plan, covered>>

\* A step is over: its request was answered and its calls are settled.
StepEnds(r, calls) ==
  /\ r \in Live /\ ~Awaited
  /\ LET n == 1 + Cardinality({m \in ToSet(log) : m.role = "assistant" /\ m.run = r})
     IN /\ n <= MaxRequests
        /\ Says(<<Chat("assistant", r, n, 0)>> \o [i \in 1..calls |-> Chat("tool", r, n, i)])
  /\ UNCHANGED <<chatRuns, checkpoint, plan, covered>>

StartsCompaction(r) ==
  /\ r \in Live /\ ~Awaited
  /\ BuildPlan.selected # <<>>
  /\ plan' = BuildPlan
  /\ UNCHANGED <<log, chatRuns, checkpoint, covered, told>>

CompactionDone ==
  /\ Awaited
  /\ checkpoint' = Checkpoint(plan) /\ told' = Projected(plan)
  /\ covered' = ToSet(plan.selected) \cup (IF Summary \in ToSet(plan.selected) THEN covered ELSE {})
  /\ plan' = NoPlan
  /\ UNCHANGED <<log, chatRuns>>

\* No summary, or one that misses the target.
CompactionGivesUp == Awaited /\ plan' = NoPlan /\ UNCHANGED <<log, chatRuns, checkpoint, covered, told>>

RunEnds(r) ==
  /\ r \in Live /\ ~Awaited
  /\ \E status \in {"closed", "blocked"} : chatRuns' = [chatRuns EXCEPT ![r] = status]
  /\ UNCHANGED <<log, checkpoint, plan, covered, told>>

\* The process dies and recovery interrupts the run, its compaction with it.
Interrupts(r) ==
  /\ r \in Live
  /\ chatRuns' = [chatRuns EXCEPT ![r] = "blocked"] /\ plan' = NoPlan
  /\ UNCHANGED <<log, checkpoint, covered, told>>

ChatNext ==
  \/ \E r \in 1..MaxChatRuns :
       \/ UserSays(r) \/ StartsCompaction(r) \/ RunEnds(r) \/ Interrupts(r)
       \/ \E calls \in 0..MaxResults : StepEnds(r, calls)
  \/ CompactionDone \/ CompactionGivesUp

\* The provider is answered or times out (ModelStream), and the loop records it.
ChatFairness == WF_chatVars(CompactionDone \/ CompactionGivesUp)

-----------------------------------------------------------------------------
(***************************************************************************)
(* However many compactions a session goes through: the next request shows *)
(* what was measured when the last one was accepted, and what came since;  *)
(* a message no longer shown was read by the summary in force, directly or *)
(* through the summaries before it; and nothing of a run that is going on, *)
(* was interrupted or is blocked is ever summarised away.                  *)
(***************************************************************************)
SummaryCovers ==
  /\ History = told
  /\ \A m \in ToSet(log) : IsShown(m) \/ m \in covered
  /\ \A m \in ToSet(log) : chatRuns[m.run] \in {"live", "blocked"} => IsShown(m)
=============================================================================
