------------------------------ MODULE EffectLedger ------------------------------
(***************************************************************************)
(* What a step's tool calls promise, whoever drives them: a call is        *)
(* declared, held until it is let through, and either refused, or          *)
(* dispatched and settled in the order of declaration.  A call takes       *)
(* effect at most once, after its dispatch and before its result: the      *)
(* count of its effects is kept, so that a second effect, or one after the *)
(* call is settled, is no step of this ledger.  Only a call whose gate the *)
(* user opened, or that has none, is dispatched; only parallel calls share *)
(* the workspace; only what took effect may succeed.                       *)
(*                                                                         *)
(* This is the reading of docs/tool-execution.md that agent-loop.ts,         *)
(* tool-service.ts and reducer.ts together must implement; AgentLoop is    *)
(* shown to (its property Ledger).                                         *)
(***************************************************************************)
EXTENDS Integers

CONSTANT Calls   \* pairs <<step, slot>>

VARIABLES
  phase,     \* "undeclared", "held", "refused", "dispatched", "succeeded" or "settled"
  gate,      \* "open", "shut" (a decision is needed) or "decided"
  parallel,  \* the calls that may share the workspace
  effects    \* how often each call took effect

vars == <<phase, gate, parallel, effects>>

Before(t) == {u \in Calls : u[1] = t[1] /\ u[2] < t[2]}
InFlight  == {u \in Calls : phase[u] = "dispatched"}
Closed(u) == phase[u] \in {"refused", "succeeded", "settled"}

Init ==
  /\ phase = [t \in Calls |-> "undeclared"]
  /\ gate = [t \in Calls |-> "open"]
  /\ parallel = {}
  /\ effects = [t \in Calls |-> 0]

Move(t, to) == phase' = [phase EXCEPT ![t] = to]
Same == UNCHANGED <<gate, parallel, effects>>

Declare(t) ==
  /\ phase[t] = "undeclared"
  /\ \A u \in Before(t) : phase[u] # "undeclared"
  /\ Move(t, "held")
  /\ gate' \in {[gate EXCEPT ![t] = g] : g \in {"open", "shut"}}
  /\ parallel' \in {parallel, parallel \cup {t}}
  /\ UNCHANGED effects

Allow(t) ==
  /\ phase[t] = "held" /\ gate[t] = "shut"
  /\ gate' = [gate EXCEPT ![t] = "decided"]
  /\ UNCHANGED <<phase, parallel, effects>>

Refuse(t) ==
  /\ phase[t] = "held"
  /\ \A u \in Before(t) : Closed(u)
  /\ Move(t, "refused") /\ Same

Dispatch(t) ==
  /\ phase[t] = "held" /\ gate[t] # "shut"
  /\ \A u \in Before(t) : Closed(u) \/ u \in InFlight
  /\ InFlight # {} => InFlight \cup {t} \subseteq parallel
  /\ Move(t, "dispatched") /\ Same

Apply(t) ==
  /\ phase[t] = "dispatched" /\ effects[t] = 0
  /\ effects' = [effects EXCEPT ![t] = 1]
  /\ UNCHANGED <<phase, gate, parallel>>

Settle(t) ==
  /\ t \in InFlight
  /\ \A u \in Before(t) : Closed(u)
  /\ Move(t, "settled") \/ (effects[t] = 1 /\ Move(t, "succeeded"))
  /\ Same

Next == \E t \in Calls : Declare(t) \/ Allow(t) \/ Refuse(t) \/ Dispatch(t) \/ Apply(t) \/ Settle(t)

Spec == Init /\ [][Next]_vars
=============================================================================
