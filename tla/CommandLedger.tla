------------------------------ MODULE CommandLedger ------------------------------
(***************************************************************************)
(* What the store promises about commands (docs/event-store.md, "Commands  *)
(* and receipts"): a command identity takes effect at most once in its     *)
(* scope, together with its receipt; every answer anybody gets is the      *)
(* recorded one, however often and over however many restarts it is asked  *)
(* for; a run exists because one submission made it.  Deletion forgets     *)
(* sessions whole.  StoreWorker is shown to implement it (LedgerSpec).     *)
(***************************************************************************)
EXTENDS Integers, Functions

VARIABLES
  effects,  \* <<scope, identity>> -> [command, ack]
  made,     \* the runs that exist
  replies   \* the effects reported and not yet read

vars == <<effects, made, replies>>

Init == effects = [k \in {} |-> k] /\ made = {} /\ replies = {}

\* A report stays until it is read, or is lost.
Reported(S) == replies' \subseteq replies \cup S

\* A submission makes the run its receipt names, any other command none.
Take(k, effect) ==
  /\ k \notin DOMAIN effects
  /\ effects' = [key \in DOMAIN effects \cup {k} |-> IF key = k THEN effect ELSE effects[key]]
  /\ made' = IF effect.command.type = "run.submit" THEN made \cup {effect.ack.run} ELSE made
  /\ effect.command.type = "run.submit" => effect.ack.run \notin made
  /\ Reported({effect})

Report == Reported({effects[k] : k \in DOMAIN effects}) /\ UNCHANGED <<effects, made>>

\* Every effect on the sessions of S goes, their creation included.
Forget(S) ==
  /\ effects' = Restrict(effects, {k \in DOMAIN effects : effects[k].ack.session \notin S})
  /\ made' = {run \in made : run[1] \notin S}
  /\ Reported({})

Next ==
  \/ \E k \in DOMAIN effects' : Take(k, effects'[k])
  \/ Report
  \/ \E S \in SUBSET {effects[k].ack.session : k \in DOMAIN effects} : Forget(S)

Spec == Init /\ [][Next]_vars
=============================================================================
