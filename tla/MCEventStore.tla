------------------------------ MODULE MCEventStore ------------------------------
(***************************************************************************)
(* Small instances of EventStore: one session, two requests at a time.     *)
(***************************************************************************)
EXTENDS EventStore

Command(type, id, session, run) == [type |-> type, id |-> id, session |-> session, run |-> run, root |-> <<"w">>]

MCCommands ==
  {Command("session.create", "a", 0, NoRun), Command("run.submit", "a", 1, NoRun), Command("run.submit", "b", 1, NoRun),
   Command("run.cancel", "c", 1, <<1, 1>>)}
=============================================================================
