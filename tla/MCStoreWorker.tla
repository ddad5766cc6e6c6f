------------------------------ MODULE MCStoreWorker ------------------------------
(***************************************************************************)
(* Small instances of StoreWorker.  A root is the sequence of its path's    *)
(* names; of two sessions' workspaces one lies inside the other.  Within a *)
(* session the identity "b" is used for two different commands.            *)
(***************************************************************************)
EXTENDS StoreWorker

Nested == {<<"w">>, <<"w", "sub">>}

Command(type, id, session, run, root) ==
  [type |-> type, id |-> id, session |-> session, run |-> run, root |-> root]

Creates == {Command("session.create", "a", 0, NoRun, <<"w">>), Command("session.create", "b", 0, NoRun, <<"w", "sub">>)}

OnSession(s) == {Command("run.submit", "a", s, NoRun, <<>>), Command("workspace.blocker.resolve", "b", s, NoRun, <<>>),
                 Command("run.submit", "b", s, NoRun, <<>>), Command("run.cancel", "c", s, <<s, 1>>, <<>>)}

MCCommands == Creates \cup UNION {OnSession(s) : s \in Sessions}
=============================================================================
