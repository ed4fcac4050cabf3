------------------------------ MODULE MCReplay ------------------------------
(* The loader over entries chosen so that runs interleave, repeat,          *)
(* contradict and close scopes, and parents form trees, gaps and cycles;    *)
(* and over the files of two processes.                                     *)
EXTENDS SavedJournal, ReplayQueries

Scope(id, parent, exited, message) ==
    [id |-> id, parent |-> parent, about |-> "name", exited |-> exited, message |-> message]
Metadata(run, s)    == [run |-> run, scope |-> s, record |-> None]
Event(id, s, body)  == [id |-> id, scope |-> s, exit |-> None, body |-> body]
ExitOf(id, s, how)  == [id |-> id, scope |-> s, exit |-> how, body |-> "exit"]
End(outcome, duration) == [outcome |-> outcome, duration |-> duration]
Plain(run, r)       == [run |-> run, scope |-> None, record |-> r]

Links == {<<1, 2>>, <<2, 1>>, <<2, 3>>, <<3, 2>>, <<3, 1>>}

MCLines ==
    {Metadata("a", Scope(l[1], l[2], None, None)) : l \in Links}
    \cup {Metadata("a", Scope(1, 2, "noon", "bye")), Metadata("a", Scope(1, 2, "one", None)),
          Metadata("a", Scope(1, 2, None, "hi"))}
    \cup {Plain("a", Event(1, None, "x")), Plain("a", Event(1, None, "y")),
          Plain("a", ExitOf(1, 1, End("success", 5))), Plain("a", ExitOf(2, 1, End("failure", 7))),
          [run |-> "a", scope |-> Scope(3, None, None, None), record |-> Event(2, 3, "x")],
          [run |-> "a", scope |-> Scope(1, 2, "noon", "ciao"), record |-> Event(1, 1, "y")],
          Plain("b", Event(1, 1, "x"))}
    \cup {Plain("old", Event(1, None, "x")), Metadata("old", Scope(1, None, None, None)),
          Plain("old", ExitOf(1, 1, End("failure", 5)))}

MCRunIds == <<"first", "second">>

(* A header, an unversioned line, a line of a later version that would be   *)
(* record 0 of the first process, lines that are not understood.            *)
Later == [version |-> 2, run |-> "first", type |-> "event", id |-> 0, scope_id |-> 7,
          exit |-> None, body |-> "later", scope |-> None]
MCForeign ==
    <<Header, Later, [type |-> "event", id |-> 0, scope_id |-> None, exit |-> None,
                      body |-> "old", scope |-> None],
      [Later EXCEPT !.version = None], [Later EXCEPT !.version = 1, !.type = "summary"],
      [Later EXCEPT !.version = 1, !.scope = Scope(8, None, None, None)],
      [version |-> 1, type |-> "scope", scope |-> Scope(7, None, None, None)],
      [Later EXCEPT !.version = 1, !.type = "scope_exit", !.scope_id = None]>>
=============================================================================
