------------------------------- MODULE MCSecurity -------------------------------
(***************************************************************************)
(* Plans of security tests that meet what the executor tells apart: tests  *)
(* it must ask for, tests out of scope, flagged tests and one it cannot    *)
(* build.                                                                  *)
(***************************************************************************)
EXTENDS SecurityRun

Plain(id)   == [id |-> id, writes |-> FALSE, sensitive |-> FALSE, requires_confirmation |-> FALSE,
                in_scope |-> TRUE, buildable |-> TRUE]
Outside(id) == [Plain(id) EXCEPT !.in_scope = FALSE]
Writing(id) == [Plain(id) EXCEPT !.writes = TRUE, !.sensitive = TRUE]
Flagged(id) == [Plain(id) EXCEPT !.requires_confirmation = TRUE]
Slashes(id) == [Plain(id) EXCEPT !.buildable = FALSE]
MCTestPlans == {<<Writing("t1"), Plain("t2"), Writing("t3")>>, <<Outside("t1"), Writing("t2"), Slashes("t3")>>,
                <<Plain("t1"), Plain("t2"), Plain("t3")>>, <<Flagged("t1")>>}
=================================================================================
