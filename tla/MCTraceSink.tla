------------------------------ MODULE MCTraceSink ------------------------------
(* Model-checking instance: three events, two callers of finish, a channel *)
(* with room for one command, and either writer.                           *)
EXTENDS TraceSink
CONSTANTS e1, e2, e3, f1, f2
MCEvents == {e1, e2, e3}
MCFinishers == {f1, f2}
=============================================================================
