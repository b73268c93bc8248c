----------------------------- MODULE MCTerminal -----------------------------
(* Values of the constants of Terminal for model checking. *)
EXTENDS Terminal
CONSTANTS f1, f2
MCRuns    == 1 .. 2
MCFresh   == <<f1, f2>>
MCScripts == <<{<<"text", "text", "ok">>}, {<<"start", "inner", "finish", "ok">>, <<"error", "fail">>}>>
=============================================================================
