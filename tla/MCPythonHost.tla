---------------------------- MODULE MCPythonHost -----------------------------
(* Two create requests with one key; one run, of a delay or of a node the  *)
(* host does not support; a pause, and a cancel or resume; one stream, from *)
(* the second event, from the start, or from an event that never comes.    *)
EXTENDS PythonHost, TLC

CONSTANTS c1, c2, d1, d2, k

MCKeyOf == [c \in {c1, c2} |-> k]

MCBodyOf == [c \in {c1, c2} |-> "b"]

MCWorkflows == {<<"delay">>, <<"other">>}

MCCallsOf == d1 :> {"pause"} @@ d2 :> {"cancel", "resume"}

MCAsks == {<<"updates", 1>>, <<"values", 0>>, <<"updates", 99>>}
=============================================================================
