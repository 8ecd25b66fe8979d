--------------------------- MODULE MCFocusRequests ---------------------------
(* Two requests on one tmux server with two clients, of which one or both run *)
(* in a terminal that the program does not know.                            *)
EXTENDS FocusRequests

CONSTANTS t1, t2

TwoPanes == {[session |-> 1, window |-> 1], [session |-> 2, window |-> 1]}
TwoClients == <<t1, t2>>
SomeForeign == {{t1}, {t1, t2}}
FirstForeign == {{t1}}

ASSUME RequestsAssumption == FocusAssumption
=============================================================================
