------------------------------ MODULE MCPanel -------------------------------
(* Small instances of Panel for TLC.                                       *)
EXTENDS Panel

CONSTANTS a, b

\* No session, one, and two with another one first.
SmallPayloads == {<<>>, <<a>>, <<b, a>>}
=============================================================================
