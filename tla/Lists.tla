-------------------------------- MODULE Lists --------------------------------
(***************************************************************************)
(* What the modules of the daemon's smaller parts share.  Lists are        *)
(* filtered by a set and with a recursive function, where the standard     *)
(* SelectSeq takes an operator, so that the prover can unfold the          *)
(* definition.                                                             *)
(***************************************************************************)
EXTENDS Naturals, SequencesExt

CONSTANT None   \* no value

\* The elements of s that are in S, in their order: a loop that appends those that pass.
Keep(s, S) ==
    LET keep[i \in 0..Len(s)] ==
          IF i = 0 THEN <<>>
          ELSE IF s[i] \in S THEN Append(keep[i - 1], s[i]) ELSE keep[i - 1]
    IN keep[Len(s)]
=============================================================================
