-------------------------- MODULE MCSessionPipeline -------------------------
(* Small instances of SessionPipeline for TLC.                             *)
EXTENDS SessionPipeline, TLC

CONSTANTS s1, s2, h1, h2, p1, m1, m2, r1, r2

NoPids == [p \in {} |-> 0]
OnePid == p1 :> 1
OneStart == p1 :> 7
Claim(p, pid, start) == [process |-> p, pid |-> pid, start |-> start]
NoClaim == {Claim(None, 0, 0)}

PipelineSymmetry == Permutations(Handlers) \cup Permutations(Readers)
=============================================================================
