-------------------------- MODULE MCSessionManager --------------------------
(* Small instances of SessionManager for TLC.                              *)
EXTENDS SessionManager, TLC

CONSTANTS s1, s2, p1, p2, p3, h1, h2, m1, m2, m3, r1, r2

\* Two agents with pids of their own; each hook names its agent in full.
DistinctPids == (p1 :> 1 @@ p2 :> 2)
Starts == (p1 :> 1 @@ p2 :> 2)
OnePid == p1 :> 1
OneStart == p1 :> 7
Claim(p, pid, start) == [process |-> p, pid |-> pid, start |-> start]
FullClaims == {Claim(p, PidOf[p], StartOf[p]) : p \in Processes}

\* Hooks of one agent: complete, without a start time, without an agent.
PartialClaims == {Claim(p1, 1, 7), Claim(p1, 1, 0), Claim(None, 0, 0)}

\* Two agents that get the same pid one after the other, and a third.
ReusedPids == (p1 :> 1 @@ p2 :> 1 @@ p3 :> 2)
ReusedStarts == (p1 :> 7 @@ p2 :> 8 @@ p3 :> 9)
ReusedClaims == {Claim(p, PidOf[p], StartOf[p]) : p \in Processes} \cup {Claim(p1, 1, 0)}

\* What the theorem LiveSessionStays supposes of the agents holds in each instance.
ASSUME AgentsAssumption == HooksNameTheirAgent /\ AgentsToldApart

Symmetry == Permutations(Handlers) \cup Permutations(Monitors) \cup Permutations(Readers)
=============================================================================
