-------------------------- MODULE SessionRegistry ---------------------------
(***************************************************************************)
(* What the rest of the daemon may rely on of the session manager, without *)
(* goroutines, monitors or channels: a table of sessions and the number of *)
(* hooks that have come.  A record changes with a hook, which stamps it    *)
(* anew, or gets a late reply, which leaves the rest of it alone; and it   *)
(* goes away.  SessionManager is shown to implement it.                    *)
(***************************************************************************)
EXTENDS Integers

CONSTANTS SessionIDs, Sessions, Claims, CodexSessions, None

VARIABLES sessions, clock, received
registryVars == <<sessions, clock, received>>

Init == /\ sessions = [s \in SessionIDs |-> None]
        /\ clock = 0
        /\ received = 0

HookArrives == received' = received + 1 /\ UNCHANGED clock
NoHook == UNCHANGED <<received, clock>>

Nobody == [pid |-> 0, start |-> 0]

\* An agent as it is known after a hook that says c of it: what the hook leaves
\* out (0) stays as it was, one field at a time.
Reported(old, new, c) ==
    /\ new.pid = IF c.pid > 0 THEN c.pid ELSE old.pid
    /\ new.start = IF c.start > 0 THEN c.start ELSE old.start

\* A hook event, and nothing else, gives a session a new record, stamped with the
\* instant of the event.  A subagent stays one, and only a subagent is ever
\* idle; the reply of a Claude session is not the hook's to change, and no reply
\* is taken back.
Refresh(s, c) ==
    LET old == sessions[s]
        new == sessions'[s]
    IN  /\ new \in Sessions
        /\ new.lastEventAt = clock
        /\ new.state = "idle" => new.subagent
        /\ Reported(IF old = None THEN Nobody ELSE old.identity, new.identity, c)
        /\ old # None =>
              /\ old.subagent => new.subagent
              /\ new.reply # old.reply => s \in CodexSessions /\ new.reply > 0
        /\ sessions' = [sessions EXCEPT ![s] = new]
        /\ HookArrives

\* A late reply is added to a session that is still there; nothing else of the
\* record changes, its stamp included.
Annotate(s) ==
    /\ sessions[s] # None /\ sessions'[s] # None
    /\ sessions' = [sessions EXCEPT ![s].reply = sessions'[s].reply]
    /\ NoHook

\* A session ends by a hook; others end without one, together or one at a time.
End(s) == sessions' = [sessions EXCEPT ![s] = None] /\ HookArrives
Drop(gone) ==
    /\ sessions' = [s \in SessionIDs |-> IF s \in gone THEN None ELSE sessions[s]]
    /\ NoHook

Advance == clock' = clock + 1 /\ UNCHANGED <<sessions, received>>

Next == \/ \E s \in SessionIDs, c \in Claims : Refresh(s, c)
        \/ \E s \in SessionIDs : Annotate(s) \/ End(s)
        \/ \E gone \in SUBSET SessionIDs : Drop(gone)
        \/ Advance

Spec == Init /\ [][Next]_registryVars
=============================================================================
