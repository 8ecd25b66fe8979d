---------------------------- MODULE SocketServer ----------------------------
(***************************************************************************)
(* Daemons that start, serve, stop and crash on one socket path, and the   *)
(* commands that connect to them (internal/socket/server.go, client.go,    *)
(* cli.go).  A daemon is one run of the program; the socket file is named  *)
(* by the daemon whose bind created it.  Each system call on the path is a *)
(* step of its own.  A signal that arrives before the socket listens has   *)
(* the effect of one that arrives right after, so Stop waits for that.     *)
(***************************************************************************)
EXTENDS FiniteSets, Lists

CONSTANTS
    Daemons,   \* runs of the daemon
    Clients    \* runs of the hook, focus and inspect commands

\* What is assumed of the constants.
SocketAssumption == None \notin Daemons

VARIABLES
    pc,        \* what each daemon is about to do
    file,      \* the daemon that bound the socket file, or None
    wired,     \* daemons that have called SetFocuser
    cleaned,   \* daemons whose serve loop has cleaned up (once)
    conn,      \* the daemon each client is connected to
    kind,      \* the command each client runs
    stage,     \* how far its connection is
    accepted,  \* clients whose connection the daemon has accepted
    result,    \* how the command ended
    disturbed, \* history: two daemons were starting or stopping at once, or Accept failed
    alone      \* history: daemons that started while no other listened

daemonVars == <<pc, file, wired, cleaned, disturbed, alone>>
clientVars == <<conn, kind, stage, accepted, result>>
vars == <<daemonVars, clientVars>>

Starting == {"stat", "probe", "clear", "bind", "listen"}
Stopping == {"unlink", "close", "cleanup"}
Commands == {"hook", "focus", "inspect", "blank"}   \* blank: focus ""
Stages == {"new", "dialled", "sent", "taken", "closed"}

Init ==
    /\ pc = [d \in Daemons |-> "off"] /\ file = None
    /\ wired = {} /\ cleaned = {} /\ disturbed = FALSE /\ alone = {}
    /\ conn = [c \in Clients |-> None] /\ kind = [c \in Clients |-> None]
    /\ stage = [c \in Clients |-> "new"] /\ accepted = {}
    /\ result = [c \in Clients |-> "none"]

\* The listener's descriptor is open; a serve loop that failed leaves it open.
Open(d) == pc[d] \in {"serving", "failing", "deaf", "unlink", "close"}
Alive(d) == pc[d] \notin {"off", "gone", "refused"}
Connectable == file # None /\ Open(file)

-----------------------------------------------------------------------------
(* Daemons.                                                                *)

Busy == Starting \cup Stopping

Goto(d, label) ==
    /\ pc' = [pc EXCEPT ![d] = label]
    /\ disturbed' = (disturbed \/ (label \in Busy /\ \E e \in Daemons \ {d} : pc[e] \in Busy))

\* What a client finds when its connection is reset, or its daemon is gone.
Cut(cs) ==
    /\ stage' = [c \in Clients |-> IF c \in cs THEN "closed" ELSE stage[c]]
    /\ result' = [c \in Clients |->
                    IF c \in cs /\ result[c] = "none" THEN "failed" ELSE result[c]]
    /\ UNCHANGED <<conn, kind, accepted>>

Start(d) ==
    /\ pc[d] = "off"
    /\ Goto(d, "stat")
    /\ alone' = IF \E e \in Daemons : Open(e) THEN alone ELSE alone \cup {d}
    /\ UNCHANGED <<file, wired, cleaned, clientVars>>

Stat(d) ==
    /\ pc[d] = "stat"
    /\ Goto(d, IF file = None THEN "bind" ELSE "probe")
    /\ UNCHANGED <<file, wired, cleaned, alone, clientVars>>

\* Mutants: any file refuses, or the probe is not asked.
ProbedRefusing == "refused"
ProbedIgnoring == "clear"
Probed == IF Connectable THEN "refused" ELSE "clear"

Probe(d) ==
    /\ pc[d] = "probe"
    /\ Goto(d, Probed)
    /\ UNCHANGED <<file, wired, cleaned, alone, clientVars>>

\* os.Remove takes whatever file is there by now.
ClearPath(d) ==
    /\ pc[d] = "clear"
    /\ Goto(d, "bind") /\ file' = None
    /\ UNCHANGED <<wired, cleaned, alone, clientVars>>

\* net.Listen binds, and listens with its next call.
Bind(d) ==
    /\ pc[d] = "bind"
    /\ IF file = None THEN Goto(d, "listen") /\ file' = d
       ELSE Goto(d, "refused") /\ UNCHANGED file
    /\ UNCHANGED <<wired, cleaned, alone, clientVars>>

Listen(d) ==
    /\ pc[d] = "listen"
    /\ Goto(d, "serving")
    /\ UNCHANGED <<file, wired, cleaned, alone, clientVars>>

\* The directory, the path or the probe fails in some other way.
StartFails(d) ==
    /\ pc[d] \in Starting \ {"listen"}
    /\ Goto(d, "gone")
    /\ UNCHANGED <<file, wired, cleaned, alone, clientVars>>

\* SetInspector and SetFocuser, once Start has returned.
Wire(d) ==
    /\ Alive(d) /\ pc[d] \notin Starting /\ d \notin wired
    /\ wired' = wired \cup {d}
    /\ UNCHANGED <<pc, file, cleaned, disturbed, alone, clientVars>>

\* Accept fails for good: the loop ends and cleans up, the panel runs on.
AcceptFails(d) ==
    /\ pc[d] = "serving"
    /\ pc' = [pc EXCEPT ![d] = "failing"] /\ disturbed' = TRUE
    /\ UNCHANGED <<file, wired, cleaned, alone, clientVars>>

\* A signal, or the panel was closed.
Stop(d) ==
    /\ pc[d] \in {"serving", "deaf"}
    /\ Goto(d, "unlink")
    /\ UNCHANGED <<file, wired, cleaned, alone, clientVars>>

\* Go's listener unlinks its path when it is closed, whosever file it is now.
Unlink(d) ==
    /\ pc[d] = "unlink"
    /\ Goto(d, "close") /\ file' = None
    /\ UNCHANGED <<wired, cleaned, alone, clientVars>>

Connected(d) == {c \in Clients : conn[c] = d /\ stage[c] # "closed"}

\* The kernel resets what was not accepted, and everything when the program ends.
CloseListener(d) ==
    /\ pc[d] = "close"
    /\ Goto(d, IF d \in cleaned THEN "gone" ELSE "cleanup")
    /\ Cut(IF d \in cleaned THEN Connected(d) ELSE Connected(d) \ accepted)
    /\ UNCHANGED <<file, wired, cleaned, alone>>

\* serve's deferred os.Remove; then Wait returns and the program ends, unless it
\* was Accept that failed.
Cleanup(d) ==
    /\ pc[d] \in {"cleanup", "failing"}
    /\ Goto(d, IF pc[d] = "failing" THEN "deaf" ELSE "gone")
    /\ file' = None /\ cleaned' = cleaned \cup {d}
    /\ Cut(IF pc[d] = "failing" THEN {} ELSE Connected(d))
    /\ UNCHANGED <<wired, alone>>

Crash(d) ==
    /\ Alive(d)
    /\ Goto(d, "gone")
    /\ Cut(Connected(d))
    /\ UNCHANGED <<file, wired, cleaned, alone>>

-----------------------------------------------------------------------------
(* Clients.                                                                *)

Goes(c, s, r) ==
    /\ stage' = [stage EXCEPT ![c] = s]
    /\ result' = [result EXCEPT ![c] = r]

\* A hook that finds no daemon says nothing; the other commands fail.
Dial(c, k) ==
    /\ stage[c] = "new"
    /\ kind' = [kind EXCEPT ![c] = k]
    /\ IF Connectable
       THEN conn' = [conn EXCEPT ![c] = file] /\ Goes(c, "dialled", "none")
       ELSE Goes(c, "closed", IF k = "hook" THEN "silent" ELSE "failed") /\ UNCHANGED conn
    /\ UNCHANGED <<daemonVars, accepted>>

\* SendMessage is done when the message is written, the others read an answer.
Send(c) ==
    /\ stage[c] = "dialled"
    /\ Goes(c, "sent", IF kind[c] = "hook" THEN "ok" ELSE "none")
    /\ UNCHANGED <<daemonVars, conn, kind, accepted>>

Accept(c) ==
    /\ stage[c] \in {"dialled", "sent"} /\ c \notin accepted
    /\ pc[conn[c]] \in {"serving", "unlink", "close"} /\ conn[c] \notin cleaned
    /\ accepted' = accepted \cup {c}
    /\ UNCHANGED <<daemonVars, conn, kind, stage, result>>

\* Mutant: a message that does not decode leaves the connection open.
DecodeOn(c) == Goes(c, "taken", "none")
DecodeFails(c) == Goes(c, "closed", "failed")

\* handleConn: a focus request that comes before SetFocuser is taken for a hook,
\* and the loop waits for the next message.
Handle(c) ==
    /\ stage[c] = "sent" /\ c \in accepted
    /\ CASE kind[c] = "blank" -> DecodeFails(c)
         [] kind[c] \in {"inspect", "hook"} -> Goes(c, "closed", "ok")
         [] kind[c] = "focus" /\ conn[c] \notin wired -> Goes(c, "taken", "none")
         [] kind[c] = "focus" /\ conn[c] \in wired ->
                \E r \in {"ok", "failed"} : Goes(c, "closed", r)
    /\ UNCHANGED <<daemonVars, conn, kind, accepted>>

Serve == \E c \in Clients : Accept(c) \/ Send(c) \/ Handle(c)

Next ==
    \/ \E d \in Daemons :
         \/ Start(d) \/ Stat(d) \/ Probe(d) \/ ClearPath(d) \/ Bind(d) \/ Listen(d)
         \/ StartFails(d) \/ Wire(d) \/ AcceptFails(d)
         \/ Stop(d) \/ Unlink(d) \/ CloseListener(d) \/ Cleanup(d) \/ Crash(d)
    \/ \E c \in Clients, k \in Commands : Dial(c, k)
    \/ Serve

Spec == Init /\ [][Next]_vars

\* The accept loop and the goroutines of its connections are scheduled.
FairSpec == Spec /\ WF_vars(Serve)

-----------------------------------------------------------------------------
(* Properties.                                                             *)

\* Labels, files and connections keep their ranges.
TypeOK ==
    /\ pc \in [Daemons -> {"off", "serving", "failing", "deaf", "gone", "refused"}
                           \cup Starting \cup Stopping]
    /\ file \in Daemons \cup {None}
    /\ wired \subseteq Daemons /\ cleaned \subseteq Daemons
    /\ conn \in [Clients -> Daemons \cup {None}]
    /\ kind \in [Clients -> Commands \cup {None}] /\ stage \in [Clients -> Stages]
    /\ accepted \subseteq Clients /\ result \in [Clients -> {"none", "ok", "silent", "failed"}]
    /\ disturbed \in BOOLEAN /\ alone \subseteq Daemons

\* As long as no daemon starts or stops while another does, and none stops to
\* accept, at most one daemon serves and the socket file is its own, so that every
\* hook reaches it - also after crashes that left a file behind (prepareSocketPath).
OneDaemonReachable ==
    ~disturbed => \A d \in Daemons : pc[d] = "serving" =>
                 /\ file = d
                 /\ \A e \in Daemons \ {d} : pc[e] # "serving"

\* A daemon that starts while none listens is not turned away by the file that a
\* crashed one left behind, unless it meets another that starts or stops.
StaleFileNoObstacle == ~disturbed => \A d \in alone : pc[d] # "refused"

\* A command that has reached a daemon comes to an end, unless it was a focus
\* request that was taken for a hook or the daemon no longer accepts.
Reached(c) == stage[c] = "dialled"
Released(c) ==
    \/ result[c] # "none"
    \/ stage[c] = "taken" /\ kind[c] = "focus"
    \/ \E d \in Daemons : conn[c] = d /\ (pc[d] = "failing" \/ d \in cleaned)
CommandsEnd == \A c \in Clients : Reached(c) ~> Released(c)
=============================================================================
