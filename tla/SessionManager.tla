--------------------------- MODULE SessionManager ---------------------------
(***************************************************************************)
(* The session manager of the daemon (internal/socket/session_manager.go)  *)
(* with the pidfd monitors it starts (process_monitor_linux.go).           *)
(*                                                                         *)
(* Four kinds of goroutine share the maps `sessions` and `monitors` under  *)
(* the mutex m.mu:                                                         *)
(*   Handlers  socket connections that run HandleMessage,                  *)
(*   Monitors  one goroutine per pidfd, which reports the agent's exit,    *)
(*   Readers   deferred reads of a Claude transcript,                      *)
(*   Pruner    the ticker loop of Start.                                   *)
(* A critical section of the code is one action.  What a goroutine does    *)
(* after it unlocks (a notification, the closing of a descriptor, the      *)
(* installation of a monitor) is an action of its own, because every other *)
(* goroutine may run in between; pc[t] says what goroutine t does next.    *)
(***************************************************************************)
EXTENDS Integers, Sequences, FiniteSets

CONSTANTS
    SessionIDs,    \* ids an agent gives its sessions
    Processes,     \* agent processes that may exist during the run
    PidOf,         \* their pids (a pid stands for the pid with its namespace)
    StartOf,       \* their start times, which tell a reused pid apart
    Contained,     \* pids inside a jail or a small pid namespace
    Hidden,        \* those of Contained that no scan of /proc can place
    Claims,        \* what a hook may say of its agent: [process, pid, start]
    Events,        \* the events hooks send in this instance
    CodexSessions, \* the sessions of Codex; the others are Claude's
    Subagents,     \* the Codex sessions whose transcript names a parent
    Handlers, Monitors, Readers, Pruner,
    None,
    Timeout,       \* m.timeout
    ChannelCap,    \* capacity of the channel m.updates
    MaxMessages,   \* bound: messages received
    MaxClock,      \* bound: the last instant at which a message is received
    MaxTime,       \* bound: the last instant
    MaxReplies     \* bound: replies an agent writes to its transcript

Threads == Handlers \cup Monitors \cup Readers \cup {Pruner}

KnownEvents == {"idle", "working", "tool_running", "waiting", "session_start",
                "tool_start", "tool_end", "tool_end_failure",
                "permission_denied", "subagent_start", "subagent_stop",
                "compacting", "response"}
States == {"idle", "working", "tool_running", "waiting"}
Pids == {PidOf[p] : p \in Processes}
Identities == [pid : Nat, start : Nat]
Sessions == [state : States, subagent : BOOLEAN, identity : Identities,
             lastEventAt : Nat, reply : Nat]
Entries == [identity : Identities, handle : Monitors]
Updates == [type : {"upsert", "timeout"}, id : SessionIDs, session : Sessions]

ASSUME ThreadsAssumption ==
    /\ Handlers \cap Monitors = {} /\ Handlers \cap Readers = {}
    /\ Monitors \cap Readers = {}
    /\ Pruner \notin Handlers \cup Monitors \cup Readers
ASSUME NoneAssumption ==
    None \notin SessionIDs \cup Sessions \cup Entries \cup Monitors \cup Processes
ASSUME ProcessAssumption ==
    /\ PidOf \in [Processes -> Nat \ {0}] /\ StartOf \in [Processes -> Nat]
    /\ Contained \subseteq Nat /\ Hidden \subseteq Contained
ASSUME ClaimsAssumption ==
    \A c \in Claims : /\ c.process \in Processes \cup {None}
                      /\ [pid |-> c.pid, start |-> c.start] \in Identities
ASSUME SessionsAssumption == Subagents \subseteq CodexSessions
ASSUME BoundsAssumption ==
    /\ Timeout \in Nat /\ ChannelCap \in Nat
    /\ MaxMessages \in Nat /\ MaxClock \in Nat
    /\ MaxTime \in Nat /\ MaxReplies \in Nat

VARIABLES
    sessions,   \* m.sessions: a session or None for each id
    monitors,   \* m.monitors: [identity, handle] or None for each id
    updates,    \* m.updates, a bounded channel
    fd,         \* the pidfd of each monitor: unused, open or closed
    watch,      \* what each monitor goroutine was started for
    pc, job,    \* control state and locals of each goroutine
    pruneTime,  \* the instant of the tick that the pruner is handling
    expired,    \* the sessions pruneExpired has still to announce
    clock, received, processes, transcript   \* the environment

managerVars == <<sessions, monitors, updates>>
monitorVars == <<fd, watch>>
pruneVars == <<pruneTime, expired>>
envVars == <<clock, received, processes, transcript>>
vars == <<sessions, monitors, updates, fd, watch, pc, job, pruneTime, expired,
          clock, received, processes, transcript>>

NoJob == [id |-> None, session |-> None, handle |-> None, reply |-> 0]

Init ==
    /\ sessions = [s \in SessionIDs |-> None]
    /\ monitors = [s \in SessionIDs |-> None]
    /\ updates = <<>>
    /\ fd = [m \in Monitors |-> "unused"]
    /\ watch = [m \in Monitors |-> None]
    /\ pc = [t \in Threads |-> "idle"]
    /\ job = [t \in Threads |-> NoJob]
    /\ pruneTime = 0
    /\ expired = {}
    /\ clock = 0
    /\ received = 0
    /\ processes = [p \in Processes |-> "unborn"]
    /\ transcript = [s \in SessionIDs |-> 0]

-----------------------------------------------------------------------------
(* Which process a session's agent is.                                     *)

Running == {p \in Processes : processes[p] = "running"}

\* HostPIDResolver.Resolve: the running process that matches the pid and, when
\* the hook recorded one, the start time.
Resolved(identity) ==
    {p \in Running : /\ PidOf[p] = identity.pid
                     /\ identity.pid \notin Hidden
                     /\ identity.start \in {0, StartOf[p]}}

\* What a pid that does not resolve stands for: outside a container the code
\* falls back on whatever process has that pid now.
Reached(identity) ==
    IF Resolved(identity) # {} \/ identity.pid \in Contained
    THEN Resolved(identity)
    ELSE {p \in Running : PidOf[p] = identity.pid}

\* Mutant: a session that ever named an agent counts as alive.
NamesAgent(session) == session.identity.pid > 0

LooksAlive(session) ==
    session.identity.pid > 0 /\ Reached(session.identity) # {}

-----------------------------------------------------------------------------
(* HandleMessage, up to its unlock.                                        *)

StateOf(e) ==
    CASE e = "idle" -> "idle"
      [] e \in {"tool_running", "tool_start"} -> "tool_running"
      [] e \in {"waiting", "response"} -> "waiting"
      [] OTHER -> "working"

\* A root agent that stops is waiting for its user; a subagent is idle.
AdjustedState(e, subagent) ==
    IF e = "idle" /\ ~subagent THEN "waiting" ELSE StateOf(e)

ZeroSession == [state |-> "idle", subagent |-> FALSE,
                identity |-> [pid |-> 0, start |-> 0],
                lastEventAt |-> 0, reply |-> 0]
Existing(s) == IF sessions[s] = None THEN ZeroSession ELSE sessions[s]

\* A field the hook does not report keeps its value, each field by itself.
Resolve(old, new) == IF new > 0 THEN new ELSE old
ResolveIdentityAnew(old, c) == [pid |-> c.pid, start |-> c.start]   \* mutant
ResolveIdentity(old, c) ==
    [pid |-> Resolve(old.pid, c.pid), start |-> Resolve(old.start, c.start)]

\* The session a message produces; `parent` is whether a Codex transcript names
\* a parent now, `text` the last reply that a Codex payload carries (0: none).
Upserted(s, e, c, parent, text) ==
    LET subagent == Existing(s).subagent \/ parent
        stops == e = "idle" /\ ~subagent
    IN  [state |-> AdjustedState(e, subagent),
         subagent |-> subagent,
         identity |-> ResolveIdentity(Existing(s).identity, c),
         lastEventAt |-> clock,
         reply |-> IF stops /\ s \in CodexSessions
                   THEN Resolve(Existing(s).reply, text)
                   ELSE Existing(s).reply]

\* An agent sends its hooks while it runs, but the daemon may read the message
\* after the agent has exited.
Receives(h, c) ==
    /\ pc[h] = "idle"
    /\ received < MaxMessages /\ clock <= MaxClock
    /\ c.process # None => processes[c.process] # "unborn"

HandleMessage(h, s, e, c, parent, text) ==
    LET new == Upserted(s, e, c, parent, text)
        own == [NoJob EXCEPT !.id = s, !.session = new]
        deferred == e = "idle" /\ ~new.subagent /\ s \notin CodexSessions
    IN  /\ Receives(h, c)
        /\ e \in KnownEvents
        /\ parent => s \in Subagents
        /\ text \in 0..transcript[s]
        /\ sessions' = [sessions EXCEPT ![s] = new]
        /\ received' = received + 1
        /\ \/ /\ ~deferred
              /\ pc' = [pc EXCEPT ![h] = "announce"]
              /\ job' = [job EXCEPT ![h] = own]
           \/ /\ deferred
              /\ \E r \in Readers :
                    /\ pc[r] = "idle"
                    /\ pc' = [pc EXCEPT ![h] = "announce", ![r] = "asleep"]
                    /\ job' = [job EXCEPT ![h] = own,
                                          ![r] = [NoJob EXCEPT !.id = s]]
        /\ UNCHANGED <<monitors, updates, monitorVars, pruneVars,
                       clock, processes, transcript>>

-----------------------------------------------------------------------------
(* notify: a full channel drops the update.                                *)

\* Mutant: a channel that never fills up.
NotifiedUnbounded(u) == Append(updates, u)
Notified(u) == IF Len(updates) < ChannelCap THEN Append(updates, u) ELSE updates

\* The Upsert of HandleMessage, or of a deferred read, after the unlock.
Announce(t) ==
    /\ pc[t] = "announce"
    /\ updates' = Notified([type |-> "upsert", id |-> job[t].id,
                            session |-> job[t].session])
    /\ pc' = [pc EXCEPT ![t] = IF t \in Readers THEN "idle" ELSE "ensure"]
    /\ job' = IF t \in Readers THEN [job EXCEPT ![t] = NoJob] ELSE job
    /\ UNCHANGED <<sessions, monitors, monitorVars, pruneVars, envVars>>

-----------------------------------------------------------------------------
(* ensureSessionMonitor, with the session that HandleMessage captured.     *)

Finish(t) == /\ pc' = [pc EXCEPT ![t] = "idle"]
             /\ job' = [job EXCEPT ![t] = NoJob]

Watched(s, identity) == monitors[s] # None /\ monitors[s].identity = identity

CheckMonitor(h) ==
    LET identity == job[h].session.identity
    IN  /\ pc[h] = "ensure" /\ identity.pid > 0
        /\ \/ Watched(job[h].id, identity) /\ Finish(h)
           \/ /\ ~Watched(job[h].id, identity)
              /\ pc' = [pc EXCEPT ![h] = "resolve"]
              /\ UNCHANGED job
        /\ UNCHANGED <<managerVars, monitorVars, pruneVars, envVars>>

\* resolveSessionMonitorPID, which looks for the process in /proc.
ResolvePid(h) ==
    LET identity == job[h].session.identity
        found == Resolved(identity) # {} \/ identity.pid \notin Contained
    IN  /\ pc[h] = "resolve"
        /\ pc' = [pc EXCEPT ![h] = IF found THEN "open" ELSE "clear"]
        /\ UNCHANGED <<managerVars, monitorVars, job, pruneVars, envVars>>

\* pidfd_open on whatever process has the pid by now.
OpenMonitor(h, m, p) ==
    /\ pc[h] = "open"
    /\ fd[m] = "unused"
    /\ processes[p] = "running" /\ PidOf[p] = job[h].session.identity.pid
    /\ fd' = [fd EXCEPT ![m] = "open"]
    /\ watch' = [watch EXCEPT ![m] = [id |-> job[h].id, process |-> p,
                                      identity |-> job[h].session.identity]]
    /\ pc' = [pc EXCEPT ![h] = "install", ![m] = "polling"]
    /\ job' = [job EXCEPT ![h].handle = m]
    /\ UNCHANGED <<managerVars, pruneVars, envVars>>

\* No process has the pid, or pidfd_open fails.
OpenFails(h) ==
    /\ pc[h] = "open"
    /\ pc' = [pc EXCEPT ![h] = "clear"]
    /\ UNCHANGED <<managerVars, monitorVars, job, pruneVars, envVars>>

\* Mutant: the monitor that is replaced is forgotten instead of closed.
InstallMonitorOverwriting(h) ==
    /\ pc[h] = "install"
    /\ monitors' = [monitors EXCEPT ![job[h].id] =
                       [identity |-> job[h].session.identity,
                        handle |-> job[h].handle]]
    /\ Finish(h)
    /\ UNCHANGED <<sessions, updates, monitorVars, pruneVars, envVars>>

\* The new monitor takes its place in the table; the handler goes on to close
\* the one it replaces.
InstallMonitor(h) ==
    LET s == job[h].id
    IN  /\ pc[h] = "install"
        /\ monitors' = [monitors EXCEPT ![s] =
                           [identity |-> job[h].session.identity,
                            handle |-> job[h].handle]]
        /\ \/ monitors[s] = None /\ Finish(h)
           \/ /\ monitors[s] # None
              /\ pc' = [pc EXCEPT ![h] = "close"]
              /\ job' = [job EXCEPT ![h].handle = monitors[s].handle]
        /\ UNCHANGED <<sessions, updates, monitorVars, pruneVars, envVars>>

\* clearSessionMonitor: no agent is known, or no monitor could be opened.
ClearMonitor(h) ==
    LET s == job[h].id
    IN  /\ \/ pc[h] = "clear"
           \/ pc[h] = "ensure" /\ job[h].session.identity.pid = 0
        /\ monitors' = [monitors EXCEPT ![s] = None]
        /\ \/ monitors[s] = None /\ Finish(h)
           \/ /\ monitors[s] # None
              /\ pc' = [pc EXCEPT ![h] = "close"]
              /\ job' = [job EXCEPT ![h].handle = monitors[s].handle]
        /\ UNCHANGED <<sessions, updates, monitorVars, pruneVars, envVars>>

CloseMonitor(h) ==
    /\ pc[h] = "close"
    /\ fd' = [fd EXCEPT ![job[h].handle] = "closed"]
    /\ Finish(h)
    /\ UNCHANGED <<managerVars, watch, pruneVars, envVars>>

-----------------------------------------------------------------------------
(* removeSession, called by session_end and by a monitor's exit callback.  *)

\* Both entries leave their maps in one critical section; the descriptor is
\* closed and the removal announced after it.
Remove(t, s) ==
    /\ sessions' = [sessions EXCEPT ![s] = None]
    /\ monitors' = [monitors EXCEPT ![s] = None]
    /\ job' = [job EXCEPT ![t] =
                  [id |-> s, session |-> sessions[s], reply |-> 0,
                   handle |-> IF monitors[s] = None THEN None
                              ELSE monitors[s].handle]]
    /\ pc' = [pc EXCEPT ![t] = "removed"]

EndSession(h, s) ==
    /\ pc[h] = "idle"
    /\ received < MaxMessages /\ clock <= MaxClock
    /\ received' = received + 1
    /\ Remove(h, s)
    /\ UNCHANGED <<updates, monitorVars, pruneVars, clock, processes, transcript>>

CloseRemoved(t) ==
    /\ pc[t] = "removed" /\ job[t].handle # None
    /\ fd' = [fd EXCEPT ![job[t].handle] = "closed"]
    /\ job' = [job EXCEPT ![t].handle = None]
    /\ UNCHANGED <<managerVars, watch, pc, pruneVars, envVars>>

AnnounceRemoval(t) ==
    /\ pc[t] = "removed" /\ job[t].handle = None
    /\ updates' = IF job[t].session = None THEN updates
                  ELSE Notified([type |-> "timeout", id |-> job[t].id,
                                 session |-> job[t].session])
    /\ Finish(t)
    /\ UNCHANGED <<sessions, monitors, monitorVars, pruneVars, envVars>>

-----------------------------------------------------------------------------
(* The goroutine of a pidfd: wait and its callback handleSessionProcessExit. *)

\* Poll returns; a monitor that was closed meanwhile does not report.
MonitorWakes(m) ==
    /\ pc[m] = "polling"
    /\ processes[watch[m].process] = "exited"
    /\ pc' = [pc EXCEPT ![m] = IF fd[m] = "closed" THEN "idle" ELSE "exited"]
    /\ UNCHANGED <<managerVars, monitorVars, job, pruneVars, envVars>>

\* Poll is interrupted by a signal: the goroutine gives up, its entry stays.
PollFails(m) ==
    /\ pc[m] = "polling"
    /\ pc' = [pc EXCEPT ![m] = "idle"]
    /\ UNCHANGED <<managerVars, monitorVars, job, pruneVars, envVars>>

\* The callback removes the session only if it still has the agent that the
\* monitor was started for; it looks under one lock and removes under another.
CheckExit(m) ==
    LET s == watch[m].id
        same == sessions[s] # None /\ sessions[s].identity = watch[m].identity
    IN  /\ pc[m] = "exited"
        /\ pc' = [pc EXCEPT ![m] = IF same THEN "remove" ELSE "idle"]
        /\ UNCHANGED <<managerVars, monitorVars, job, pruneVars, envVars>>

RemoveExited(m) ==
    /\ pc[m] = "remove"
    /\ Remove(m, watch[m].id)
    /\ UNCHANGED <<updates, monitorVars, pruneVars, envVars>>

-----------------------------------------------------------------------------
(* The deferred read of a Claude transcript.                               *)

\* The goroutine wakes after transcriptReadDelay and reads what is there.
ReadTranscript(r) ==
    /\ pc[r] = "asleep"
    /\ \/ /\ transcript[job[r].id] > 0
          /\ pc' = [pc EXCEPT ![r] = "store"]
          /\ job' = [job EXCEPT ![r].reply = transcript[job[r].id]]
       \/ Finish(r)
    /\ UNCHANGED <<managerVars, monitorVars, pruneVars, envVars>>

\* Mutant: a reply that comes late is taken for an event of its own.
AnnotatedNow(session, reply) ==
    [session EXCEPT !.reply = reply, !.lastEventAt = clock]
\* The reply is put into the record that is there by now, which keeps its stamp.
Annotated(session, reply) == [session EXCEPT !.reply = reply]

StoreReply(r) ==
    LET s == job[r].id
        new == Annotated(sessions[s], job[r].reply)
        differs == sessions[s] # None /\ sessions[s].reply # job[r].reply
    IN  /\ pc[r] = "store"
        /\ \/ /\ ~differs
              /\ Finish(r)
              /\ UNCHANGED sessions
           \/ /\ differs
              /\ sessions' = [sessions EXCEPT ![s] = new]
              /\ pc' = [pc EXCEPT ![r] = "announce"]
              /\ job' = [job EXCEPT ![r].session = new]
        /\ UNCHANGED <<monitors, updates, monitorVars, pruneVars, envVars>>

-----------------------------------------------------------------------------
(* The ticker loop.                                                        *)

PruneTick ==
    /\ pc[Pruner] = "idle"
    /\ pruneTime' = clock
    /\ pc' = [pc EXCEPT ![Pruner] = "prune"]
    /\ UNCHANGED <<managerVars, monitorVars, job, expired, envVars>>

ExpiredByAge(session) == pruneTime - session.lastEventAt >= Timeout   \* mutant
Expired(session) ==
    /\ pruneTime - session.lastEventAt >= Timeout
    /\ ~LooksAlive(session)

\* pruneExpired drops the sessions and leaves their monitors in the table.
PruneExpired ==
    LET gone == {s \in SessionIDs : sessions[s] # None /\ Expired(sessions[s])}
    IN  /\ pc[Pruner] = "prune"
        /\ sessions' = [s \in SessionIDs |->
                           IF s \in gone THEN None ELSE sessions[s]]
        /\ expired' = {[id |-> s, session |-> sessions[s]] : s \in gone}
        /\ pc' = [pc EXCEPT ![Pruner] = IF gone = {} THEN "idle" ELSE "announcing"]
        /\ pruneTime' = 0
        /\ UNCHANGED <<monitors, updates, monitorVars, job, envVars>>

AnnounceExpired ==
    /\ pc[Pruner] = "announcing"
    /\ \E x \in expired :
          /\ updates' = Notified([type |-> "timeout", id |-> x.id,
                                  session |-> x.session])
          /\ expired' = expired \ {x}
          /\ pc' = [pc EXCEPT ![Pruner] =
                       IF expired = {x} THEN "idle" ELSE "announcing"]
    /\ UNCHANGED <<sessions, monitors, monitorVars, job, pruneTime, envVars>>

-----------------------------------------------------------------------------
(* The environment: time, agents and the reader of the channel.            *)

Tick == /\ clock < MaxTime
        /\ clock' = clock + 1
        /\ UNCHANGED <<managerVars, monitorVars, pc, job, pruneVars,
                       received, processes, transcript>>

ProcessStarts(p) ==
    /\ processes[p] = "unborn"
    /\ \A q \in Running : PidOf[q] # PidOf[p]
    /\ processes' = [processes EXCEPT ![p] = "running"]
    /\ UNCHANGED <<managerVars, monitorVars, pc, job, pruneVars,
                   clock, received, transcript>>

ProcessExits(p) ==
    /\ processes[p] = "running"
    /\ processes' = [processes EXCEPT ![p] = "exited"]
    /\ UNCHANGED <<managerVars, monitorVars, pc, job, pruneVars,
                   clock, received, transcript>>

AgentReplies(s) ==
    /\ transcript[s] < MaxReplies
    /\ transcript' = [transcript EXCEPT ![s] = @ + 1]
    /\ UNCHANGED <<managerVars, monitorVars, pc, job, pruneVars,
                   clock, received, processes>>

\* forwardUIUpdates takes the oldest update (module SessionPipeline says what
\* it does with it).
ReceiveUpdate ==
    /\ updates # <<>>
    /\ updates' = Tail(updates)
    /\ UNCHANGED <<sessions, monitors, monitorVars, pc, job, pruneVars, envVars>>

-----------------------------------------------------------------------------
Hook(h) ==
    \/ \E s \in SessionIDs, e \in Events \ {"session_end"}, c \in Claims,
          parent \in BOOLEAN, text \in 0..MaxReplies :
             HandleMessage(h, s, e, c, parent, text)
    \/ "session_end" \in Events /\ \E s \in SessionIDs : EndSession(h, s)

\* What handler h still has to do after the critical section of a message.
Handler(h) ==
    \/ Announce(h) \/ CheckMonitor(h) \/ ResolvePid(h) \/ OpenFails(h)
    \/ InstallMonitor(h) \/ ClearMonitor(h) \/ CloseMonitor(h)
    \/ CloseRemoved(h) \/ AnnounceRemoval(h)
    \/ \E m \in Monitors, p \in Processes : OpenMonitor(h, m, p)
Monitor(m) ==
    \/ MonitorWakes(m) \/ CheckExit(m) \/ RemoveExited(m)
    \/ CloseRemoved(m) \/ AnnounceRemoval(m)
Reader(r) == ReadTranscript(r) \/ StoreReply(r) \/ Announce(r)
Prune == PruneTick \/ PruneExpired \/ AnnounceExpired

Manager ==
    \/ \E h \in Handlers : Hook(h) \/ Handler(h)
    \/ \E m \in Monitors : Monitor(m) \/ PollFails(m)
    \/ \E r \in Readers : Reader(r)
    \/ Prune
Environment ==
    \/ Tick
    \/ \E p \in Processes : ProcessStarts(p) \/ ProcessExits(p)
    \/ \E s \in SessionIDs : AgentReplies(s)

Next == Manager \/ Environment \/ ReceiveUpdate

Spec == Init /\ [][Next]_vars

\* The Go scheduler runs every goroutine that can run, the ticker keeps ticking
\* and time passes.  Nothing makes a hook arrive or an agent exit.
Fairness ==
    /\ \A h \in Handlers : WF_vars(Handler(h))
    /\ \A m \in Monitors : WF_vars(Monitor(m))
    /\ \A r \in Readers : WF_vars(Reader(r))
    /\ WF_vars(Prune) /\ WF_vars(Tick)
FairSpec == Spec /\ Fairness

-----------------------------------------------------------------------------
(* What the manager promises.                                              *)

Labels == {"idle", "announce", "ensure", "resolve", "open", "clear", "install", "close",
           "removed", "polling", "exited", "remove", "asleep", "store",
           "prune", "announcing"}
Jobs == [id : SessionIDs \cup {None}, session : Sessions \cup {None},
         handle : Monitors \cup {None}, reply : Nat]
Watches == [id : SessionIDs, process : Processes, identity : Identities]

ManagerTypeOK ==
    /\ sessions \in [SessionIDs -> Sessions \cup {None}]
    /\ monitors \in [SessionIDs -> Entries \cup {None}]
    /\ updates \in Seq(Updates) /\ Len(updates) <= ChannelCap
MonitorTypeOK ==
    /\ fd \in [Monitors -> {"unused", "open", "closed"}]
    /\ watch \in [Monitors -> Watches \cup {None}]
ThreadTypeOK ==
    /\ pc \in [Threads -> Labels]
    /\ job \in [Threads -> Jobs]
PrunerTypeOK ==
    /\ pruneTime \in Nat
    /\ expired \subseteq [id : SessionIDs, session : Sessions]
EnvironmentTypeOK ==
    /\ clock \in 0..MaxTime
    /\ received \in 0..MaxMessages
    /\ processes \in [Processes -> {"unborn", "running", "exited"}]
    /\ transcript \in [SessionIDs -> 0..MaxReplies]
TypeOK ==
    ManagerTypeOK /\ MonitorTypeOK /\ ThreadTypeOK /\ PrunerTypeOK /\ EnvironmentTypeOK

Holding == {"install", "close", "removed"}

\* The descriptor a goroutine has taken out of the table, or not yet put there.
Holds(t, m) == pc[t] \in Holding /\ job[t].handle = m
InTable(s, m) == monitors[s] # None /\ monitors[s].handle = m

OpenIsOwned ==
    \A m \in Monitors :
        fd[m] = "open" <=> \/ \E s \in SessionIDs : InTable(s, m)
                           \/ \E t \in Threads : Holds(t, m)
EntryMatches ==
    \A s \in SessionIDs, m \in Monitors :
        InTable(s, m) => /\ watch[m].id = s
                         /\ watch[m].identity = monitors[s].identity
                         /\ \A t \in Threads : ~Holds(t, m)
OneHolder ==
    \A t, u \in Threads, m \in Monitors : Holds(t, m) /\ Holds(u, m) => t = u

\* Every open pidfd has exactly one owner: one entry of the table or one
\* goroutine that is about to install or to close it.  A descriptor that
\* nobody owns would stay open for ever, one with two owners would be closed
\* while the table still counts on it (ensureSessionMonitor, removeSession,
\* clearSessionMonitor).
MonitorOwnership == OpenIsOwned /\ EntryMatches /\ OneHolder

\* The manager implements the registry: only a hook gives a session a new stamp,
\* state or agent, and the stamp is the instant of that hook; what a hook leaves
\* out of its agent stays as it was, field by field; a deferred read touches
\* nothing but the reply of a session that is still there, so it neither revives
\* one nor makes it look younger to the pruner and the store (HandleMessage,
\* resolveAgentPID, resolveUint64, deferredReadLastAssistantMessage, pruneExpired).
Registry == INSTANCE SessionRegistry
ImplementsRegistry == Registry!Spec

\* The processes a session's own record names, as /proc would show them.
Agents(identity) == {p \in Running : /\ PidOf[p] = identity.pid
                                     /\ identity.start \in {0, StartOf[p]}}

\* A hook names the process it runs under, as far as it names one
\* (attachAgentMetadata), and no process has the pid of one agent together with the
\* start time of another.
HooksNameTheirAgent ==
    \A c \in Claims :
        /\ c.pid # 0 => c.process # None /\ c.pid = PidOf[c.process]
        /\ c.start # 0 => c.process # None /\ c.start = StartOf[c.process]
AgentsToldApart ==
    \A p, q, r \in Processes : PidOf[p] = PidOf[q] /\ StartOf[p] = StartOf[r] => p \in {q, r}

\* A session whose agent still runs goes away only when a hook ends it.  No tick
\* of the pruner takes it, whatever the age of its last event, nor the exit of
\* the process that had the same pid before; a pid alone, without the start time
\* that tells two users of it apart, does not say who the agent is
\* (pruneExpired, isSessionProcessAlive, handleSessionProcessExit).  What the
\* callback does about an agent it did not watch is StaleExitIgnored.
LiveSessionKept ==
    [][\A s \in SessionIDs :
          /\ sessions[s] # None /\ sessions'[s] = None
          /\ sessions[s].identity.pid \notin Hidden
          /\ sessions[s].identity.start # 0
          => \/ received' # received
             \/ Agents(sessions[s].identity) = {}
             \/ \E m \in Monitors :
                   pc[m] = "remove" /\ pc'[m] = "removed"
                   /\ watch[m].identity # sessions[s].identity]_vars

\* The exit of a process never removes a session that has got another agent
\* since: the callback compares the identities (handleSessionProcessExit).
StaleExitIgnored ==
    [][\A m \in Monitors :
          pc[m] = "remove" /\ pc'[m] = "removed" /\ sessions[watch[m].id] # None
             => sessions[watch[m].id].identity = watch[m].identity]_vars

\* No process has the pid of the session's agent, or none was ever named.
AgentGone(s) ==
    sessions[s] # None /\ \A p \in Running : PidOf[p] # sessions[s].identity.pid

\* Once its agent has exited, a session leaves the table or gets another agent,
\* whether or not the pidfd was opened and its Poll came back (wait,
\* pruneExpired).
ExitedAgentLeaves == \A s \in SessionIDs : AgentGone(s) ~> ~AgentGone(s)
=============================================================================
