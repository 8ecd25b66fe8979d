----------------------------- MODULE UIUpdates ------------------------------
(***************************************************************************)
(* forwardUIUpdates (ui_updates.go), the goroutine that applies the        *)
(* manager's updates to the store and hands the panel a payload at most    *)
(* once per throttle interval, and the goroutines of the approval detector *)
(* (approval_detector.go), which read the store, look at a tmux pane and   *)
(* feed synthetic updates back through the channel detectedUpdates.        *)
(* The manager is an environment that may send any update.                 *)
(***************************************************************************)
EXTENDS Integers, Sequences, FiniteSets

CONSTANTS
    IDs,           \* session ids
    CodexBash,     \* the sessions of Codex, whose tool is bash
    WithTTY,       \* the sessions whose agent has a tty
    Detectors,     \* goroutines that run detect
    None,
    Interval,      \* uiUpdateThrottleInterval
    CacheTTL,      \* how long the active pane's tty stays cached
    UpdatesCap, DetectedCap,   \* capacities of the two channels
    MaxUpdates     \* bound: updates the manager sends

ASSUME ConstantsAssumption ==
    /\ CodexBash \subseteq IDs /\ WithTTY \subseteq IDs
    /\ Interval \in Nat \ {0} /\ CacheTTL \in Nat
    /\ UpdatesCap \in Nat \ {0} /\ DetectedCap \in Nat \ {0}
    /\ MaxUpdates \in Nat

States == {"working", "tool_running", "waiting"}
Sessions == [state : States, lastEventAt : Nat]
ASSUME NoneAssumption == None \notin IDs \cup Sessions \cup Nat

Overlay == INSTANCE OverlayModel

Update(type, id, session) == [type |-> type, id |-> id, session |-> session]

VARIABLES
    updates, closed,  \* the manager's channel, and whether it is closed
    detected,         \* the channel detectedUpdates
    store,            \* the overlayModel
    cache,            \* the cached tty: the session it belongs to, and its age
    pc, current,      \* what the forwarder does next, and with which update
    sinceFlush,       \* time since the last flush, None before the first
    timer,            \* time until the timer fires, None if timerC is nil
    shown,            \* the payload the panel was given last
    detector,         \* each detector goroutine: [pc, id, session]
    stamp,            \* the newest LastEventAt so far
    sent, active, cancelled   \* the environment

forwarderVars == <<cache, pc, current, sinceFlush, timer, shown>>
envVars == <<stamp, sent, active, cancelled>>
vars == <<updates, closed, detected, store, cache, pc, current, sinceFlush,
          timer, shown, detector, stamp, sent, active, cancelled>>

\* Time is kept as ages and remaining times, which need no bound: nothing in the
\* code tells two instants apart once both are far enough away.
Older(age, limit) == IF age = None \/ age = limit THEN age ELSE age + 1

Goroutine(label, id, session) == [pc |-> label, id |-> id, session |-> session]
Resting == Goroutine("idle", None, None)

Init ==
    /\ updates = <<>> /\ closed = FALSE /\ detected = <<>>
    /\ store = Overlay!EmptyStore
    /\ cache = [id |-> None, age |-> None]
    /\ pc = "select" /\ current = None
    /\ sinceFlush = None /\ timer = None
    /\ shown = <<>>
    /\ detector = [d \in Detectors |-> Resting]
    /\ stamp = 0 /\ sent = 0 /\ active = None /\ cancelled = FALSE

-----------------------------------------------------------------------------
(* The throttle.                                                           *)

FlushNow ==
    /\ shown' = Overlay!Payload(store)
    /\ sinceFlush' = 0
    /\ timer' = None

\* Mutants: an update within the interval is dropped, or starts the wait anew.
SkipFlush == UNCHANGED <<shown, sinceFlush, timer>>
RearmTimer == timer' = Interval /\ UNCHANGED <<shown, sinceFlush>>

\* A timer that is pending keeps its time.
ArmTimer ==
    /\ timer' = IF timer = None THEN Interval - sinceFlush ELSE timer
    /\ UNCHANGED <<shown, sinceFlush>>

ScheduleFlushUnthrottled == FlushNow   \* mutant
ScheduleFlush ==
    IF sinceFlush \in {None, Interval} THEN FlushNow ELSE ArmTimer

-----------------------------------------------------------------------------
(* The select loop; a branch that calls out goes on in steps of its own.   *)

Selecting == pc = "select"

\* An update of the manager is applied as soon as it is received.
TakeUpdate ==
    /\ Selecting /\ updates # <<>>
    /\ store' = Overlay!Apply(store, Head(updates))
    /\ updates' = Tail(updates)
    /\ current' = Head(updates)
    /\ pc' = "suppress"
    /\ UNCHANGED <<closed, detected, cache, sinceFlush, timer, shown,
                   detector, envVars>>

Fresh == cache.age # None /\ cache.age < CacheTTL

SuppressibleAlways(u) == u.id \in WithTTY   \* mutant: a Timeout as well
Suppressible(u) == u.type = "upsert" /\ u.id \in WithTTY

\* updateSessionSuppression: is the session's pane the active one, as far as the
\* cache knows?  A tty that cannot be read matches no session and is not cached.
Suppress ==
    /\ pc = "suppress"
    /\ \/ /\ ~Suppressible(current)
          /\ UNCHANGED <<store, cache>>
       \/ /\ Suppressible(current) /\ Fresh
          /\ store' = Overlay!SetSuppressed(store, current.id, cache.id = current.id)
          /\ UNCHANGED cache
       \/ /\ Suppressible(current) /\ ~Fresh
          /\ store' = Overlay!SetSuppressed(store, current.id, active = current.id)
          /\ cache' = [id |-> active, age |-> 0]
       \/ /\ Suppressible(current) /\ ~Fresh
          /\ store' = Overlay!SetSuppressed(store, current.id, FALSE)
          /\ UNCHANGED cache
    /\ pc' = "schedule"
    /\ UNCHANGED <<updates, closed, detected, current, sinceFlush, timer,
                   shown, detector, envVars>>

\* Observe starts a detector for a Codex session that runs a bash tool.
Observable(u) ==
    u.type = "upsert" /\ u.id \in CodexBash /\ u.session.state = "tool_running"

ObserveAndSchedule ==
    /\ pc = "schedule"
    /\ IF Observable(current)
       THEN \E d \in Detectors :
               /\ detector[d] = Resting
               /\ detector' = [detector EXCEPT ![d] =
                      Goroutine("asleep", current.id, current.session)]
       ELSE UNCHANGED detector
    /\ ScheduleFlush
    /\ pc' = "select" /\ current' = None
    /\ UNCHANGED <<updates, closed, detected, store, cache, envVars>>

TakeDetected ==
    /\ Selecting /\ detected # <<>>
    /\ store' = Overlay!Apply(store, Head(detected))
    /\ detected' = Tail(detected)
    /\ pc' = "flush"
    /\ UNCHANGED <<updates, closed, cache, current, sinceFlush, timer, shown,
                   detector, envVars>>

\* Mutant: a synthetic update schedules no flush.
ScheduleNothing ==
    /\ pc = "flush"
    /\ pc' = "select"
    /\ UNCHANGED <<updates, closed, detected, store, cache, current, sinceFlush, timer,
                   shown, detector, envVars>>

ScheduleDetected ==
    /\ pc = "flush"
    /\ ScheduleFlush
    /\ pc' = "select"
    /\ UNCHANGED <<updates, closed, detected, store, cache, current, detector, envVars>>

TimerFires ==
    /\ Selecting /\ timer = 0
    /\ FlushNow
    /\ UNCHANGED <<updates, closed, detected, store, cache, pc, current,
                   detector, envVars>>

\* The manager's channel is closed and empty: what is pending is flushed now.
UpdatesClosed ==
    /\ Selecting /\ closed /\ updates = <<>>
    /\ IF timer # None THEN FlushNow
       ELSE UNCHANGED <<shown, sinceFlush, timer>>
    /\ pc' = "done"
    /\ UNCHANGED <<updates, closed, detected, store, cache, current, detector, envVars>>

\* The context is cancelled: the deferred stopTimer drops a pending flush.
Cancelled ==
    /\ Selecting /\ cancelled
    /\ timer' = None
    /\ pc' = "done"
    /\ UNCHANGED <<updates, closed, detected, store, cache, current, sinceFlush,
                   shown, detector, envVars>>

-----------------------------------------------------------------------------
(* The approval detector, one goroutine per observed tool run.             *)

Goes(d, state) == detector' = [detector EXCEPT ![d] = state]
OthersUnchanged == UNCHANGED <<updates, closed, store, forwarderVars, envVars>>

\* After the delay the session must still be the observed run of the tool.
StillRuns(d) ==
    LET now == store.sessions[detector[d].id]
    IN  IF now = None THEN FALSE
        ELSE /\ now.state = "tool_running"
             /\ now.lastEventAt = detector[d].session.lastEventAt

Wake(d) ==
    /\ detector[d].pc = "asleep"
    /\ IF StillRuns(d)
       THEN Goes(d, Goroutine("capture", detector[d].id, store.sessions[detector[d].id]))
       ELSE Goes(d, Resting)
    /\ UNCHANGED detected /\ OthersUnchanged

\* capture-pane runs as a subprocess; the pane may show a prompt or not.  What is
\* emitted is the session read before, with a stamp taken now.
Capture(d) ==
    /\ detector[d].pc = "capture"
    /\ \/ /\ Goes(d, Goroutine("emit", detector[d].id,
                            [state |-> "waiting", lastEventAt |-> stamp + 1]))
          /\ stamp' = stamp + 1
       \/ Goes(d, Resting) /\ UNCHANGED stamp
    /\ UNCHANGED <<updates, closed, detected, store, forwarderVars,
                   sent, active, cancelled>>

\* Mutant: a send that never blocks.
EmitUnbounded(d) ==
    /\ detector[d].pc = "emit"
    /\ detected' = Append(detected, Update("upsert", detector[d].id, detector[d].session))
    /\ Goes(d, Resting)
    /\ OthersUnchanged

\* A send that blocks while the channel is full.
Emit(d) ==
    /\ detector[d].pc = "emit" /\ Len(detected) < DetectedCap
    /\ detected' = Append(detected, Update("upsert", detector[d].id, detector[d].session))
    /\ Goes(d, Resting)
    /\ OthersUnchanged

-----------------------------------------------------------------------------
(* The environment.                                                        *)

\* The manager stamps a session when its event arrives but may announce it
\* later, after newer ones.
Send(type, id, state) ==
    /\ ~closed /\ sent < MaxUpdates /\ Len(updates) < UpdatesCap
    /\ \E at \in 0..(stamp + 1) :
          /\ updates' = Append(updates,
                           Update(type, id, [state |-> state, lastEventAt |-> at]))
          /\ stamp' = IF at > stamp THEN at ELSE stamp
    /\ sent' = sent + 1
    /\ UNCHANGED <<closed, detected, store, forwarderVars, detector, active, cancelled>>

Close == /\ ~closed /\ closed' = TRUE
         /\ UNCHANGED <<updates, detected, store, forwarderVars, detector, envVars>>

Cancel == /\ ~cancelled /\ cancelled' = TRUE
          /\ UNCHANGED <<updates, closed, detected, store, forwarderVars, detector,
                         stamp, sent, active>>

\* The user looks at the pane of another session, or of none.
SwitchPane(id) ==
    /\ active # id /\ active' = id
    /\ UNCHANGED <<updates, closed, detected, store, forwarderVars, detector, stamp,
                   sent, cancelled>>

Tick ==
    /\ sinceFlush' = Older(sinceFlush, Interval)
    /\ timer' = IF timer \in {None, 0} THEN timer ELSE timer - 1
    /\ cache' = [cache EXCEPT !.age = Older(@, CacheTTL)]
    /\ UNCHANGED <<updates, closed, detected, store, pc, current, shown, detector, envVars>>

-----------------------------------------------------------------------------
Forwarder ==
    \/ TakeUpdate \/ Suppress \/ ObserveAndSchedule
    \/ TakeDetected \/ ScheduleDetected
    \/ TimerFires \/ UpdatesClosed \/ Cancelled
Detector(d) == Wake(d) \/ Capture(d) \/ Emit(d)
Environment ==
    \/ \E id \in IDs : \E state \in States : Send("upsert", id, state)
    \/ \E id \in IDs : Send("timeout", id, "working")
    \/ Close \/ Cancel \/ Tick
    \/ \E id \in IDs \cup {None} : SwitchPane(id)

Next == Forwarder \/ (\E d \in Detectors : Detector(d)) \/ Environment

Spec == Init /\ [][Next]_vars

\* The goroutines run and time passes.
Fairness ==
    /\ WF_vars(Forwarder) /\ WF_vars(Tick)
    /\ \A d \in Detectors : WF_vars(Detector(d))
FairSpec == Spec /\ Fairness

-----------------------------------------------------------------------------
TypeOK ==
    /\ Len(updates) <= UpdatesCap /\ Len(detected) <= DetectedCap
    /\ closed \in BOOLEAN /\ cancelled \in BOOLEAN
    /\ store.sessions \in [IDs -> Sessions \cup {None}]
    /\ store.order \in Seq(IDs)
    /\ store.suppressed \subseteq IDs
    /\ cache \in [id : IDs \cup {None}, age : 0..CacheTTL \cup {None}]
    /\ pc \in {"select", "suppress", "schedule", "flush", "done"}
    /\ sinceFlush \in 0..Interval \cup {None}
    /\ timer \in 0..Interval \cup {None}

\* The store lists each of its sessions once and suppresses only those, also when
\* synthetic updates and suppressions come between the manager's updates.
StoreListsOnce == Overlay!StoreConsistent(store)

\* No change of the store is forgotten: whenever the forwarder waits in select,
\* either the panel has what the store has or a timer is set that fires at the
\* end of the running interval (scheduleFlush).
NoForgottenFlush ==
    Selecting => \/ shown = Overlay!Payload(store)
                 \/ timer # None

\* The panel is updated at most once per interval, by a received update or by the
\* timer, save for the last flush when the channel is closed.
FlushesSpaced ==
    [][shown' # shown /\ pc' # "done" => sinceFlush \in {None, Interval}]_vars

\* Updates that keep coming do not postpone the flush that is due.
FlushNotPostponed == [][timer # None /\ timer' # None => timer' <= timer]_vars

\* The panel ends up with what the store holds, unless the daemon stops.
PanelCatchesUp ==
    (shown # Overlay!Payload(store)) ~> (shown = Overlay!Payload(store) \/ cancelled)

\* A detected prompt belongs to the tool run that was observed: when it is
\* applied, the session still is in that run.
DetectionStillCurrent ==
    [][pc = "select" /\ pc' = "flush"
         => LET id == Head(detected).id
            IN  store.sessions[id] # None /\ store.sessions[id].state = "tool_running"]_vars

\* suppressedIDs holds the sessions whose pane is the active one: one that the
\* user has left does not stay suppressed.
SuppressedIsActive ==
    \A id \in IDs : (id \in store.suppressed /\ active # id)
                       ~> (id \notin store.suppressed \/ active = id)
=============================================================================
