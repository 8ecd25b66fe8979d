--------------------------- MODULE UIUpdatesProofs ---------------------------
(***************************************************************************)
(* The store and the throttle of the forwarder, for every number of        *)
(* sessions and detectors, every interval and every order of updates.      *)
(***************************************************************************)
EXTENDS UIUpdates, TLAPS

Model == INSTANCE OverlayModelProofs

Stored == Model!Stores(Sessions)
AnUpdate == Model!UpdatesOf(Sessions)
ADetector ==
    [pc : {"idle", "asleep", "capture", "emit"}, id : IDs \cup {None},
     session : Sessions \cup {None}]

\* The types of the variables.  What the forwarder or a detector is busy with is
\* there while it is busy.
ChannelsOK ==
    /\ updates \in Seq(AnUpdate) /\ Len(updates) <= UpdatesCap
    /\ detected \in Seq(AnUpdate) /\ Len(detected) <= DetectedCap
    /\ closed \in BOOLEAN /\ cancelled \in BOOLEAN
    /\ stamp \in Nat /\ active \in IDs \cup {None}
ForwarderOK ==
    /\ pc \in {"select", "suppress", "schedule", "flush", "done"}
    /\ pc \in {"suppress", "schedule"} => current \in AnUpdate
    /\ cache \in [id : IDs \cup {None}, age : 0..CacheTTL \cup {None}]
ThrottleOK ==
    /\ sinceFlush \in 0..Interval \cup {None}
    /\ timer \in 0..Interval \cup {None}
DetectorsOK ==
    /\ detector \in [Detectors -> ADetector]
    /\ \A d \in Detectors : detector[d].pc # "idle" =>
          detector[d].id \in IDs /\ detector[d].session \in Sessions

\* A timer is set only after a flush, for the rest of its interval.
TimerInv ==
    /\ ThrottleOK
    /\ timer # None => sinceFlush # None /\ timer + sinceFlush = Interval

\* The session whose suppression is being decided is in the store.
JustApplied ==
    pc = "suppress" /\ current.type = "upsert" => current.id \in Overlay!Known(store)

StoreInv == ChannelsOK /\ ForwarderOK /\ DetectorsOK /\ store \in Stored
            /\ StoreListsOnce /\ JustApplied

\* The lemmas on the store, in the names of this module.
LEMMA SameModel ==
    ASSUME NEW s, NEW u, NEW id, NEW x
    PROVE  /\ Overlay!Apply(s, u) = Model!Apply(s, u)
           /\ Overlay!SetSuppressed(s, id, x) = Model!SetSuppressed(s, id, x)
           /\ Overlay!StoreConsistent(s) <=> Model!StoreConsistent(s)
           /\ Overlay!Known(s) = Model!Known(s)
<1>1. Overlay!Known(s) = Model!Known(s)
  BY DEF Overlay!Known, Model!Known
<1>2. Overlay!Apply(s, u) = Model!Apply(s, u)
  BY <1>1 DEF Overlay!Apply, Overlay!Upsert, Overlay!Recorded, Overlay!Forget, Overlay!Without,
        Model!Apply, Model!Upsert, Model!Recorded, Model!Forget, Model!Without
<1>3. Overlay!SetSuppressed(s, id, x) = Model!SetSuppressed(s, id, x)
  BY DEF Overlay!SetSuppressed, Model!SetSuppressed
<1>4. Overlay!StoreConsistent(s) <=> Model!StoreConsistent(s)
  BY <1>1 DEF Overlay!StoreConsistent, Model!StoreConsistent
<1> QED
  BY <1>1, <1>2, <1>3, <1>4

\* Applying an update keeps the store consistent; an upsert leaves its session known.
LEMMA ApplyOK ==
    ASSUME NEW s \in Stored, NEW u \in AnUpdate, Overlay!StoreConsistent(s)
    PROVE  /\ Overlay!Apply(s, u) \in Stored
           /\ Overlay!StoreConsistent(Overlay!Apply(s, u))
           /\ u.type = "upsert" => u.id \in Overlay!Known(Overlay!Apply(s, u))
<1>1. None \notin Sessions
  BY NoneAssumption
<1>2. Overlay!Apply(s, u) = Model!Apply(s, u) /\ Model!StoreConsistent(s)
  BY SameModel
<1>3. /\ Model!Apply(s, u) \in Model!Stores(Sessions)
      /\ Model!StoreConsistent(Model!Apply(s, u))
      /\ u.type = "upsert" => u.id \in Model!Known(Model!Apply(s, u))
  BY <1>1, <1>2, Model!ApplyConsistent DEF Stored, AnUpdate
<1>4. /\ Overlay!StoreConsistent(Model!Apply(s, u)) <=> Model!StoreConsistent(Model!Apply(s, u))
      /\ Overlay!Known(Model!Apply(s, u)) = Model!Known(Model!Apply(s, u))
  BY SameModel
<1> QED
  BY <1>2, <1>3, <1>4 DEF Stored

\* So does setting the suppression of a known session.
LEMMA SuppressOK ==
    ASSUME NEW s \in Stored, NEW id \in Overlay!Known(s), NEW x \in BOOLEAN,
           Overlay!StoreConsistent(s)
    PROVE  /\ Overlay!SetSuppressed(s, id, x) \in Stored
           /\ Overlay!StoreConsistent(Overlay!SetSuppressed(s, id, x))
<1>1. None \notin Sessions
  BY NoneAssumption
<1>2. /\ Overlay!SetSuppressed(s, id, x) = Model!SetSuppressed(s, id, x)
      /\ Model!StoreConsistent(s) /\ id \in Model!Known(s)
  BY SameModel
<1>3. id \in IDs
  BY <1>2 DEF Model!Known
<1>4. /\ Model!SetSuppressed(s, id, x) \in Model!Stores(Sessions)
      /\ Model!StoreConsistent(Model!SetSuppressed(s, id, x))
  BY <1>1, <1>2, <1>3, Model!SetSuppressedConsistent DEF Stored
<1>5. Overlay!StoreConsistent(Model!SetSuppressed(s, id, x))
         <=> Model!StoreConsistent(Model!SetSuppressed(s, id, x))
  BY SameModel
<1> QED
  BY <1>2, <1>4, <1>5 DEF Stored

-----------------------------------------------------------------------------
(* The throttle.                                                           *)

\* What the actions of the throttle do to the timer.
LEMMA ThrottleActions ==
    ASSUME TimerInv
    PROVE  /\ FlushNow => TimerInv'
           /\ ScheduleFlush => TimerInv'
           /\ Tick => TimerInv'
           /\ UNCHANGED <<sinceFlush, timer>> => TimerInv'
           /\ timer' = None /\ UNCHANGED sinceFlush => TimerInv'
<1> USE ConstantsAssumption, NoneAssumption DEF TimerInv, ThrottleOK
<1>1. FlushNow => TimerInv'
  BY DEF FlushNow
<1>2. ScheduleFlush => TimerInv'
  BY <1>1 DEF ScheduleFlush, ArmTimer
<1>3. Tick => TimerInv'
  BY DEF Tick, Older
<1>4. UNCHANGED <<sinceFlush, timer>> => TimerInv'
  OBVIOUS
<1>5. timer' = None /\ UNCHANGED sinceFlush => TimerInv'
  OBVIOUS
<1> QED
  BY <1>1, <1>2, <1>3, <1>4, <1>5

\* Every step flushes, schedules a flush, drops the timer, lets time pass or
\* leaves the throttle alone.
LEMMA ThrottleSteps ==
    ASSUME [Next]_vars
    PROVE  \/ TimerFires
           \/ UpdatesClosed /\ FlushNow
           \/ (ObserveAndSchedule \/ ScheduleDetected) /\ ScheduleFlush
           \/ Cancelled
           \/ Tick
           \/ UNCHANGED <<sinceFlush, timer, shown>>
<1>1. CASE Forwarder
  BY <1>1 DEF Forwarder, TakeUpdate, Suppress, ObserveAndSchedule, TakeDetected,
        ScheduleDetected, UpdatesClosed
<1>2. ASSUME NEW d \in Detectors, Detector(d) PROVE UNCHANGED <<sinceFlush, timer, shown>>
  BY <1>2 DEF Detector, Wake, Capture, Emit, OthersUnchanged, forwarderVars
<1>3. CASE Environment
  BY <1>3 DEF Environment, Send, Close, Cancel, SwitchPane, forwarderVars
<1> QED
  BY <1>1, <1>2, <1>3 DEF Next, vars

\* A timer that runs ends with its interval, after every step.
LEMMA TimerStep ==
    ASSUME TimerInv, [Next]_vars
    PROVE  TimerInv'
<1>1. CASE TimerFires
  BY <1>1, ThrottleActions DEF TimerFires
<1>2. CASE Cancelled
  BY <1>2, ThrottleActions DEF Cancelled
<1> QED
  BY <1>1, <1>2, ThrottleActions, ThrottleSteps

\* A timer that runs is due exactly one interval after the last flush
\* (timer.Reset(wait) in scheduleFlush).
THEOREM TimerCorrect == Spec => []TimerInv
<1>1. Init => TimerInv
  BY ConstantsAssumption, NoneAssumption DEF Init, TimerInv, ThrottleOK
<1>2. TimerInv /\ [Next]_vars => TimerInv'
  BY TimerStep
<1> QED
  BY <1>1, <1>2, PTL DEF Spec

\* The panel is updated at most once per interval, by a received update or by the
\* timer, save for the last flush when the channel is closed (scheduleFlush and
\* the timer branch of forwardUIUpdates).
THEOREM FlushesAreSpaced == Spec => FlushesSpaced
<1>1. ASSUME TimerInv, [Next]_vars, shown' # shown, pc' # "done"
      PROVE  sinceFlush \in {None, Interval}
  <2>1. CASE TimerFires
    BY <1>1, <2>1, ConstantsAssumption, NoneAssumption DEF TimerFires, TimerInv, ThrottleOK
  <2>2. CASE UpdatesClosed
    BY <1>1, <2>2 DEF UpdatesClosed
  <2>3. CASE ScheduleFlush
    BY <1>1, <2>3 DEF ScheduleFlush, ArmTimer
  <2>4. CASE Cancelled \/ Tick
    BY <1>1, <2>4 DEF Cancelled, Tick
  <2> QED
    BY <1>1, <2>1, <2>2, <2>3, <2>4, ThrottleSteps
<1>2. TimerInv /\ [Next]_vars
         => [shown' # shown /\ pc' # "done" => sinceFlush \in {None, Interval}]_vars
  BY <1>1
<1> QED
  BY <1>2, TimerCorrect, PTL DEF Spec, FlushesSpaced

\* Updates that keep coming do not postpone the flush that is due: a timer that is
\* set is never set later (the timerC == nil test of scheduleFlush).
THEOREM FlushIsNotPostponed == Spec => FlushNotPostponed
<1>1. ASSUME TimerInv, [Next]_vars, timer # None, timer' # None
      PROVE  timer' <= timer
  <2> USE ConstantsAssumption, NoneAssumption DEF TimerInv, ThrottleOK
  <2>1. CASE FlushNow \/ TimerFires
    BY <1>1, <2>1 DEF TimerFires, FlushNow
  <2>2. CASE ScheduleFlush
    BY <1>1, <2>2 DEF ScheduleFlush, FlushNow, ArmTimer
  <2>3. CASE Cancelled
    BY <1>1, <2>3 DEF Cancelled
  <2>4. CASE Tick
    BY <1>1, <2>4 DEF Tick
  <2>5. CASE UNCHANGED timer
    BY <1>1, <2>5
  <2> QED
    BY <1>1, <2>1, <2>2, <2>3, <2>4, <2>5, ThrottleSteps
<1>2. TimerInv /\ [Next]_vars => [timer # None /\ timer' # None => timer' <= timer]_vars
  BY <1>1
<1> QED
  BY <1>2, TimerCorrect, PTL DEF Spec, FlushNotPostponed

-----------------------------------------------------------------------------
(* No change of the store is forgotten.                                    *)

\* Whenever the forwarder waits in select, either the panel has what the store has
\* or a timer is set: every branch that changes the store leaves select and comes
\* back through scheduleFlush.
THEOREM NothingForgotten == Spec => []NoForgottenFlush
<1>1. Init => NoForgottenFlush
  BY DEF Init, NoForgottenFlush, Selecting, Overlay!EmptyStore, Overlay!Payload
<1>2. ASSUME NoForgottenFlush, TimerInv, [Next]_vars
      PROVE  NoForgottenFlush'
  <2> USE DEF NoForgottenFlush, Selecting
  <2>1. CASE FlushNow /\ UNCHANGED store
    BY <2>1 DEF FlushNow
  <2>2. CASE ScheduleFlush /\ UNCHANGED store
    <3>1. CASE ArmTimer
      <4>1. CASE timer = None /\ sinceFlush \notin {None, Interval}
        <5>1. sinceFlush \in 0..Interval /\ Interval \in Nat
          BY <1>2, <4>1, ConstantsAssumption DEF TimerInv, ThrottleOK
        <5>2. timer' \in Nat
          BY <3>1, <4>1, <5>1 DEF ArmTimer
        <5> QED
          BY <5>2, NoneAssumption
      <4>2. CASE timer # None
        BY <3>1, <4>2 DEF ArmTimer
      <4> QED
        BY <2>1, <2>2, <4>1, <4>2 DEF ScheduleFlush
    <3> QED
      BY <2>1, <2>2, <3>1 DEF ScheduleFlush
  <2>3. CASE Forwarder
    <3>1. CASE TakeUpdate \/ Suppress \/ TakeDetected
      BY <3>1 DEF TakeUpdate, Suppress, TakeDetected
    <3>2. CASE ObserveAndSchedule \/ ScheduleDetected
      BY <2>2, <3>2 DEF ObserveAndSchedule, ScheduleDetected
    <3>3. CASE TimerFires
      BY <2>1, <3>3 DEF TimerFires
    <3>4. CASE UpdatesClosed \/ Cancelled
      BY <3>4 DEF UpdatesClosed, Cancelled
    <3> QED
      BY <2>3, <3>1, <3>2, <3>3, <3>4 DEF Forwarder
  <2>4. CASE UNCHANGED <<store, pc, shown, timer>>
    BY <1>2, <2>4
  <2>5. ASSUME NEW d \in Detectors, Detector(d) PROVE UNCHANGED <<store, pc, shown, timer>>
    BY <2>5 DEF Detector, Wake, Capture, Emit, OthersUnchanged, forwarderVars
  <2>6. CASE Tick
    <3>1. timer # None => timer' # None
      BY <1>2, <2>6, ConstantsAssumption, NoneAssumption DEF Tick, TimerInv, ThrottleOK
    <3> QED
      BY <1>2, <2>6, <3>1 DEF Tick
  <2>7. CASE Environment /\ ~Tick
    BY <2>4, <2>7 DEF Environment, Send, Close, Cancel, SwitchPane, forwarderVars
  <2> QED
    BY <1>2, <2>3, <2>4, <2>5, <2>6, <2>7 DEF Next, vars
<1> QED
  BY <1>1, <1>2, TimerCorrect, PTL DEF Spec

-----------------------------------------------------------------------------
(* The store.                                                              *)

\* Taking from and appending to a queue.
LEMMA QueueFacts ==
    ASSUME NEW E, NEW q \in Seq(E)
    PROVE  /\ Len(q) \in Nat
           /\ q # <<>> => /\ Head(q) \in E
                          /\ Tail(q) \in Seq(E) /\ Len(Tail(q)) = Len(q) - 1
           /\ \A e \in E : Append(q, e) \in Seq(E) /\ Len(Append(q, e)) = Len(q) + 1
OBVIOUS

\* The fields of an update.
LEMMA UpdateFacts ==
    /\ \A u \in AnUpdate : u.id \in IDs /\ u.session \in Sessions
    /\ \A id \in IDs, x \in Sessions, type \in {"upsert", "timeout"} :
          Update(type, id, x) \in AnUpdate
BY DEF AnUpdate, Model!UpdatesOf, Update

\* The fields of a detector goroutine.
LEMMA DetectorFacts ==
    /\ Resting \in ADetector /\ Resting.pc = "idle"
    /\ \A label \in {"asleep", "capture", "emit"}, id \in IDs, x \in Sessions :
          /\ Goroutine(label, id, x) \in ADetector
          /\ Goroutine(label, id, x).id = id
          /\ Goroutine(label, id, x).session = x
BY DEF Resting, Goroutine, ADetector

\* A step of a detector or of the environment keeps the store, and what is sent
\* or kept for later is an update of a session.
LEMMA OthersKeepTypes ==
    ASSUME StoreInv, (\E d \in Detectors : Detector(d)) \/ Environment
    PROVE  /\ ChannelsOK' /\ ForwarderOK' /\ DetectorsOK'
           /\ UNCHANGED <<store, pc, current>>
<1> USE DEF StoreInv, ChannelsOK, ForwarderOK, DetectorsOK
<1>1. ASSUME NEW d \in Detectors, Detector(d)
      PROVE  /\ ChannelsOK' /\ ForwarderOK' /\ DetectorsOK'
             /\ UNCHANGED <<store, pc, current>>
  <2>1. CASE Wake(d)
    <3>1. StillRuns(d) => store.sessions[detector[d].id] \in Sessions
      BY <2>1 DEF Wake, StillRuns, Stored, Model!Stores
    <3> QED
      BY <2>1, <3>1, DetectorFacts DEF Wake, OthersUnchanged, forwarderVars, envVars, Goes
  <2>2. CASE Capture(d)
    <3>1. [state |-> "waiting", lastEventAt |-> stamp + 1] \in Sessions
      BY DEF Sessions, States
    <3> QED
      BY <2>2, <3>1, DetectorFacts DEF Capture, forwarderVars, Goes
  <2>3. CASE Emit(d)
    BY <2>3, QueueFacts, UpdateFacts, DetectorFacts, ConstantsAssumption
       DEF Emit, OthersUnchanged, forwarderVars, envVars, Goes
  <2> QED
    BY <1>1, <2>1, <2>2, <2>3 DEF Detector
<1>2. ASSUME NEW id \in IDs, NEW type \in {"upsert", "timeout"}, NEW state \in States,
             Send(type, id, state)
      PROVE  /\ ChannelsOK' /\ ForwarderOK' /\ DetectorsOK'
             /\ UNCHANGED <<store, pc, current>>
  BY <1>2, QueueFacts, UpdateFacts, ConstantsAssumption DEF Send, forwarderVars, Sessions
<1>3. CASE Close \/ Cancel
  BY <1>3 DEF Close, Cancel, forwarderVars, envVars
<1>4. CASE Tick
  <2>1. Older(cache.age, CacheTTL) \in 0..CacheTTL \cup {None}
    <3>1. CASE cache.age = None \/ cache.age = CacheTTL
      BY <3>1 DEF Older
    <3>2. CASE cache.age # None /\ cache.age # CacheTTL
      BY <3>2, ConstantsAssumption DEF Older
    <3> QED
      BY <3>1, <3>2
  <2> QED
    BY <1>4, <2>1 DEF Tick, envVars
<1>5. ASSUME NEW id \in IDs \cup {None}, SwitchPane(id)
      PROVE  /\ ChannelsOK' /\ ForwarderOK' /\ DetectorsOK'
             /\ UNCHANGED <<store, pc, current>>
  BY <1>5 DEF SwitchPane, forwarderVars
<1> QED
  BY <1>1, <1>2, <1>3, <1>4, <1>5 DEF Environment, States

\* A step of the forwarder.
LEMMA ForwarderKeepsTypes ==
    ASSUME StoreInv, Forwarder
    PROVE  StoreInv'
<1> USE DEF StoreInv
<1>1. CASE TakeUpdate
  <2>1. /\ Head(updates) \in AnUpdate
        /\ Tail(updates) \in Seq(AnUpdate) /\ Len(Tail(updates)) <= UpdatesCap
    BY <1>1, QueueFacts, ConstantsAssumption DEF TakeUpdate, ChannelsOK
  <2>2. store' \in Stored /\ StoreListsOnce' /\ JustApplied'
    BY <1>1, <2>1, ApplyOK DEF TakeUpdate, StoreListsOnce, JustApplied
  <2>3. ChannelsOK' /\ ForwarderOK' /\ DetectorsOK'
    BY <1>1, <2>1 DEF TakeUpdate, ChannelsOK, ForwarderOK, DetectorsOK, envVars
  <2> QED
    BY <2>2, <2>3
<1>2. CASE Suppress
  <2>1. store' \in Stored /\ StoreListsOnce'
    <3>1. CASE UNCHANGED store
      BY <3>1 DEF StoreListsOnce
    <3>2. CASE Suppressible(current)
                /\ \E x \in BOOLEAN : store' = Overlay!SetSuppressed(store, current.id, x)
      <4>1. current.id \in Overlay!Known(store)
        BY <1>2, <3>2 DEF Suppress, Suppressible, JustApplied
      <4> QED
        BY <3>2, <4>1, SuppressOK DEF StoreListsOnce
    <3> QED
      BY <1>2, <3>1, <3>2 DEF Suppress
  <2>2. JustApplied'
    BY <1>2 DEF Suppress, JustApplied
  <2>3. ChannelsOK' /\ DetectorsOK'
    BY <1>2 DEF Suppress, ChannelsOK, DetectorsOK, envVars
  <2>4. cache' \in [id : IDs \cup {None}, age : 0..CacheTTL \cup {None}]
    <3>1. [id |-> active, age |-> 0] \in [id : IDs \cup {None}, age : 0..CacheTTL \cup {None}]
      BY ConstantsAssumption DEF ChannelsOK
    <3> QED
      BY <1>2, <3>1 DEF Suppress, ForwarderOK
  <2>5. ForwarderOK'
    BY <1>2, <2>4 DEF Suppress, ForwarderOK
  <2> QED
    BY <2>1, <2>2, <2>3, <2>5
<1>3. CASE ObserveAndSchedule
  <2>1. DetectorsOK'
    BY <1>3, DetectorFacts, UpdateFacts DEF ObserveAndSchedule, DetectorsOK, ForwarderOK
  <2>2. ChannelsOK' /\ ForwarderOK'
    BY <1>3 DEF ObserveAndSchedule, ChannelsOK, ForwarderOK, envVars
  <2> QED
    BY <1>3, <2>1, <2>2 DEF ObserveAndSchedule, StoreListsOnce, JustApplied
<1>4. CASE TakeDetected
  <2>1. /\ Head(detected) \in AnUpdate
        /\ Tail(detected) \in Seq(AnUpdate) /\ Len(Tail(detected)) <= DetectedCap
    BY <1>4, QueueFacts, ConstantsAssumption DEF TakeDetected, ChannelsOK
  <2>2. store' \in Stored /\ StoreListsOnce' /\ JustApplied'
    BY <1>4, <2>1, ApplyOK DEF TakeDetected, StoreListsOnce, JustApplied
  <2>3. ChannelsOK' /\ DetectorsOK'
    BY <1>4, <2>1 DEF TakeDetected, ChannelsOK, DetectorsOK, envVars
  <2>4. ForwarderOK'
    BY <1>4 DEF TakeDetected, ForwarderOK
  <2> QED
    BY <2>2, <2>3, <2>4
<1>5. CASE ScheduleDetected \/ TimerFires \/ UpdatesClosed \/ Cancelled
  BY <1>5 DEF ScheduleDetected, TimerFires, UpdatesClosed, Cancelled, Selecting,
        ChannelsOK, ForwarderOK, DetectorsOK, StoreListsOnce, JustApplied, envVars
<1> QED
  BY <1>1, <1>2, <1>3, <1>4, <1>5 DEF Forwarder

\* The strengthened invariant of the store.
LEMMA StoreCorrect == Spec => []StoreInv
<1>1. Init => StoreInv
  <2> SUFFICES ASSUME Init PROVE StoreInv
    OBVIOUS
  <2>1. store \in Stored /\ StoreListsOnce
    BY DEF Init, Overlay!EmptyStore, Stored, Model!Stores, StoreListsOnce,
          Overlay!StoreConsistent, Overlay!Known
  <2>2. ChannelsOK
    <3>1. <<>> \in Seq(AnUpdate) /\ Len(<<>>) = 0
      OBVIOUS
    <3>2. Len(updates) <= UpdatesCap /\ Len(detected) <= DetectedCap
      BY <3>1, ConstantsAssumption DEF Init
    <3> QED
      BY <3>1, <3>2 DEF Init, ChannelsOK
  <2>3. ForwarderOK /\ JustApplied
    BY DEF Init, ForwarderOK, JustApplied
  <2>4. DetectorsOK
    BY DetectorFacts DEF Init, DetectorsOK
  <2> QED
    BY <2>1, <2>2, <2>3, <2>4 DEF StoreInv
<1>2. StoreInv /\ [Next]_vars => StoreInv'
  <2> SUFFICES ASSUME StoreInv, [Next]_vars PROVE StoreInv'
    OBVIOUS
  <2>1. CASE UNCHANGED vars
    BY <2>1 DEF vars, envVars, StoreInv, ChannelsOK, ForwarderOK, DetectorsOK, StoreListsOnce,
          JustApplied
  <2>2. CASE (\E d \in Detectors : Detector(d)) \/ Environment
    BY <2>2, OthersKeepTypes DEF StoreInv, StoreListsOnce, JustApplied
  <2> QED
    BY <2>1, <2>2, ForwarderKeepsTypes DEF Next
<1> QED
  BY <1>1, <1>2, PTL DEF Spec

\* The store lists each of its sessions once and suppresses only those: a session
\* is suppressed right after its update was applied, and no other goroutine takes
\* it out in between (updateSessionSuppression).
THEOREM StoreListsEachOnce == Spec => []StoreListsOnce
<1>1. StoreInv => StoreListsOnce
  BY DEF StoreInv
<1> QED
  BY <1>1, StoreCorrect, PTL

\* Every variable has its type, the channels stay within their capacities and the
\* ages and the timer within the interval.
THEOREM TypeCorrect == Spec => []TypeOK
<1>1. StoreInv /\ TimerInv => TypeOK
  BY DEF StoreInv, ChannelsOK, ForwarderOK, Stored, Model!Stores, TimerInv, ThrottleOK, TypeOK
<1> QED
  BY <1>1, StoreCorrect, TimerCorrect, PTL
=============================================================================
