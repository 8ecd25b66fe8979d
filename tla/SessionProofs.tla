---------------------------- MODULE SessionProofs ----------------------------
(***************************************************************************)
(* Theorems about the session manager, and about the store that it feeds   *)
(* (SessionPipeline), for every value of their constants.                  *)
(***************************************************************************)
EXTENDS SessionPipeline, TLAPS

-----------------------------------------------------------------------------
(* Type correctness.  TypeOK is not inductive: the locals of a goroutine   *)
(* are well typed only where its control state says so.                    *)

Mid == {"announce", "ensure", "resolve", "open", "clear", "install"}

\* A goroutine has the locals that its next step reads.
Ready ==
    /\ \A t \in Threads :
          /\ pc[t] \in Mid => job[t].session \in Sessions
          /\ pc[t] \in Mid \cup {"close", "removed", "asleep", "store"}
                => job[t].id \in SessionIDs
          /\ pc[t] \in {"install", "close"} => job[t].handle \in Monitors
    /\ \A m \in Monitors :
          pc[m] \in {"polling", "exited", "remove"} => watch[m] \in Watches

TypeInv == TypeOK /\ Ready

\* The record that HandleMessage stores is a session.
LEMMA UpsertedType ==
    ASSUME TypeOK, NEW s \in SessionIDs, NEW e \in KnownEvents, NEW c \in Claims,
           NEW parent \in BOOLEAN, NEW text \in Nat
    PROVE  Upserted(s, e, c, parent, text) \in Sessions
<1>1. Existing(s) \in Sessions
  BY DEF TypeOK, ManagerTypeOK, Existing, ZeroSession, Sessions, States, Identities
<1>2. ResolveIdentity(Existing(s).identity, c) \in Identities
  BY <1>1, ClaimsAssumption DEF Sessions, Identities, ResolveIdentity, Resolve
<1>3. AdjustedState(e, Existing(s).subagent \/ parent) \in States
  BY DEF AdjustedState, StateOf, States
<1>4. Existing(s).subagent \/ parent \in BOOLEAN
  OBVIOUS
<1>5. Resolve(Existing(s).reply, text) \in Nat /\ Existing(s).reply \in Nat
  BY <1>1 DEF Sessions, Resolve
<1>6. clock \in Nat
  BY BoundsAssumption DEF TypeOK, EnvironmentTypeOK
<1> QED
  BY <1>2, <1>3, <1>4, <1>5, <1>6 DEF Upserted, Sessions

\* notify keeps the channel well typed and within its capacity.
LEMMA NotifiedType ==
    ASSUME ManagerTypeOK, NEW u \in Updates
    PROVE  Notified(u) \in Seq(Updates) /\ Len(Notified(u)) <= ChannelCap
BY BoundsAssumption DEF ManagerTypeOK, Notified

\* What may be put into the locals of a goroutine.
LEMMA JobTypes ==
    /\ NoJob \in Jobs
    /\ \A s \in SessionIDs : [NoJob EXCEPT !.id = s] \in Jobs
    /\ \A s \in SessionIDs, x \in Sessions : [NoJob EXCEPT !.id = s, !.session = x] \in Jobs
    /\ \A j \in Jobs : /\ \A m \in Monitors \cup {None} : [j EXCEPT !.handle = m] \in Jobs
                       /\ \A x \in Sessions : [j EXCEPT !.session = x] \in Jobs
                       /\ \A n \in Nat : [j EXCEPT !.reply = n] \in Jobs
BY DEF Jobs, NoJob

\* A goroutine goes on to the next step, or is done.
LEMMA StepType ==
    ASSUME ThreadTypeOK, NEW t \in Threads, NEW label \in Labels, NEW j \in Jobs,
           pc' = [pc EXCEPT ![t] = label], job' = [job EXCEPT ![t] = j]
    PROVE  ThreadTypeOK'
BY DEF ThreadTypeOK

LEMMA FinishType ==
    ASSUME ThreadTypeOK, NEW t \in Threads, Finish(t)
    PROVE  ThreadTypeOK'
BY JobTypes DEF ThreadTypeOK, Finish, Labels

LEMMA FinishReady ==
    ASSUME ThreadTypeOK, Ready, NEW t \in Threads, Finish(t), UNCHANGED watch
    PROVE  Ready'
BY DEF ThreadTypeOK, Ready, Finish, Mid, Threads

LEMMA InitTypeInv == Init => TypeInv
BY ThreadsAssumption, BoundsAssumption
   DEF Init, TypeInv, TypeOK, ManagerTypeOK, MonitorTypeOK, ThreadTypeOK, PrunerTypeOK,
       EnvironmentTypeOK, Ready, Threads, Labels, Jobs, NoJob, Mid

\* Every step keeps the invariant, one action at a time.
LEMMA NextTypeInv == TypeInv /\ [Next]_vars => TypeInv'
<1> SUFFICES ASSUME TypeInv, [Next]_vars PROVE TypeInv'
  OBVIOUS
<1> USE ThreadsAssumption, BoundsAssumption
    DEF TypeInv, TypeOK, Threads, managerVars, monitorVars, pruneVars, envVars
<1>1. ASSUME NEW h \in Handlers, NEW s \in SessionIDs, NEW e \in KnownEvents,
             NEW c \in Claims, NEW parent \in BOOLEAN, NEW text \in 0..MaxReplies,
             HandleMessage(h, s, e, c, parent, text)
      PROVE  TypeInv'
  <2>1. MonitorTypeOK' /\ PrunerTypeOK'
    BY <1>1 DEF HandleMessage, Receives, MonitorTypeOK, PrunerTypeOK
  <2>2. ManagerTypeOK'
    BY <1>1, UpsertedType DEF HandleMessage, Receives, ManagerTypeOK, Ready, Mid
  <2>3. ThreadTypeOK'
    <3> DEFINE new == Upserted(s, e, c, parent, text)
    <3> HIDE DEF new
    <3>1. new \in Sessions
      BY UpsertedType DEF new
    <3> DEFINE own == [NoJob EXCEPT !.id = s, !.session = new]
    <3>2. own \in Jobs
      BY <3>1, JobTypes
    <3>3. CASE /\ pc' = [pc EXCEPT ![h] = "announce"]
               /\ job' = [job EXCEPT ![h] = own]
      BY <3>2, <3>3, StepType DEF Labels
    <3>4. ASSUME NEW r \in Readers, pc[r] = "idle",
                 pc' = [pc EXCEPT ![h] = "announce", ![r] = "asleep"],
                 job' = [job EXCEPT ![h] = own, ![r] = [NoJob EXCEPT !.id = s]]
          PROVE  ThreadTypeOK'
      BY <3>2, <3>4, JobTypes DEF ThreadTypeOK, Labels
    <3> QED
      BY <1>1, <3>3, <3>4 DEF HandleMessage, new
  <2>4. EnvironmentTypeOK'
    BY <1>1 DEF HandleMessage, Receives, EnvironmentTypeOK
  <2>5. Ready'
    <3> DEFINE new == Upserted(s, e, c, parent, text)
    <3> HIDE DEF new
    <3>1. new \in Sessions
      BY UpsertedType DEF new
    <3> DEFINE own == [NoJob EXCEPT !.id = s, !.session = new]
    <3>2. own \in Jobs
      BY <3>1, JobTypes
    <3>3. CASE /\ pc' = [pc EXCEPT ![h] = "announce"]
               /\ job' = [job EXCEPT ![h] = own]
      <4>1. job'[h].id = s /\ job'[h].session = new
        BY <3>3 DEF ThreadTypeOK, NoJob
      <4> QED
        BY <1>1, <3>1, <3>3, <4>1 DEF HandleMessage, ThreadTypeOK, Ready, Mid
    <3>4. ASSUME NEW r \in Readers, pc[r] = "idle",
                 pc' = [pc EXCEPT ![h] = "announce", ![r] = "asleep"],
                 job' = [job EXCEPT ![h] = own, ![r] = [NoJob EXCEPT !.id = s]]
          PROVE  Ready'
      <4>1. job'[h].id = s /\ job'[h].session = new /\ job'[r].id = s
        BY <3>4 DEF ThreadTypeOK, NoJob
      <4> QED
        BY <1>1, <3>1, <3>4, <4>1 DEF HandleMessage, ThreadTypeOK, Ready, Mid
    <3> QED
      BY <1>1, <3>3, <3>4 DEF HandleMessage, new
  <2> QED
    BY <2>1, <2>2, <2>3, <2>4, <2>5
<1>2. ASSUME NEW t \in Handlers \cup Readers,
             Announce(t)
      PROVE  TypeInv'
  <2>1. MonitorTypeOK' /\ PrunerTypeOK' /\ EnvironmentTypeOK'
    BY <1>2 DEF Announce, MonitorTypeOK, PrunerTypeOK, EnvironmentTypeOK
  <2>2. ManagerTypeOK'
    BY <1>2, NotifiedType DEF Announce, Updates, ManagerTypeOK, Ready, Mid
  <2>3. ThreadTypeOK'
    BY <1>2, JobTypes, FinishType DEF Announce, ThreadTypeOK, Labels, Ready, Mid
  <2>4. Ready'
    BY <1>2 DEF Announce, ThreadTypeOK, Ready, Mid, NoJob, Finish
  <2> QED
    BY <2>1, <2>2, <2>3, <2>4
<1>3. ASSUME NEW h \in Handlers,
             CheckMonitor(h)
      PROVE  TypeInv'
  <2>1. ManagerTypeOK' /\ MonitorTypeOK' /\ PrunerTypeOK' /\ EnvironmentTypeOK'
    BY <1>3 DEF CheckMonitor, ManagerTypeOK, MonitorTypeOK, PrunerTypeOK, EnvironmentTypeOK
  <2>2. ThreadTypeOK'
    <3>1. CASE Finish(h)
      BY <3>1, FinishType
    <3>2. CASE pc' = [pc EXCEPT ![h] = "resolve"] /\ UNCHANGED job
      BY <3>2 DEF ThreadTypeOK, Labels
    <3> QED
      BY <1>3, <3>1, <3>2 DEF CheckMonitor
  <2>3. Ready'
    BY <1>3 DEF CheckMonitor, ThreadTypeOK, Ready, Mid, NoJob, Finish
  <2> QED
    BY <2>1, <2>2, <2>3
<1>4. ASSUME NEW h \in Handlers,
             ResolvePid(h) \/ OpenFails(h)
      PROVE  TypeInv'
  <2>1. ManagerTypeOK' /\ MonitorTypeOK' /\ PrunerTypeOK' /\ EnvironmentTypeOK'
    BY <1>4 DEF ResolvePid, OpenFails, ManagerTypeOK, MonitorTypeOK, PrunerTypeOK, EnvironmentTypeOK
  <2>2. ThreadTypeOK'
    BY <1>4, JobTypes, FinishType DEF ResolvePid, OpenFails, ThreadTypeOK, Labels, Ready, Mid
  <2>3. Ready'
    BY <1>4 DEF ResolvePid, OpenFails, ThreadTypeOK, Ready, Mid, NoJob, Finish
  <2> QED
    BY <2>1, <2>2, <2>3
<1>5. ASSUME NEW h \in Handlers,
             InstallMonitor(h)
      PROVE  TypeInv'
  <2>1. MonitorTypeOK' /\ PrunerTypeOK' /\ EnvironmentTypeOK'
    BY <1>5 DEF InstallMonitor, MonitorTypeOK, PrunerTypeOK, EnvironmentTypeOK
  <2>2. ManagerTypeOK'
    BY <1>5 DEF InstallMonitor, ManagerTypeOK, Ready, Mid, Entries, Sessions
  <2>3. ThreadTypeOK'
    <3>1. CASE Finish(h)
      BY <3>1, FinishType
    <3>2. CASE /\ monitors[job[h].id] # None
               /\ pc' = [pc EXCEPT ![h] = "close"]
               /\ job' = [job EXCEPT ![h].handle = monitors[job[h].id].handle]
      <4>1. job[h].id \in SessionIDs
        BY <1>5 DEF InstallMonitor, Ready, Mid
      <4>2. monitors[job[h].id].handle \in Monitors
        BY <3>2, <4>1 DEF ManagerTypeOK, Entries
      <4>3. job[h] \in Jobs /\ job' = [job EXCEPT ![h] = [job[h] EXCEPT !.handle = monitors[job[h].id].handle]]
        BY <3>2 DEF ThreadTypeOK
      <4> QED
        BY <3>2, <4>2, <4>3, JobTypes, StepType DEF Labels
    <3> QED
      BY <1>5, <3>1, <3>2 DEF InstallMonitor
  <2>4. Ready'
    <3>1. CASE Finish(h)
      BY <1>5, <3>1, FinishReady DEF InstallMonitor
    <3>2. CASE /\ monitors[job[h].id] # None
               /\ pc' = [pc EXCEPT ![h] = "close"]
               /\ job' = [job EXCEPT ![h].handle = monitors[job[h].id].handle]
      <4>1. job[h].id \in SessionIDs
        BY <1>5 DEF InstallMonitor, Ready, Mid
      <4>2. monitors[job[h].id].handle \in Monitors
        BY <3>2, <4>1 DEF ManagerTypeOK, Entries
      <4>3. job'[h].id = job[h].id /\ job'[h].handle \in Monitors
        BY <3>2, <4>2 DEF ThreadTypeOK, Jobs
      <4> QED
        BY <1>5, <3>2, <4>1, <4>3 DEF InstallMonitor, ThreadTypeOK, Ready, Mid
    <3> QED
      BY <1>5, <3>1, <3>2 DEF InstallMonitor
  <2> QED
    BY <2>1, <2>2, <2>3, <2>4
<1>6. ASSUME NEW h \in Handlers,
             ClearMonitor(h)
      PROVE  TypeInv'
  <2>1. MonitorTypeOK' /\ PrunerTypeOK' /\ EnvironmentTypeOK'
    BY <1>6 DEF ClearMonitor, MonitorTypeOK, PrunerTypeOK, EnvironmentTypeOK
  <2>2. ManagerTypeOK'
    BY <1>6 DEF ClearMonitor, ManagerTypeOK, Ready, Mid
  <2>3. ThreadTypeOK'
    <3>1. CASE Finish(h)
      BY <3>1, FinishType
    <3>2. CASE /\ monitors[job[h].id] # None
               /\ pc' = [pc EXCEPT ![h] = "close"]
               /\ job' = [job EXCEPT ![h].handle = monitors[job[h].id].handle]
      <4>1. job[h].id \in SessionIDs
        BY <1>6 DEF ClearMonitor, Ready, Mid
      <4>2. monitors[job[h].id].handle \in Monitors
        BY <3>2, <4>1 DEF ManagerTypeOK, Entries
      <4>3. job[h] \in Jobs /\ job' = [job EXCEPT ![h] = [job[h] EXCEPT !.handle = monitors[job[h].id].handle]]
        BY <3>2 DEF ThreadTypeOK
      <4> QED
        BY <3>2, <4>2, <4>3, JobTypes, StepType DEF Labels
    <3> QED
      BY <1>6, <3>1, <3>2 DEF ClearMonitor
  <2>4. Ready'
    <3>1. CASE Finish(h)
      BY <1>6, <3>1, FinishReady DEF ClearMonitor
    <3>2. CASE /\ monitors[job[h].id] # None
               /\ pc' = [pc EXCEPT ![h] = "close"]
               /\ job' = [job EXCEPT ![h].handle = monitors[job[h].id].handle]
      <4>1. job[h].id \in SessionIDs
        BY <1>6 DEF ClearMonitor, Ready, Mid
      <4>2. monitors[job[h].id].handle \in Monitors
        BY <3>2, <4>1 DEF ManagerTypeOK, Entries
      <4>3. job'[h].id = job[h].id /\ job'[h].handle \in Monitors
        BY <3>2, <4>2 DEF ThreadTypeOK, Jobs
      <4> QED
        BY <1>6, <3>2, <4>1, <4>3 DEF ClearMonitor, ThreadTypeOK, Ready, Mid
    <3> QED
      BY <1>6, <3>1, <3>2 DEF ClearMonitor
  <2> QED
    BY <2>1, <2>2, <2>3, <2>4
<1>7. ASSUME NEW h \in Handlers,
             CloseMonitor(h)
      PROVE  TypeInv'
  <2>1. ManagerTypeOK' /\ PrunerTypeOK' /\ EnvironmentTypeOK'
    BY <1>7 DEF CloseMonitor, ManagerTypeOK, PrunerTypeOK, EnvironmentTypeOK
  <2>2. MonitorTypeOK'
    BY <1>7 DEF CloseMonitor, MonitorTypeOK, Ready, Mid
  <2>3. ThreadTypeOK'
    BY <1>7, JobTypes, FinishType DEF CloseMonitor, ThreadTypeOK, Labels, Ready, Mid
  <2>4. Ready'
    BY <1>7 DEF CloseMonitor, ThreadTypeOK, Ready, Mid, NoJob, Finish
  <2> QED
    BY <2>1, <2>2, <2>3, <2>4
<1>8. ASSUME NEW h \in Handlers, NEW m \in Monitors, NEW p \in Processes,
             OpenMonitor(h, m, p)
      PROVE  TypeInv'
  <2>1. ManagerTypeOK' /\ PrunerTypeOK' /\ EnvironmentTypeOK'
    BY <1>8 DEF OpenMonitor, ManagerTypeOK, PrunerTypeOK, EnvironmentTypeOK
  <2>2. MonitorTypeOK'
    BY <1>8 DEF OpenMonitor, MonitorTypeOK, Ready, Mid, Watches, Sessions
  <2>3. ThreadTypeOK'
    BY <1>8, JobTypes, FinishType DEF OpenMonitor, ThreadTypeOK, Labels, Ready, Mid
  <2>4. Ready'
    BY <1>8 DEF OpenMonitor, ThreadTypeOK, Ready, Mid, NoJob, Finish, MonitorTypeOK, Watches, Sessions
  <2> QED
    BY <2>1, <2>2, <2>3, <2>4
<1>9. ASSUME NEW t \in Handlers \cup Monitors,
             CloseRemoved(t)
      PROVE  TypeInv'
  <2>1. ManagerTypeOK' /\ PrunerTypeOK' /\ EnvironmentTypeOK'
    BY <1>9 DEF CloseRemoved, ManagerTypeOK, PrunerTypeOK, EnvironmentTypeOK
  <2>2. MonitorTypeOK'
    BY <1>9 DEF CloseRemoved, MonitorTypeOK, Ready, Mid
  <2>3. ThreadTypeOK'
    BY <1>9, JobTypes, FinishType DEF CloseRemoved, ThreadTypeOK, Labels, Ready, Mid
  <2>4. Ready'
    BY <1>9 DEF CloseRemoved, ThreadTypeOK, Ready, Mid, NoJob, Finish, ManagerTypeOK, Sessions, Jobs
  <2> QED
    BY <2>1, <2>2, <2>3, <2>4
<1>10. ASSUME NEW t \in Handlers \cup Monitors,
             AnnounceRemoval(t)
      PROVE  TypeInv'
  <2>1. MonitorTypeOK' /\ PrunerTypeOK' /\ EnvironmentTypeOK'
    BY <1>10 DEF AnnounceRemoval, MonitorTypeOK, PrunerTypeOK, EnvironmentTypeOK
  <2>2. ManagerTypeOK'
    BY <1>10, NotifiedType DEF AnnounceRemoval, Updates, ManagerTypeOK, Ready, Mid, Jobs, ThreadTypeOK
  <2>3. ThreadTypeOK'
    BY <1>10, JobTypes, FinishType DEF AnnounceRemoval, ThreadTypeOK, Labels, Ready, Mid
  <2>4. Ready'
    BY <1>10 DEF AnnounceRemoval, ThreadTypeOK, Ready, Mid, NoJob, Finish
  <2> QED
    BY <2>1, <2>2, <2>3, <2>4
<1>11. ASSUME NEW h \in Handlers, NEW s \in SessionIDs,
             EndSession(h, s)
      PROVE  TypeInv'
  <2>1. MonitorTypeOK' /\ PrunerTypeOK'
    BY <1>11 DEF EndSession, Remove, MonitorTypeOK, PrunerTypeOK
  <2>2. ManagerTypeOK'
    BY <1>11 DEF EndSession, Remove, ManagerTypeOK, Ready, Mid, Watches
  <2>3. ThreadTypeOK'
    <3>1. s \in SessionIDs
      BY <1>11 DEF EndSession, Ready, Watches
    <3>2. [id |-> s, session |-> sessions[s], reply |-> 0,
           handle |-> IF monitors[s] = None THEN None ELSE monitors[s].handle] \in Jobs
      BY <3>1 DEF ManagerTypeOK, Entries, Jobs
    <3> QED
      BY <1>11, <3>2, StepType DEF EndSession, Remove, Labels
  <2>4. EnvironmentTypeOK'
    BY <1>11 DEF EndSession, Remove, EnvironmentTypeOK
  <2>5. Ready'
    BY <1>11 DEF EndSession, Remove, ThreadTypeOK, Ready, Mid, NoJob, Finish
  <2> QED
    BY <2>1, <2>2, <2>3, <2>4, <2>5
<1>12. ASSUME NEW m \in Monitors,
             MonitorWakes(m)
      PROVE  TypeInv'
  <2>1. ManagerTypeOK' /\ MonitorTypeOK' /\ PrunerTypeOK' /\ EnvironmentTypeOK'
    BY <1>12 DEF MonitorWakes, ManagerTypeOK, MonitorTypeOK, PrunerTypeOK, EnvironmentTypeOK
  <2>2. ThreadTypeOK'
    BY <1>12, JobTypes, FinishType DEF MonitorWakes, ThreadTypeOK, Labels, Ready, Mid
  <2>3. Ready'
    BY <1>12 DEF MonitorWakes, ThreadTypeOK, Ready, Mid, NoJob, Finish
  <2> QED
    BY <2>1, <2>2, <2>3
<1>13. ASSUME NEW m \in Monitors,
             PollFails(m)
      PROVE  TypeInv'
  <2>1. ManagerTypeOK' /\ MonitorTypeOK' /\ PrunerTypeOK' /\ EnvironmentTypeOK'
    BY <1>13 DEF PollFails, ManagerTypeOK, MonitorTypeOK, PrunerTypeOK, EnvironmentTypeOK
  <2>2. ThreadTypeOK'
    BY <1>13, JobTypes, FinishType DEF PollFails, ThreadTypeOK, Labels, Ready, Mid
  <2>3. Ready'
    BY <1>13 DEF PollFails, ThreadTypeOK, Ready, Mid, NoJob, Finish
  <2> QED
    BY <2>1, <2>2, <2>3
<1>14. ASSUME NEW m \in Monitors,
             CheckExit(m)
      PROVE  TypeInv'
  <2>1. ManagerTypeOK' /\ MonitorTypeOK' /\ PrunerTypeOK' /\ EnvironmentTypeOK'
    BY <1>14 DEF CheckExit, ManagerTypeOK, MonitorTypeOK, PrunerTypeOK, EnvironmentTypeOK
  <2>2. ThreadTypeOK'
    BY <1>14, JobTypes, FinishType DEF CheckExit, ThreadTypeOK, Labels, Ready, Mid
  <2>3. Ready'
    BY <1>14 DEF CheckExit, ThreadTypeOK, Ready, Mid, NoJob, Finish
  <2> QED
    BY <2>1, <2>2, <2>3
<1>15. ASSUME NEW m \in Monitors,
             RemoveExited(m)
      PROVE  TypeInv'
  <2>1. MonitorTypeOK' /\ PrunerTypeOK' /\ EnvironmentTypeOK'
    BY <1>15 DEF RemoveExited, Remove, MonitorTypeOK, PrunerTypeOK, EnvironmentTypeOK
  <2>2. ManagerTypeOK'
    BY <1>15 DEF RemoveExited, Remove, ManagerTypeOK, Ready, Mid, Watches
  <2>3. ThreadTypeOK'
    <3>1. watch[m].id \in SessionIDs
      BY <1>15 DEF RemoveExited, Ready, Watches
    <3>2. [id |-> watch[m].id, session |-> sessions[watch[m].id], reply |-> 0,
           handle |-> IF monitors[watch[m].id] = None THEN None ELSE monitors[watch[m].id].handle] \in Jobs
      BY <3>1 DEF ManagerTypeOK, Entries, Jobs
    <3> QED
      BY <1>15, <3>2, StepType DEF RemoveExited, Remove, Labels
  <2>4. Ready'
    BY <1>15 DEF RemoveExited, Remove, ThreadTypeOK, Ready, Mid, NoJob, Finish, Watches
  <2> QED
    BY <2>1, <2>2, <2>3, <2>4
<1>16. ASSUME NEW r \in Readers,
             ReadTranscript(r)
      PROVE  TypeInv'
  <2>1. ManagerTypeOK' /\ MonitorTypeOK' /\ PrunerTypeOK' /\ EnvironmentTypeOK'
    BY <1>16 DEF ReadTranscript, ManagerTypeOK, MonitorTypeOK, PrunerTypeOK, EnvironmentTypeOK
  <2>2. ThreadTypeOK'
    <3>1. CASE Finish(r)
      BY <3>1, FinishType
    <3>2. CASE /\ pc' = [pc EXCEPT ![r] = "store"]
               /\ job' = [job EXCEPT ![r].reply = transcript[job[r].id]]
      <4>1. job[r].id \in SessionIDs
        BY <1>16 DEF ReadTranscript, Ready, Mid
      <4>2. transcript[job[r].id] \in Nat
        BY <4>1 DEF EnvironmentTypeOK
      <4>3. job[r] \in Jobs /\ job' = [job EXCEPT ![r] = [job[r] EXCEPT !.reply = transcript[job[r].id]]]
        BY <3>2 DEF ThreadTypeOK
      <4> QED
        BY <3>2, <4>2, <4>3, JobTypes, StepType DEF Labels
    <3> QED
      BY <1>16, <3>1, <3>2 DEF ReadTranscript
  <2>3. Ready'
    <3>1. CASE Finish(r)
      BY <1>16, <3>1, FinishReady DEF ReadTranscript
    <3>2. CASE /\ pc' = [pc EXCEPT ![r] = "store"]
               /\ job' = [job EXCEPT ![r].reply = transcript[job[r].id]]
      <4>1. job[r].id \in SessionIDs
        BY <1>16 DEF ReadTranscript, Ready, Mid
      <4>2. job'[r].id = job[r].id
        BY <3>2 DEF ThreadTypeOK, Jobs
      <4> QED
        BY <1>16, <3>2, <4>1, <4>2 DEF ReadTranscript, ThreadTypeOK, Ready, Mid
    <3> QED
      BY <1>16, <3>1, <3>2 DEF ReadTranscript
  <2> QED
    BY <2>1, <2>2, <2>3
<1>17. ASSUME NEW r \in Readers,
             StoreReply(r)
      PROVE  TypeInv'
  <2>1. MonitorTypeOK' /\ PrunerTypeOK' /\ EnvironmentTypeOK'
    BY <1>17 DEF StoreReply, Annotated, MonitorTypeOK, PrunerTypeOK, EnvironmentTypeOK
  <2>2. ManagerTypeOK'
    <3>1. CASE Finish(r) /\ UNCHANGED sessions
      BY <1>17, <3>1 DEF StoreReply, Annotated, ManagerTypeOK
    <3>2. CASE /\ sessions[job[r].id] # None
               /\ sessions' = [sessions EXCEPT ![job[r].id] =
                                  [sessions[job[r].id] EXCEPT !.reply = job[r].reply]]
               /\ pc' = [pc EXCEPT ![r] = "announce"]
               /\ job' = [job EXCEPT ![r].session =
                             [sessions[job[r].id] EXCEPT !.reply = job[r].reply]]
      <4>1. job[r].id \in SessionIDs /\ job[r] \in Jobs
        BY <1>17 DEF StoreReply, Annotated, Ready, Mid, ThreadTypeOK
      <4>2. [sessions[job[r].id] EXCEPT !.reply = job[r].reply] \in Sessions
        BY <3>2, <4>1 DEF ManagerTypeOK, Sessions, Jobs
      <4> QED
        BY <1>17, <3>2, <4>1, <4>2 DEF StoreReply, Annotated, ManagerTypeOK
    <3> QED
      BY <1>17, <3>1, <3>2 DEF StoreReply, Annotated
  <2>3. ThreadTypeOK'
    <3>1. CASE Finish(r) /\ UNCHANGED sessions
      BY <1>17, <3>1, FinishType
    <3>2. CASE /\ sessions[job[r].id] # None
               /\ sessions' = [sessions EXCEPT ![job[r].id] =
                                  [sessions[job[r].id] EXCEPT !.reply = job[r].reply]]
               /\ pc' = [pc EXCEPT ![r] = "announce"]
               /\ job' = [job EXCEPT ![r].session =
                             [sessions[job[r].id] EXCEPT !.reply = job[r].reply]]
      <4>1. job[r].id \in SessionIDs /\ job[r] \in Jobs
        BY <1>17 DEF StoreReply, Annotated, Ready, Mid, ThreadTypeOK
      <4>2. [sessions[job[r].id] EXCEPT !.reply = job[r].reply] \in Sessions
        BY <3>2, <4>1 DEF ManagerTypeOK, Sessions, Jobs
      <4>3. job' = [job EXCEPT ![r] = [job[r] EXCEPT !.session =
                               [sessions[job[r].id] EXCEPT !.reply = job[r].reply]]]
        BY <3>2 DEF ThreadTypeOK
      <4> QED
        BY <3>2, <4>1, <4>2, <4>3, JobTypes, StepType DEF Labels
    <3> QED
      BY <1>17, <3>1, <3>2 DEF StoreReply, Annotated
  <2>4. Ready'
    <3>1. CASE Finish(r) /\ UNCHANGED sessions
      BY <1>17, <3>1, FinishReady DEF StoreReply, Annotated
    <3>2. CASE /\ sessions[job[r].id] # None
               /\ sessions' = [sessions EXCEPT ![job[r].id] =
                                  [sessions[job[r].id] EXCEPT !.reply = job[r].reply]]
               /\ pc' = [pc EXCEPT ![r] = "announce"]
               /\ job' = [job EXCEPT ![r].session =
                             [sessions[job[r].id] EXCEPT !.reply = job[r].reply]]
      <4>1. job[r].id \in SessionIDs /\ job[r] \in Jobs
        BY <1>17 DEF StoreReply, Annotated, Ready, Mid, ThreadTypeOK
      <4>2. [sessions[job[r].id] EXCEPT !.reply = job[r].reply] \in Sessions
        BY <3>2, <4>1 DEF ManagerTypeOK, Sessions, Jobs
      <4>3. job'[r].id = job[r].id /\ job'[r].session \in Sessions
        BY <3>2, <4>1, <4>2 DEF ThreadTypeOK, Jobs
      <4> QED
        BY <1>17, <3>2, <4>1, <4>3 DEF StoreReply, Annotated, ThreadTypeOK, Ready, Mid
    <3> QED
      BY <1>17, <3>1, <3>2 DEF StoreReply, Annotated
  <2> QED
    BY <2>1, <2>2, <2>3, <2>4
<1>18. ASSUME PruneTick PROVE TypeInv'
  <2>1. ManagerTypeOK' /\ MonitorTypeOK' /\ EnvironmentTypeOK'
    BY <1>18 DEF PruneTick, ManagerTypeOK, MonitorTypeOK, EnvironmentTypeOK
  <2>2. ThreadTypeOK'
    BY <1>18, JobTypes, FinishType DEF PruneTick, ThreadTypeOK, Labels, Ready, Mid
  <2>3. PrunerTypeOK'
    BY <1>18 DEF PruneTick, PrunerTypeOK, EnvironmentTypeOK
  <2>4. Ready'
    BY <1>18 DEF PruneTick, ThreadTypeOK, Ready, Mid, NoJob, Finish
  <2> QED
    BY <2>1, <2>2, <2>3, <2>4
<1>19. ASSUME PruneExpired PROVE TypeInv'
  <2>1. MonitorTypeOK' /\ EnvironmentTypeOK'
    BY <1>19 DEF PruneExpired, MonitorTypeOK, EnvironmentTypeOK
  <2>2. ManagerTypeOK'
    BY <1>19 DEF PruneExpired, ManagerTypeOK, Ready, Mid
  <2>3. ThreadTypeOK'
    BY <1>19, JobTypes, FinishType DEF PruneExpired, ThreadTypeOK, Labels, Ready, Mid
  <2>4. PrunerTypeOK'
    BY <1>19 DEF PruneExpired, PrunerTypeOK, ManagerTypeOK
  <2>5. Ready'
    BY <1>19 DEF PruneExpired, ThreadTypeOK, Ready, Mid, NoJob, Finish
  <2> QED
    BY <2>1, <2>2, <2>3, <2>4, <2>5
<1>20. ASSUME AnnounceExpired PROVE TypeInv'
  <2>1. MonitorTypeOK' /\ EnvironmentTypeOK'
    BY <1>20 DEF AnnounceExpired, MonitorTypeOK, EnvironmentTypeOK
  <2>2. ManagerTypeOK'
    BY <1>20, NotifiedType DEF AnnounceExpired, Updates, ManagerTypeOK, Ready, Mid, PrunerTypeOK
  <2>3. ThreadTypeOK'
    BY <1>20, JobTypes, FinishType DEF AnnounceExpired, ThreadTypeOK, Labels, Ready, Mid
  <2>4. PrunerTypeOK'
    BY <1>20 DEF AnnounceExpired, PrunerTypeOK
  <2>5. Ready'
    BY <1>20 DEF AnnounceExpired, ThreadTypeOK, Ready, Mid, NoJob, Finish
  <2> QED
    BY <2>1, <2>2, <2>3, <2>4, <2>5
<1>21. ASSUME Tick PROVE TypeInv'
  <2>1. ManagerTypeOK' /\ MonitorTypeOK' /\ ThreadTypeOK' /\ PrunerTypeOK'
    BY <1>21 DEF Tick, ManagerTypeOK, MonitorTypeOK, ThreadTypeOK, PrunerTypeOK
  <2>2. EnvironmentTypeOK'
    BY <1>21 DEF Tick, EnvironmentTypeOK
  <2>3. Ready'
    BY <1>21 DEF Tick, ThreadTypeOK, Ready, Mid, NoJob, Finish
  <2> QED
    BY <2>1, <2>2, <2>3
<1>22. ASSUME NEW p \in Processes,
             ProcessStarts(p)
      PROVE  TypeInv'
  <2>1. ManagerTypeOK' /\ MonitorTypeOK' /\ ThreadTypeOK' /\ PrunerTypeOK'
    BY <1>22 DEF ProcessStarts, ManagerTypeOK, MonitorTypeOK, ThreadTypeOK, PrunerTypeOK
  <2>2. EnvironmentTypeOK'
    BY <1>22 DEF ProcessStarts, EnvironmentTypeOK
  <2>3. Ready'
    BY <1>22 DEF ProcessStarts, ThreadTypeOK, Ready, Mid, NoJob, Finish
  <2> QED
    BY <2>1, <2>2, <2>3
<1>23. ASSUME NEW p \in Processes,
             ProcessExits(p)
      PROVE  TypeInv'
  <2>1. ManagerTypeOK' /\ MonitorTypeOK' /\ ThreadTypeOK' /\ PrunerTypeOK'
    BY <1>23 DEF ProcessExits, ManagerTypeOK, MonitorTypeOK, ThreadTypeOK, PrunerTypeOK
  <2>2. EnvironmentTypeOK'
    BY <1>23 DEF ProcessExits, EnvironmentTypeOK
  <2>3. Ready'
    BY <1>23 DEF ProcessExits, ThreadTypeOK, Ready, Mid, NoJob, Finish
  <2> QED
    BY <2>1, <2>2, <2>3
<1>24. ASSUME NEW s \in SessionIDs,
             AgentReplies(s)
      PROVE  TypeInv'
  <2>1. ManagerTypeOK' /\ MonitorTypeOK' /\ ThreadTypeOK' /\ PrunerTypeOK'
    BY <1>24 DEF AgentReplies, ManagerTypeOK, MonitorTypeOK, ThreadTypeOK, PrunerTypeOK
  <2>2. EnvironmentTypeOK'
    BY <1>24 DEF AgentReplies, EnvironmentTypeOK
  <2>3. Ready'
    BY <1>24 DEF AgentReplies, ThreadTypeOK, Ready, Mid, NoJob, Finish
  <2> QED
    BY <2>1, <2>2, <2>3
<1>25. ASSUME ReceiveUpdate PROVE TypeInv'
  <2>1. MonitorTypeOK' /\ ThreadTypeOK' /\ PrunerTypeOK' /\ EnvironmentTypeOK'
    BY <1>25 DEF ReceiveUpdate, MonitorTypeOK, ThreadTypeOK, PrunerTypeOK, EnvironmentTypeOK
  <2>2. ManagerTypeOK'
    BY <1>25 DEF ReceiveUpdate, ManagerTypeOK, Ready, Mid
  <2>3. Ready'
    BY <1>25 DEF ReceiveUpdate, ThreadTypeOK, Ready, Mid, NoJob, Finish
  <2> QED
    BY <2>1, <2>2, <2>3
<1>26. CASE UNCHANGED vars
  BY <1>26 DEF vars, Ready, ManagerTypeOK, MonitorTypeOK, ThreadTypeOK, PrunerTypeOK,
               EnvironmentTypeOK
<1>27. ASSUME NEW h \in Handlers, Hook(h) PROVE TypeInv'
  <2>1. ASSUME NEW s \in SessionIDs, NEW e \in Events \ {"session_end"}, NEW c \in Claims,
               NEW parent \in BOOLEAN, NEW text \in 0..MaxReplies,
               HandleMessage(h, s, e, c, parent, text)
        PROVE  TypeInv'
    <3>1. e \in KnownEvents
      BY <2>1 DEF HandleMessage
    <3> QED
      BY <3>1, <2>1, <1>1
  <2> QED
    BY <1>27, <2>1, <1>11 DEF Hook
<1>28. ASSUME NEW h \in Handlers, Handler(h) PROVE TypeInv'
  BY <1>28, <1>2, <1>3, <1>4, <1>5, <1>6, <1>7, <1>8, <1>9, <1>10 DEF Handler
<1>29. ASSUME Manager PROVE TypeInv'
  BY <1>29, <1>27, <1>28, <1>2, <1>9, <1>10, <1>12, <1>13, <1>14, <1>15, <1>16,
     <1>17, <1>18, <1>19, <1>20 DEF Manager, Monitor, Reader, Prune
<1> QED
  BY <1>21, <1>22, <1>23, <1>24, <1>25, <1>26, <1>29 DEF Next, Environment

\* Every variable of the manager keeps its type, and the channel its capacity,
\* whatever the goroutines do.
THEOREM TypeCorrect == Spec => []TypeOK
<1>1. Init => TypeInv
  BY InitTypeInv
<1>2. TypeInv /\ [Next]_vars => TypeInv'
  BY NextTypeInv
<1>3. TypeInv => TypeOK
  BY DEF TypeInv
<1> QED
  BY <1>1, <1>2, <1>3, PTL DEF Spec

-----------------------------------------------------------------------------
(* A session whose agent runs is kept.  What a session says of its agent   *)
(* was true of processes that had been born, no two of which have the same *)
(* pid at a time; so when the process behind a pidfd has exited, no other  *)
(* process can be the agent that the monitor was started for.              *)

Born == {p \in Processes : processes[p] # "unborn"}

\* The pid and the start time, each by itself, are of processes that were born.
Named(identity, born) ==
    /\ identity.pid # 0 => \E p \in born : PidOf[p] = identity.pid
    /\ identity.start # 0 => \E p \in born : StartOf[p] = identity.start

NamesBorn ==
    /\ \A s \in SessionIDs : sessions[s] # None => Named(sessions[s].identity, Born)
    /\ \A t \in Threads : pc[t] \in Mid => Named(job[t].session.identity, Born)

OnePerPid == \A p, q \in Running : PidOf[p] = PidOf[q] => p = q

\* No process but the watched one can be the agent any more.
NoOther(w, gone) ==
    w.identity.start # 0 =>
        \A p \in Processes \ {w.process} :
            PidOf[p] = w.identity.pid /\ StartOf[p] = w.identity.start => p \in gone

Exited == {p \in Processes : processes[p] = "exited"}

WatchesAgent ==
    \A m \in Monitors :
        /\ pc[m] \in {"polling", "exited", "remove"} => NoOther(watch[m], Exited)
        /\ pc[m] \in {"exited", "remove"} => watch[m].process \in Exited

LifeInv == NamesBorn /\ OnePerPid /\ WatchesAgent

\* Nothing that is known of the agents is lost as time goes on.
LEMMA NamedStays ==
    ASSUME NEW A, NEW B, A \subseteq B
    PROVE  \A i : Named(i, A) => Named(i, B)
BY DEF Named

LEMMA NoOtherStays ==
    ASSUME NEW A, NEW B, A \subseteq B
    PROVE  \A w : NoOther(w, A) => NoOther(w, B)
BY DEF NoOther

\* A process is born once and exits once.
LEMMA ProcessesStep ==
    ASSUME TypeInv, OnePerPid, [Next]_vars
    PROVE  /\ Born \subseteq Born' /\ Exited \subseteq Exited'
           /\ OnePerPid'
<1> USE DEF TypeInv, TypeOK, EnvironmentTypeOK
<1>1. ASSUME NEW p \in Processes, ProcessStarts(p)
      PROVE  Born \subseteq Born' /\ Exited \subseteq Exited' /\ OnePerPid'
  BY <1>1 DEF ProcessStarts, Born, Exited, OnePerPid, Running
<1>2. ASSUME NEW p \in Processes, ProcessExits(p)
      PROVE  Born \subseteq Born' /\ Exited \subseteq Exited' /\ OnePerPid'
  BY <1>2 DEF ProcessExits, Born, Exited, OnePerPid, Running
<1>3. CASE UNCHANGED processes
  BY <1>3 DEF Born, Exited, OnePerPid, Running
<1>4. CASE Manager
  <2>1. ASSUME NEW h \in Handlers, Hook(h) PROVE UNCHANGED processes
    <3>1. ASSUME NEW s, NEW e, NEW c, NEW parent, NEW text,
                 HandleMessage(h, s, e, c, parent, text)
          PROVE  UNCHANGED processes
      BY <3>1 DEF HandleMessage
    <3>2. ASSUME NEW s, EndSession(h, s) PROVE UNCHANGED processes
      BY <3>2 DEF EndSession
    <3> QED
      BY <2>1, <3>1, <3>2 DEF Hook
  <2>2. ASSUME NEW h \in Handlers, Handler(h) PROVE UNCHANGED processes
    BY <2>2 DEF Handler, Announce, CheckMonitor, ResolvePid, OpenFails, InstallMonitor, ClearMonitor,
          CloseMonitor, CloseRemoved, AnnounceRemoval, OpenMonitor, envVars
  <2>3. ASSUME NEW m \in Monitors, Monitor(m) \/ PollFails(m) PROVE UNCHANGED processes
    BY <2>3 DEF Monitor, MonitorWakes, CheckExit, RemoveExited, CloseRemoved, AnnounceRemoval,
          PollFails, envVars
  <2>4. ASSUME NEW r \in Readers, Reader(r) PROVE UNCHANGED processes
    BY <2>4 DEF Reader, ReadTranscript, StoreReply, Announce, envVars
  <2>5. ASSUME Prune PROVE UNCHANGED processes
    BY <2>5 DEF Prune, PruneTick, PruneExpired, AnnounceExpired, envVars
  <2> QED
    BY <1>3, <1>4, <2>1, <2>2, <2>3, <2>4, <2>5 DEF Manager
<1>5. CASE Environment
  BY <1>1, <1>2, <1>3, <1>5 DEF Environment, Tick, AgentReplies
<1>6. CASE ReceiveUpdate \/ UNCHANGED vars
  BY <1>3, <1>6 DEF ReceiveUpdate, vars, envVars
<1> QED
  BY <1>4, <1>5, <1>6 DEF Next

\* The identity that a message leaves in its session.
LEMMA ResolvedNamed ==
    ASSUME HooksNameTheirAgent, TypeInv, NamesBorn, NEW s \in SessionIDs, NEW c \in Claims,
           c.process # None => processes[c.process] # "unborn"
    PROVE  Named(ResolveIdentity(Existing(s).identity, c), Born)
<1> DEFINE old == Existing(s).identity
<1>1. old \in Identities /\ Named(old, Born)
  BY DEF TypeInv, TypeOK, ManagerTypeOK, Existing, ZeroSession, Sessions, Identities, NamesBorn, Named
<1>2. /\ c.pid \in Nat /\ c.start \in Nat
      /\ c.pid # 0 => c.process \in Born /\ c.pid = PidOf[c.process]
      /\ c.start # 0 => c.process \in Born /\ c.start = StartOf[c.process]
  BY ClaimsAssumption DEF HooksNameTheirAgent, Identities, Born
<1> HIDE DEF old
<1>3. ResolveIdentity(old, c) = [pid |-> Resolve(old.pid, c.pid),
                                 start |-> Resolve(old.start, c.start)]
  BY DEF ResolveIdentity
<1>4. /\ Resolve(old.pid, c.pid) # 0 => \E p \in Born : PidOf[p] = Resolve(old.pid, c.pid)
      /\ Resolve(old.start, c.start) # 0 =>
            \E p \in Born : StartOf[p] = Resolve(old.start, c.start)
  BY <1>1, <1>2 DEF Resolve, Named, Identities
<1> QED
  BY <1>3, <1>4 DEF Named, old

\* A step that gives no session another agent and lets no goroutine start on one.
LEMMA AgentsKept ==
    ASSUME NamesBorn, Born \subseteq Born',
           \A s \in SessionIDs : sessions'[s] = None \/ sessions'[s] = sessions[s],
           \A t \in Threads :
              pc'[t] \in Mid => pc[t] \in Mid /\ job'[t].session = job[t].session
    PROVE  NamesBorn'
BY NamedStays DEF NamesBorn

\* Every step keeps what is known of the agents' identities.
LEMMA NamesStep ==
    ASSUME HooksNameTheirAgent, TypeInv, NamesBorn, OnePerPid, [Next]_vars
    PROVE  NamesBorn'
<1> USE DEF TypeInv, TypeOK, Threads
<1>1. Born \subseteq Born'
  BY ProcessesStep
<1>2. ASSUME NEW h \in Handlers, NEW s \in SessionIDs, NEW e \in KnownEvents, NEW c \in Claims,
             NEW parent \in BOOLEAN, NEW text \in 0..MaxReplies,
             HandleMessage(h, s, e, c, parent, text)
      PROVE  NamesBorn'
  <2> DEFINE new == Upserted(s, e, c, parent, text)
             own == [NoJob EXCEPT !.id = s, !.session = new]
  <2>1. Named(new.identity, Born)
    <3>1. c.process # None => processes[c.process] # "unborn"
      BY <1>2 DEF HandleMessage, Receives
    <3>2. new.identity = ResolveIdentity(Existing(s).identity, c)
      BY DEF Upserted
    <3> QED
      BY <3>1, <3>2, ResolvedNamed
  <2>2. own.session = new
    BY DEF NoJob
  <2>3. /\ sessions' = [sessions EXCEPT ![s] = new]
        /\ \/ pc' = [pc EXCEPT ![h] = "announce"] /\ job' = [job EXCEPT ![h] = own]
           \/ \E r \in Readers : /\ pc' = [pc EXCEPT ![h] = "announce", ![r] = "asleep"]
                                 /\ job' = [job EXCEPT ![h] = own,
                                                       ![r] = [NoJob EXCEPT !.id = s]]
    BY <1>2 DEF HandleMessage
  <2> HIDE DEF new, own
  <2>4. /\ job'[h].session = new
        /\ \A t \in Threads \ {h} :
              pc'[t] \in Mid => pc[t] \in Mid /\ job'[t].session = job[t].session
    BY <2>2, <2>3, ThreadsAssumption DEF ThreadTypeOK, Mid
  <2>5. \A q \in SessionIDs : sessions'[q] = IF q = s THEN new ELSE sessions[q]
    BY <2>3 DEF ManagerTypeOK
  <2>6. Named(new.identity, Born')
    BY <1>1, <2>1, NamedStays
  <2> QED
    BY <1>1, <2>4, <2>5, <2>6, NamedStays DEF NamesBorn
<1>3. ASSUME NEW t \in Handlers \cup Monitors, NEW s \in SessionIDs, Remove(t, s)
      PROVE  NamesBorn'
  BY <1>1, <1>3, AgentsKept DEF Remove, ManagerTypeOK, ThreadTypeOK, Mid
<1>4. ASSUME NEW h \in Handlers, Hook(h) PROVE NamesBorn'
  <2>1. ASSUME NEW s \in SessionIDs, NEW e \in Events \ {"session_end"}, NEW c \in Claims,
               NEW parent \in BOOLEAN, NEW text \in 0..MaxReplies,
               HandleMessage(h, s, e, c, parent, text)
        PROVE  e \in KnownEvents
    BY <2>1 DEF HandleMessage
  <2>2. ASSUME NEW s \in SessionIDs, EndSession(h, s) PROVE NamesBorn'
    BY <1>3, <2>2 DEF EndSession
  <2> QED
    BY <1>2, <1>4, <2>1, <2>2 DEF Hook
<1>5. ASSUME NEW h \in Handlers, Handler(h) PROVE NamesBorn'
  <2>1. UNCHANGED sessions
    BY <1>5 DEF Handler, Announce, CheckMonitor, ResolvePid, OpenFails, InstallMonitor, ClearMonitor,
          CloseMonitor, CloseRemoved, AnnounceRemoval, OpenMonitor, managerVars
  <2>2. \A t \in Threads :
           pc'[t] \in Mid => pc[t] \in Mid /\ job'[t].session = job[t].session
    <3>1. CASE Announce(h) \/ CheckMonitor(h) \/ ResolvePid(h) \/ OpenFails(h)
      BY <3>1 DEF Announce, CheckMonitor, ResolvePid, OpenFails, Finish, ThreadTypeOK, Mid
    <3>2. CASE InstallMonitor(h) \/ ClearMonitor(h) \/ CloseMonitor(h)
      BY <3>2 DEF InstallMonitor, ClearMonitor, CloseMonitor, Finish, ThreadTypeOK, Mid
    <3>3. CASE CloseRemoved(h) \/ AnnounceRemoval(h)
      BY <3>3 DEF CloseRemoved, AnnounceRemoval, Finish, ThreadTypeOK, Mid
    <3>4. ASSUME NEW m \in Monitors, NEW p \in Processes, OpenMonitor(h, m, p)
          PROVE  \A t \in Threads :
                    pc'[t] \in Mid => pc[t] \in Mid /\ job'[t].session = job[t].session
      BY <3>4 DEF OpenMonitor, ThreadTypeOK, Jobs, Mid
    <3> QED
      BY <1>5, <3>1, <3>2, <3>3, <3>4 DEF Handler
  <2> QED
    BY <1>1, <2>1, <2>2, AgentsKept
<1>6. ASSUME NEW m \in Monitors, Monitor(m) \/ PollFails(m) PROVE NamesBorn'
  <2>1. CASE RemoveExited(m)
    BY <1>3, <2>1 DEF RemoveExited, Ready, Watches
  <2>2. CASE ~RemoveExited(m)
    <3>1. UNCHANGED sessions
      BY <1>6, <2>2 DEF Monitor, MonitorWakes, CheckExit, CloseRemoved, AnnounceRemoval, PollFails,
            managerVars
    <3>2. \A t \in Threads :
             pc'[t] \in Mid => pc[t] \in Mid /\ job'[t].session = job[t].session
      BY <1>6, <2>2 DEF Monitor, MonitorWakes, CheckExit, CloseRemoved, AnnounceRemoval, PollFails,
            Finish, ThreadTypeOK, Mid
    <3> QED
      BY <1>1, <3>1, <3>2, AgentsKept
  <2> QED
    BY <2>1, <2>2
<1>7. ASSUME NEW r \in Readers, Reader(r) PROVE NamesBorn'
  <2>1. CASE ReadTranscript(r) \/ Announce(r)
    <3>1. UNCHANGED sessions
      BY <2>1 DEF ReadTranscript, Announce, managerVars
    <3>2. \A t \in Threads :
             pc'[t] \in Mid => pc[t] \in Mid /\ job'[t].session = job[t].session
      BY <2>1 DEF ReadTranscript, Announce, Finish, ThreadTypeOK, Mid
    <3> QED
      BY <1>1, <3>1, <3>2, AgentsKept
  <2>2. CASE StoreReply(r) /\ UNCHANGED sessions /\ Finish(r)
    BY <1>1, <2>2, AgentsKept DEF Finish, ThreadTypeOK, Mid
  <2>3. CASE StoreReply(r) /\ ~(UNCHANGED sessions /\ Finish(r))
    <3> DEFINE s == job[r].id
               new == [sessions[s] EXCEPT !.reply = job[r].reply]
    <3>1. s \in SessionIDs /\ pc[r] = "store"
      BY <2>3 DEF StoreReply, Annotated, Ready
    <3>2. /\ sessions[s] # None /\ sessions' = [sessions EXCEPT ![s] = new]
          /\ pc' = [pc EXCEPT ![r] = "announce"] /\ job' = [job EXCEPT ![r].session = new]
      BY <2>3 DEF StoreReply, Annotated
    <3>3. sessions[s] \in Sessions /\ new.identity = sessions[s].identity
      BY <3>1, <3>2 DEF ManagerTypeOK, Sessions
    <3>4. Named(new.identity, Born')
      BY <1>1, <3>1, <3>2, <3>3, NamedStays DEF NamesBorn
    <3> HIDE DEF new, s
    <3>5. /\ job'[r].session = new
          /\ \A t \in Threads \ {r} : pc'[t] = pc[t] /\ job'[t] = job[t]
          /\ \A q \in SessionIDs : sessions'[q] = IF q = s THEN new ELSE sessions[q]
      BY <3>1, <3>2 DEF ThreadTypeOK, Jobs, ManagerTypeOK
    <3> QED
      BY <1>1, <3>4, <3>5, NamedStays DEF NamesBorn
  <2> QED
    BY <1>7, <2>1, <2>2, <2>3 DEF Reader
<1>8. ASSUME Prune PROVE NamesBorn'
  <2>1. \A s \in SessionIDs : sessions'[s] = None \/ sessions'[s] = sessions[s]
    BY <1>8 DEF Prune, PruneTick, PruneExpired, AnnounceExpired, managerVars
  <2>2. \A t \in Threads : pc'[t] \in Mid => pc'[t] = pc[t] /\ job' = job
    BY <1>8 DEF Prune, PruneTick, PruneExpired, AnnounceExpired, ThreadTypeOK, Mid
  <2> QED
    BY <1>1, <2>1, <2>2, AgentsKept
<1>9. CASE Environment \/ ReceiveUpdate \/ UNCHANGED vars
  <2>1. UNCHANGED <<sessions, pc, job>>
    BY <1>9 DEF Environment, Tick, ProcessStarts, ProcessExits, AgentReplies, ReceiveUpdate, vars,
          managerVars
  <2> QED
    BY <1>1, <2>1, AgentsKept
<1> QED
  BY <1>4, <1>5, <1>6, <1>7, <1>8, <1>9 DEF Next, Manager

\* When a pidfd is opened, its process is the only one left that can be the agent.
LEMMA OpenedWatches ==
    ASSUME AgentsToldApart, TypeInv, NamesBorn, OnePerPid,
           NEW h \in Handlers, NEW m \in Monitors, NEW p \in Processes, OpenMonitor(h, m, p)
    PROVE  NoOther(watch'[m], Exited)
<1> USE DEF TypeInv, TypeOK
<1> DEFINE identity == job[h].session.identity
<1>1. watch'[m] = [id |-> job[h].id, process |-> p, identity |-> identity]
  BY DEF OpenMonitor, MonitorTypeOK
<1>2. p \in Running /\ PidOf[p] = identity.pid /\ PidOf[p] # 0
  BY ProcessAssumption DEF OpenMonitor, Running
<1>3. Named(identity, Born)
  BY DEF OpenMonitor, NamesBorn, Threads, Mid
<1> HIDE DEF identity
<1>4. ASSUME identity.start # 0, NEW q \in Processes \ {p},
             PidOf[q] = identity.pid, StartOf[q] = identity.start
      PROVE  q \in Exited
  <2>1. PICK r \in Born : StartOf[r] = identity.start
    BY <1>3, <1>4 DEF Named
  <2>2. q \in Born
    BY <1>2, <1>4, <2>1 DEF AgentsToldApart, Born
  <2>3. q \notin Running
    BY <1>2, <1>4 DEF OnePerPid
  <2> QED
    BY <1>4, <2>2, <2>3 DEF EnvironmentTypeOK, Born, Running, Exited
<1> QED
  BY <1>1, <1>4 DEF NoOther

\* Every step keeps what the monitors know of the processes they watch.
LEMMA WatchesStep ==
    ASSUME AgentsToldApart, TypeInv, LifeInv, [Next]_vars
    PROVE  WatchesAgent'
<1> USE DEF TypeInv, TypeOK, Threads, LifeInv
<1>1. Exited \subseteq Exited'
  BY ProcessesStep
<1>2. ASSUME \A m \in Monitors : watch'[m] = watch[m],
             \A m \in Monitors :
                /\ pc'[m] \in {"polling", "exited", "remove"} =>
                      pc[m] \in {"polling", "exited", "remove"}
                /\ pc'[m] \in {"exited", "remove"} =>
                      pc[m] \in {"exited", "remove"} \/ watch[m].process \in Exited
      PROVE  WatchesAgent'
  BY <1>1, <1>2, NoOtherStays DEF WatchesAgent
<1>3. ASSUME NEW h \in Handlers, NEW m \in Monitors, NEW p \in Processes, OpenMonitor(h, m, p)
      PROVE  WatchesAgent'
  <2>1. NoOther(watch'[m], Exited')
    BY <1>1, <1>3, OpenedWatches, NoOtherStays
  <2>2. pc'[m] = "polling"
    BY <1>3 DEF OpenMonitor, ThreadTypeOK
  <2>3. \A n \in Monitors \ {m} : pc'[n] = pc[n] /\ watch'[n] = watch[n]
    BY <1>3, ThreadsAssumption DEF OpenMonitor, ThreadTypeOK, MonitorTypeOK
  <2> QED
    BY <1>1, <2>1, <2>2, <2>3, NoOtherStays DEF WatchesAgent
<1>4. ASSUME NEW h \in Handlers, Hook(h) PROVE WatchesAgent'
  <2>1. ASSUME NEW s, NEW e, NEW c, NEW parent, NEW text,
               HandleMessage(h, s, e, c, parent, text)
        PROVE  UNCHANGED watch /\ \A m \in Monitors : pc'[m] = pc[m]
    <3>1. \/ pc' = [pc EXCEPT ![h] = "announce"]
          \/ \E r \in Readers : pc' = [pc EXCEPT ![h] = "announce", ![r] = "asleep"]
      BY <2>1 DEF HandleMessage
    <3>2. UNCHANGED watch
      BY <2>1 DEF HandleMessage, monitorVars
    <3> QED
      BY <3>1, <3>2, ThreadsAssumption DEF ThreadTypeOK
  <2>2. ASSUME NEW s, EndSession(h, s)
        PROVE  UNCHANGED watch /\ \A m \in Monitors : pc'[m] = pc[m]
    BY <2>2, ThreadsAssumption DEF EndSession, Remove, ThreadTypeOK, monitorVars
  <2> QED
    BY <1>2, <1>4, <2>1, <2>2 DEF Hook
<1>5. ASSUME NEW h \in Handlers, Handler(h) PROVE WatchesAgent'
  <2>1. CASE Announce(h) \/ CheckMonitor(h) \/ ResolvePid(h) \/ OpenFails(h) \/ InstallMonitor(h)
             \/ ClearMonitor(h) \/ CloseMonitor(h) \/ CloseRemoved(h) \/ AnnounceRemoval(h)
    <3>1. UNCHANGED watch
      BY <2>1 DEF Announce, CheckMonitor, ResolvePid, OpenFails, InstallMonitor, ClearMonitor,
            CloseMonitor, CloseRemoved, AnnounceRemoval, monitorVars
    <3>2. \A m \in Monitors : pc'[m] = pc[m]
      BY <2>1, ThreadsAssumption DEF Announce, CheckMonitor, ResolvePid, OpenFails, InstallMonitor,
            ClearMonitor, CloseMonitor, CloseRemoved, AnnounceRemoval, Finish, ThreadTypeOK
    <3> QED
      BY <1>2, <3>1, <3>2
  <2> QED
    BY <1>3, <1>5, <2>1 DEF Handler
<1>6. ASSUME NEW m \in Monitors, Monitor(m) \/ PollFails(m) PROVE WatchesAgent'
  <2>1. UNCHANGED watch
    BY <1>6 DEF Monitor, MonitorWakes, CheckExit, RemoveExited, CloseRemoved, AnnounceRemoval,
          PollFails, monitorVars
  <2>2. \A n \in Monitors \ {m} : pc'[n] = pc[n]
    BY <1>6 DEF Monitor, MonitorWakes, CheckExit, RemoveExited, Remove, CloseRemoved,
          AnnounceRemoval, PollFails, Finish, ThreadTypeOK
  <2>3. /\ pc'[m] \in {"polling", "exited", "remove"} =>
              pc[m] \in {"polling", "exited", "remove"}
        /\ pc'[m] \in {"exited", "remove"} =>
              pc[m] \in {"exited", "remove"} \/ watch[m].process \in Exited
    <3>1. CASE MonitorWakes(m)
      BY <3>1 DEF MonitorWakes, ThreadTypeOK, Exited, Ready, Watches
    <3>2. CASE ~MonitorWakes(m)
      BY <1>6, <3>2 DEF Monitor, CheckExit, RemoveExited, Remove, CloseRemoved, AnnounceRemoval,
            PollFails, Finish, ThreadTypeOK
    <3> QED
      BY <3>1, <3>2
  <2> QED
    BY <1>2, <2>1, <2>2, <2>3
<1>7. ASSUME NEW r \in Readers, Reader(r) PROVE WatchesAgent'
  <2>1. UNCHANGED watch /\ \A m \in Monitors : pc'[m] = pc[m]
    BY <1>7, ThreadsAssumption DEF Reader, ReadTranscript, StoreReply, Announce, Finish,
          ThreadTypeOK, monitorVars
  <2> QED
    BY <1>2, <2>1
<1>8. ASSUME Prune PROVE WatchesAgent'
  <2>1. UNCHANGED watch /\ \A m \in Monitors : pc'[m] = pc[m]
    BY <1>8, ThreadsAssumption DEF Prune, PruneTick, PruneExpired, AnnounceExpired, ThreadTypeOK,
          monitorVars
  <2> QED
    BY <1>2, <2>1
<1>9. CASE Environment \/ ReceiveUpdate \/ UNCHANGED vars
  <2>1. UNCHANGED <<watch, pc>>
    BY <1>9 DEF Environment, Tick, ProcessStarts, ProcessExits, AgentReplies, ReceiveUpdate, vars,
          monitorVars
  <2> QED
    BY <1>2, <2>1
<1> QED
  BY <1>4, <1>5, <1>6, <1>7, <1>8, <1>9 DEF Next, Manager

\* A session that expires has no agent left.
LEMMA ExpiredHasNoAgent ==
    ASSUME NEW x \in Sessions, Expired(x), x.identity.pid \notin Hidden
    PROVE  Agents(x.identity) = {}
<1>1. CASE x.identity.pid = 0
  BY <1>1, ProcessAssumption DEF Agents, Running
<1>2. CASE x.identity.pid # 0
  <2>1. Reached(x.identity) = {}
    BY <1>2 DEF Expired, LooksAlive, Sessions, Identities
  <2>2. Resolved(x.identity) = {}
    BY <2>1 DEF Reached
  <2> QED
    BY <2>2 DEF Resolved, Agents
<1> QED
  BY <1>1, <1>2

\* A monitor whose process has exited removes no session of an agent that runs, if
\* it was started for the agent that the session has.
LEMMA WatchedHasNoAgent ==
    ASSUME TypeInv, LifeInv, NEW m \in Monitors, pc[m] = "remove", watch[m].identity.start # 0
    PROVE  Agents(watch[m].identity) = {}
<1> DEFINE w == watch[m]
<1>1. NoOther(w, Exited) /\ w.process \in Exited
  BY DEF LifeInv, WatchesAgent
<1> HIDE DEF w
<1>2. \A p \in Running : p \notin Exited
  BY DEF Running, Exited
<1>3. w.identity.start # 0
  BY DEF w
<1>4. Agents(w.identity) = {}
  BY <1>1, <1>2, <1>3 DEF NoOther, Agents, Running
<1> QED
  BY <1>4 DEF w

\* A session whose agent still runs goes away only when a hook ends it: neither its
\* age nor the exit of another process that had the same pid takes it (pruneExpired,
\* isSessionProcessAlive, handleSessionProcessExit).
THEOREM LiveSessionStays ==
    ASSUME HooksNameTheirAgent, AgentsToldApart
    PROVE  Spec => LiveSessionKept
<1>1. Init => TypeInv /\ LifeInv
  <2> SUFFICES ASSUME Init PROVE TypeInv /\ LifeInv
    OBVIOUS
  <2>1. OnePerPid /\ WatchesAgent
    BY DEF Init, OnePerPid, Running, WatchesAgent, Threads
  <2>2. NamesBorn
    BY DEF Init, NamesBorn, Threads, Mid
  <2> QED
    BY <2>1, <2>2, InitTypeInv DEF LifeInv
<1>2. TypeInv /\ LifeInv /\ [Next]_vars => (TypeInv /\ LifeInv)'
  BY NextTypeInv, ProcessesStep, NamesStep, WatchesStep DEF LifeInv
<1>3. ASSUME TypeInv, LifeInv, [Next]_vars, NEW s \in SessionIDs,
             sessions[s] # None, sessions'[s] = None,
             sessions[s].identity.pid \notin Hidden, sessions[s].identity.start # 0
      PROVE  \/ received' # received
             \/ Agents(sessions[s].identity) = {}
             \/ \E m \in Monitors : /\ pc[m] = "remove" /\ pc'[m] = "removed"
                                    /\ watch[m].identity # sessions[s].identity
  <2> USE DEF TypeInv, TypeOK
  <2>1. sessions[s] \in Sessions
    BY <1>3 DEF ManagerTypeOK
  <2>2. ASSUME NEW h \in Handlers, Hook(h) PROVE received' # received
    <3>1. received \in Nat
      BY <1>3, BoundsAssumption DEF EnvironmentTypeOK
    <3>2. ASSUME NEW q, NEW e, NEW c, NEW parent, NEW text,
                 HandleMessage(h, q, e, c, parent, text)
          PROVE  received' = received + 1
      BY <3>2 DEF HandleMessage
    <3>3. ASSUME NEW q, EndSession(h, q) PROVE received' = received + 1
      BY <3>3 DEF EndSession
    <3> QED
      BY <2>2, <3>1, <3>2, <3>3 DEF Hook
  <2>3. ASSUME NEW m \in Monitors, RemoveExited(m)
        PROVE  \/ Agents(sessions[s].identity) = {}
               \/ /\ pc[m] = "remove" /\ pc'[m] = "removed"
                  /\ watch[m].identity # sessions[s].identity
    <3>1. pc[m] = "remove" /\ pc'[m] = "removed"
      BY <1>3, <2>3 DEF RemoveExited, Remove, ThreadTypeOK, Threads
    <3>2. CASE watch[m].identity = sessions[s].identity
      BY <1>3, <3>1, <3>2, WatchedHasNoAgent
    <3> QED
      BY <3>1, <3>2
  <2>4. CASE PruneExpired
    <3>1. Expired(sessions[s])
      BY <1>3, <2>4 DEF PruneExpired
    <3> QED
      BY <1>3, <2>1, <3>1, ExpiredHasNoAgent
  <2>5. CASE UNCHANGED sessions
    BY <1>3, <2>5
  <2>6. ASSUME NEW h \in Handlers, Handler(h) PROVE UNCHANGED sessions
    BY <2>6 DEF Handler, Announce, CheckMonitor, ResolvePid, OpenFails, InstallMonitor, ClearMonitor,
          CloseMonitor, CloseRemoved, AnnounceRemoval, OpenMonitor, managerVars
  <2>7. ASSUME NEW m \in Monitors, Monitor(m) \/ PollFails(m), ~RemoveExited(m)
        PROVE  UNCHANGED sessions
    BY <2>7 DEF Monitor, MonitorWakes, CheckExit, CloseRemoved, AnnounceRemoval, PollFails,
          managerVars
  <2>8. ASSUME NEW r \in Readers, Reader(r) PROVE sessions'[s] # None
    <3>1. CASE ReadTranscript(r) \/ Announce(r)
      BY <1>3, <3>1 DEF ReadTranscript, Announce, managerVars
    <3>2. CASE StoreReply(r) /\ ~UNCHANGED sessions
      <4> DEFINE q == job[r].id
                 new == [sessions[q] EXCEPT !.reply = job[r].reply]
      <4>1. /\ q \in SessionIDs /\ job[r].reply \in Nat /\ sessions[q] # None
            /\ sessions' = [sessions EXCEPT ![q] = new]
        BY <1>3, <3>2 DEF StoreReply, Annotated, Ready, Threads, ThreadTypeOK, Jobs
      <4>2. new \in Sessions
        BY <1>3, <4>1 DEF ManagerTypeOK, Sessions
      <4>3. new # None
        BY <4>2, NoneAssumption
      <4> HIDE DEF new, q
      <4> QED
        BY <1>3, <4>1, <4>3 DEF ManagerTypeOK
    <3> QED
      BY <1>3, <2>8, <3>1, <3>2 DEF Reader
  <2>9. CASE PruneTick \/ AnnounceExpired \/ Environment \/ ReceiveUpdate \/ UNCHANGED vars
    BY <2>5, <2>9 DEF PruneTick, AnnounceExpired, Environment, Tick, ProcessStarts, ProcessExits,
          AgentReplies, ReceiveUpdate, vars, managerVars
  <2> QED
    BY <1>3, <2>2, <2>3, <2>4, <2>5, <2>6, <2>7, <2>8, <2>9 DEF Next, Manager, Monitor, Prune
<1>4. TypeInv /\ LifeInv /\ [Next]_vars =>
         [\A s \in SessionIDs :
             /\ sessions[s] # None /\ sessions'[s] = None
             /\ sessions[s].identity.pid \notin Hidden
             /\ sessions[s].identity.start # 0
             => \/ received' # received
                \/ Agents(sessions[s].identity) = {}
                \/ \E m \in Monitors :
                      pc[m] = "remove" /\ pc'[m] = "removed"
                      /\ watch[m].identity # sessions[s].identity]_vars
  BY <1>3
<1> QED
  BY <1>1, <1>2, <1>4, PTL DEF Spec, LiveSessionKept

-----------------------------------------------------------------------------
(* The refinement: each step of a goroutine is a step of SessionRegistry   *)
(* or leaves the table and the clock alone.                                *)

\* A step that leaves what the registry sees alone.
Invisible == UNCHANGED <<sessions, clock, received>>

\* The handler of a hook event gives one session a new record.
LEMMA HandleMessageRefreshes ==
    ASSUME TypeInv, NEW h \in Handlers, NEW s \in SessionIDs, NEW e \in KnownEvents,
           NEW c \in Claims, NEW parent \in BOOLEAN, NEW text \in 0..MaxReplies,
           HandleMessage(h, s, e, c, parent, text)
    PROVE  Registry!Refresh(s, c)
<1> USE DEF TypeInv, TypeOK
<1> DEFINE new == Upserted(s, e, c, parent, text)
           old == Existing(s)
<1>1. new \in Sessions
  BY UpsertedType, BoundsAssumption
<1>2. new.lastEventAt = clock
  BY DEF Upserted
<1>3. ASSUME sessions[s] # None, sessions[s].subagent PROVE new.subagent
  BY <1>3 DEF Upserted, Existing
<1>4. ASSUME new.state = "idle" PROVE new.subagent
  BY <1>4 DEF Upserted, AdjustedState, StateOf
<1>5. Registry!Reported(old.identity, new.identity, c)
  BY DEF Upserted, ResolveIdentity, Resolve, Registry!Reported
<1>6. old.identity = IF sessions[s] = None THEN Registry!Nobody ELSE sessions[s].identity
  BY DEF Existing, ZeroSession, Registry!Nobody
<1>7. ASSUME sessions[s] # None, new.reply # sessions[s].reply
      PROVE  s \in CodexSessions /\ new.reply > 0
  <2>1. old = sessions[s]
    BY <1>7 DEF Existing
  <2> HIDE DEF old
  <2>2. \/ new.reply = old.reply
        \/ s \in CodexSessions /\ new.reply = Resolve(old.reply, text)
    BY DEF Upserted, old
  <2> HIDE DEF new
  <2> QED
    BY <1>7, <2>1, <2>2 DEF Resolve
<1>8. sessions' = [sessions EXCEPT ![s] = new] /\ sessions'[s] = new
  BY DEF HandleMessage, ManagerTypeOK
<1>9. Registry!HookArrives
  BY DEF HandleMessage, Registry!HookArrives
<1> HIDE DEF new, old
<1> QED
  BY <1>1, <1>2, <1>3, <1>4, <1>5, <1>6, <1>7, <1>8, <1>9 DEF Registry!Refresh

\* The removal after an exit drops one session.
LEMMA RemoveDrops ==
    ASSUME ManagerTypeOK, NEW t \in Threads, NEW s \in SessionIDs, Remove(t, s),
           UNCHANGED <<clock, received>>
    PROVE  \E gone \in SUBSET SessionIDs : Registry!Drop(gone)
<1>1. sessions' = [q \in SessionIDs |-> IF q \in {s} THEN None ELSE sessions[q]]
  BY DEF Remove, ManagerTypeOK
<1>2. Registry!Drop({s})
  BY <1>1 DEF Registry!Drop, Registry!NoHook
<1> QED
  BY <1>2

\* A tick of the pruner drops the sessions that have expired.
LEMMA PruneDrops ==
    ASSUME PruneExpired
    PROVE  \E gone \in SUBSET SessionIDs : Registry!Drop(gone)
<1> DEFINE gone == {s \in SessionIDs : sessions[s] # None /\ Expired(sessions[s])}
<1>1. Registry!Drop(gone)
  BY DEF PruneExpired, Registry!Drop, Registry!NoHook, envVars
<1> QED
  BY <1>1

\* A deferred read changes the reply of a session that is there, or nothing.
LEMMA StoreReplyAnnotates ==
    ASSUME TypeInv, NEW r \in Readers, StoreReply(r)
    PROVE  Invisible \/ \E s \in SessionIDs : Registry!Annotate(s)
<1> USE NoneAssumption DEF TypeInv, TypeOK
<1> DEFINE s == job[r].id
           new == Annotated(sessions[s], job[r].reply)
<1>1. s \in SessionIDs /\ job[r].reply \in Nat
  BY DEF StoreReply, Annotated, Ready, Threads, ThreadTypeOK, Jobs
<1>2. CASE UNCHANGED sessions
  BY <1>2 DEF StoreReply, Annotated, Invisible, envVars
<1>3. CASE sessions[s] # None /\ sessions' = [sessions EXCEPT ![s] = new]
  <2>1. new \in Sessions /\ new.reply = job[r].reply
    BY <1>1, <1>3 DEF ManagerTypeOK, Sessions, Annotated
  <2>2. sessions'[s] = new /\ new # None
    BY <1>1, <1>3, <2>1 DEF ManagerTypeOK
  <2>3. sessions' = [sessions EXCEPT ![s].reply = sessions'[s].reply]
    BY <1>3, <2>1, <2>2 DEF Annotated
  <2>4. Registry!Annotate(s)
    BY <1>3, <2>2, <2>3 DEF Registry!Annotate, Registry!NoHook, StoreReply, envVars
  <2> QED
    BY <1>1, <2>4
<1> QED
  BY <1>2, <1>3 DEF StoreReply, Annotated

\* Each step of the manager is a step of the registry.
LEMMA NextRegistry ==
    TypeInv /\ [Next]_vars => [Registry!Next]_<<sessions, clock, received>>
<1> SUFFICES ASSUME TypeInv, [Next]_vars
             PROVE  Registry!Next \/ Invisible
  BY DEF Invisible
<1> USE DEF Threads, managerVars, monitorVars, pruneVars, envVars
<1>1. ASSUME NEW h \in Handlers, Hook(h) PROVE Registry!Next
  <2>1. ASSUME NEW s \in SessionIDs, NEW e \in Events \ {"session_end"}, NEW c \in Claims,
               NEW parent \in BOOLEAN, NEW text \in 0..MaxReplies,
               HandleMessage(h, s, e, c, parent, text)
        PROVE  Registry!Next
    <3>1. e \in KnownEvents
      BY <2>1 DEF HandleMessage
    <3> QED
      BY <3>1, <2>1, HandleMessageRefreshes DEF Registry!Next
  <2>2. ASSUME NEW s \in SessionIDs, EndSession(h, s) PROVE Registry!Next
    <3>1. Registry!End(s)
      BY <2>2 DEF EndSession, Remove, Registry!End, Registry!HookArrives
    <3> QED
      BY <3>1 DEF Registry!Next
  <2> QED
    BY <1>1, <2>1, <2>2 DEF Hook
<1>2. ASSUME NEW h \in Handlers, Handler(h) PROVE Invisible
  BY <1>2 DEF Handler, Announce, CheckMonitor, ResolvePid, OpenMonitor, OpenFails, InstallMonitor,
              ClearMonitor, CloseMonitor, CloseRemoved, AnnounceRemoval, Invisible
<1>3. ASSUME NEW m \in Monitors, Monitor(m) \/ PollFails(m)
      PROVE  Registry!Next \/ Invisible
  <2>1. CASE RemoveExited(m)
    <3>1. watch[m].id \in SessionIDs
      BY <2>1 DEF RemoveExited, TypeInv, Ready, Watches
    <3> QED
      BY <2>1, <3>1, RemoveDrops DEF RemoveExited, Registry!Next, TypeInv, TypeOK
  <2>2. CASE MonitorWakes(m) \/ CheckExit(m) \/ CloseRemoved(m) \/ AnnounceRemoval(m)
             \/ PollFails(m)
    BY <2>2 DEF MonitorWakes, CheckExit, CloseRemoved, AnnounceRemoval, PollFails, Invisible
  <2> QED
    BY <1>3, <2>1, <2>2 DEF Monitor
<1>4. ASSUME NEW r \in Readers, Reader(r) PROVE Registry!Next \/ Invisible
  <2>1. CASE StoreReply(r)
    BY <2>1, StoreReplyAnnotates DEF Registry!Next
  <2>2. CASE ReadTranscript(r) \/ Announce(r)
    BY <2>2 DEF ReadTranscript, Announce, Invisible
  <2> QED
    BY <1>4, <2>1, <2>2 DEF Reader
<1>5. ASSUME Prune PROVE Registry!Next \/ Invisible
  <2>1. CASE PruneExpired
    BY <2>1, PruneDrops DEF Registry!Next
  <2>2. CASE PruneTick \/ AnnounceExpired
    BY <2>2 DEF PruneTick, AnnounceExpired, Invisible
  <2> QED
    BY <1>5, <2>1, <2>2 DEF Prune
<1>6. ASSUME Environment PROVE Registry!Next \/ Invisible
  <2>1. CASE Tick
    BY <2>1 DEF Tick, Registry!Next, Registry!Advance
  <2>2. ASSUME NEW p \in Processes, ProcessStarts(p) \/ ProcessExits(p) PROVE Invisible
    BY <2>2 DEF ProcessStarts, ProcessExits, Invisible
  <2>3. ASSUME NEW s \in SessionIDs, AgentReplies(s) PROVE Invisible
    BY <2>3 DEF AgentReplies, Invisible
  <2> QED
    BY <1>6, <2>1, <2>2, <2>3 DEF Environment
<1>7. CASE ReceiveUpdate
  BY <1>7 DEF ReceiveUpdate, Invisible
<1>8. CASE UNCHANGED vars
  BY <1>8 DEF vars, Invisible
<1> QED
  BY <1>1, <1>2, <1>3, <1>4, <1>5, <1>6, <1>7, <1>8 DEF Next, Manager

\* The session manager implements the abstract registry.
THEOREM RegistryImplemented == Spec => ImplementsRegistry
<1>1. Init => Registry!Init
  BY DEF Init, Registry!Init
<1>2. Init => TypeInv
  BY InitTypeInv
<1>3. TypeInv /\ [Next]_vars => TypeInv'
  BY NextTypeInv
<1>4. TypeInv /\ [Next]_vars => [Registry!Next]_<<sessions, clock, received>>
  BY NextRegistry
<1> QED
  BY <1>1, <1>2, <1>3, <1>4, PTL DEF Spec, ImplementsRegistry, Registry!Spec,
                                     Registry!registryVars

-----------------------------------------------------------------------------
(* Every open pidfd has exactly one owner.                                 *)

\* MonitorOwnership is not inductive: a goroutine that is about to install a
\* monitor must hold the one that was started for its own session, and a
\* monitor that was never opened must not be running.
Linked ==
    /\ \A m \in Monitors : fd[m] = "unused" => pc[m] = "idle"
    /\ \A t \in Threads :
          pc[t] = "install" => /\ watch[job[t].handle].id = job[t].id
                               /\ watch[job[t].handle].identity = job[t].session.identity

OwnershipInv == TypeInv /\ MonitorOwnership /\ Linked

\* A step that leaves the table, the descriptors and their holders alone.
Undisturbed ==
    /\ UNCHANGED <<monitors, fd, watch>>
    /\ \A t \in Threads, m \in Monitors : Holds(t, m)' <=> Holds(t, m)
    /\ \A t \in Threads : pc'[t] = "install" => pc[t] = "install" /\ job'[t] = job[t]
    /\ \A m \in Monitors : pc[m] = "idle" => pc'[m] = "idle"

LEMMA UndisturbedOwnership ==
    ASSUME OwnershipInv, Undisturbed
    PROVE  MonitorOwnership' /\ Linked'
<1>1. \A s \in SessionIDs, m \in Monitors : InTable(s, m)' <=> InTable(s, m)
  BY DEF Undisturbed, InTable
<1>2. OpenIsOwned'
  BY <1>1 DEF Undisturbed, OwnershipInv, MonitorOwnership, OpenIsOwned
<1>3. EntryMatches'
  BY <1>1 DEF Undisturbed, OwnershipInv, MonitorOwnership, EntryMatches
<1>4. OneHolder'
  BY DEF Undisturbed, OwnershipInv, MonitorOwnership, OneHolder
<1>5. Linked'
  BY DEF Undisturbed, OwnershipInv, Linked
<1> QED
  BY <1>2, <1>3, <1>4, <1>5 DEF MonitorOwnership

\* A goroutine that holds the descriptor m alone closes it.
LEMMA CloseOwnership ==
    ASSUME OwnershipInv, NEW t \in Threads, NEW m \in Monitors, Holds(t, m),
           NEW label \in {"idle", "removed"}, NEW j \in Jobs, j.handle = None,
           fd' = [fd EXCEPT ![m] = "closed"],
           pc' = [pc EXCEPT ![t] = label], job' = [job EXCEPT ![t] = j],
           UNCHANGED <<monitors, watch>>, t \in Monitors => pc[t] # "idle",
           None \notin Monitors
    PROVE  MonitorOwnership' /\ Linked'
<1> USE DEF OwnershipInv, MonitorOwnership, TypeInv, TypeOK
<1>1. /\ \A u \in Threads \ {t}, n \in Monitors : Holds(u, n)' <=> Holds(u, n)
      /\ \A n \in Monitors : ~Holds(t, n)'
      /\ \A u \in Threads \ {t} : pc'[u] = pc[u] /\ job'[u] = job[u]
      /\ pc'[t] = label
  BY DEF ThreadTypeOK, Holds
<1>2. \A s \in SessionIDs, n \in Monitors : InTable(s, n)' <=> InTable(s, n)
  BY DEF InTable
<1>3. /\ \A u \in Threads \ {t} : ~Holds(u, m)
      /\ \A s \in SessionIDs : ~InTable(s, m)
  BY DEF OneHolder, EntryMatches
<1>4. \A n \in Monitors : n # m => (Holds(t, n) <=> FALSE)
  BY DEF Holds
<1>5. OpenIsOwned'
  <2> SUFFICES ASSUME NEW n \in Monitors
               PROVE  fd'[n] = "open" <=> \/ \E s \in SessionIDs : InTable(s, n)'
                                          \/ \E u \in Threads : Holds(u, n)'
    BY DEF OpenIsOwned
  <2>1. CASE n = m
    BY <1>1, <1>2, <1>3, <2>1 DEF MonitorTypeOK
  <2>2. CASE n # m
    BY <1>1, <1>2, <1>4, <2>2 DEF MonitorTypeOK, OpenIsOwned
  <2> QED
    BY <2>1, <2>2
<1>6. EntryMatches'
  BY <1>1, <1>2 DEF EntryMatches
<1>7. OneHolder'
  BY <1>1 DEF OneHolder
<1>8. Linked'
  <2>1. fd[t] # "unused" \/ t \notin Monitors
    BY DEF Linked
  <2> QED
    BY <1>1, <2>1 DEF Linked, MonitorTypeOK
<1> QED
  BY <1>5, <1>6, <1>7, <1>8

\* A goroutine that holds nothing takes the entry of session s out of the table.
LEMMA TakenOutOwnership ==
    ASSUME OwnershipInv, NEW t \in Threads, NEW s \in SessionIDs, pc[t] \notin Holding,
           NEW label \in {"idle", "close", "removed"}, NEW j \in Jobs,
           monitors[s] = None => label = "idle" \/ j.handle = None,
           monitors[s] # None => label # "idle" /\ j.handle = monitors[s].handle,
           monitors' = [monitors EXCEPT ![s] = None],
           pc' = [pc EXCEPT ![t] = label], job' = [job EXCEPT ![t] = j],
           UNCHANGED <<fd, watch>>, t \in Monitors => pc[t] # "idle"
    PROVE  MonitorOwnership' /\ Linked'
<1> USE NoneAssumption DEF OwnershipInv, MonitorOwnership, TypeInv, TypeOK
<1>1. /\ \A u \in Threads \ {t}, n \in Monitors : Holds(u, n)' <=> Holds(u, n)
      /\ \A n \in Monitors : ~Holds(t, n) /\ (Holds(t, n)' <=> InTable(s, n))
      /\ \A u \in Threads \ {t} : pc'[u] = pc[u] /\ job'[u] = job[u]
      /\ pc'[t] = label
  BY DEF ThreadTypeOK, Holds, InTable, Holding
<1>2. \A q \in SessionIDs, n \in Monitors : InTable(q, n)' <=> q # s /\ InTable(q, n)
  BY DEF InTable, ManagerTypeOK
<1>3. \A q \in SessionIDs, n \in Monitors : InTable(q, n) /\ InTable(s, n) => q = s
  BY DEF EntryMatches
<1>4. OpenIsOwned'
  BY <1>1, <1>2 DEF OpenIsOwned
<1>5. EntryMatches'
  <2> SUFFICES ASSUME NEW q \in SessionIDs, NEW n \in Monitors, InTable(q, n)'
               PROVE  /\ watch'[n].id = q
                      /\ watch'[n].identity = monitors'[q].identity
                      /\ \A u \in Threads : ~Holds(u, n)'
    BY DEF EntryMatches
  <2>1. q # s /\ InTable(q, n) /\ monitors'[q] = monitors[q]
    BY <1>2 DEF ManagerTypeOK
  <2>2. /\ watch[n].id = q
        /\ watch[n].identity = monitors[q].identity
        /\ \A u \in Threads : ~Holds(u, n)
    BY <2>1 DEF EntryMatches
  <2> QED
    BY <1>1, <1>3, <2>1, <2>2
<1>6. OneHolder'
  BY <1>1 DEF OneHolder, EntryMatches
<1>7. Linked'
  BY <1>1 DEF Linked
<1> QED
  BY <1>4, <1>5, <1>6, <1>7

\* The handler puts the monitor it holds in the table and takes the old one.
LEMMA InstallOwnership ==
    ASSUME OwnershipInv, NEW h \in Handlers, InstallMonitor(h)
    PROVE  MonitorOwnership' /\ Linked'
<1> USE NoneAssumption, ThreadsAssumption
    DEF OwnershipInv, MonitorOwnership, TypeInv, TypeOK, Threads
<1>1. PICK s \in SessionIDs, m \in Monitors :
           s = job[h].id /\ m = job[h].handle /\ Holds(h, m)
  BY DEF InstallMonitor, Ready, Mid, Holds, Holding
<1>2. /\ watch[m].id = s /\ watch[m].identity = job[h].session.identity
      /\ \A n \in Monitors : Holds(h, n) => n = m
  BY <1>1 DEF InstallMonitor, Linked, Holds
<1>3. /\ \A q \in SessionIDs : ~InTable(q, m)
      /\ \A u \in Threads \ {h} : ~Holds(u, m)
  BY <1>1 DEF EntryMatches, OneHolder
<1>4. /\ \A u \in Threads \ {h} : pc'[u] = pc[u] /\ job'[u] = job[u]
      /\ \/ monitors[s] = None /\ pc'[h] = "idle"
         \/ /\ monitors[s] # None
            /\ pc'[h] = "close" /\ job'[h].handle = monitors[s].handle
  <2>1. CASE monitors[s] = None /\ Finish(h)
    BY <2>1 DEF Finish, ThreadTypeOK
  <2>2. CASE /\ monitors[s] # None
             /\ pc' = [pc EXCEPT ![h] = "close"]
             /\ job' = [job EXCEPT ![h].handle = monitors[s].handle]
    BY <2>2 DEF ThreadTypeOK, Jobs
  <2> QED
    BY <1>1, <2>1, <2>2 DEF InstallMonitor
<1>5. /\ monitors' = [monitors EXCEPT ![s] = [identity |-> job[h].session.identity,
                                              handle |-> m]]
      /\ fd' = fd /\ watch' = watch
  BY <1>1 DEF InstallMonitor, monitorVars
<1>6. /\ \A u \in Threads \ {h}, n \in Monitors : Holds(u, n)' <=> Holds(u, n)
      /\ \A n \in Monitors : Holds(h, n)' <=> InTable(s, n)
  BY <1>4 DEF Holds, InTable, Holding
<1>7. /\ \A q \in SessionIDs \ {s} : monitors'[q] = monitors[q]
      /\ monitors'[s] = [identity |-> job[h].session.identity, handle |-> m]
      /\ monitors'[s] # None
  <2>1. [identity |-> job[h].session.identity, handle |-> m] \in Entries
    BY <1>1 DEF Entries, InstallMonitor, Ready, Mid, Sessions
  <2>2. [identity |-> job[h].session.identity, handle |-> m] # None
    BY <2>1
  <2> QED
    BY <1>1, <1>5, <2>2 DEF ManagerTypeOK
<1>8. /\ \A q \in SessionIDs \ {s}, n \in Monitors : InTable(q, n)' <=> InTable(q, n)
      /\ \A n \in Monitors : InTable(s, n)' <=> n = m
  BY <1>7 DEF InTable
<1>9. OpenIsOwned'
  BY <1>1, <1>2, <1>3, <1>5, <1>6, <1>8 DEF OpenIsOwned
<1>10. EntryMatches'
  <2>1. \A q \in SessionIDs, n \in Monitors : InTable(q, n) /\ InTable(s, n) => q = s
    BY <1>1 DEF EntryMatches
  <2> QED
    BY <1>1, <1>2, <1>3, <1>5, <1>6, <1>7, <1>8, <2>1 DEF EntryMatches
<1>11. OneHolder'
  BY <1>1, <1>6 DEF OneHolder, EntryMatches
<1>12. Linked'
  BY <1>4, <1>5 DEF Linked
<1> QED
  BY <1>9, <1>10, <1>11, <1>12

\* A handler opens a descriptor that was never used and holds it.
LEMMA OpenOwnership ==
    ASSUME OwnershipInv, NEW h \in Handlers, NEW m \in Monitors, NEW p \in Processes,
           OpenMonitor(h, m, p)
    PROVE  MonitorOwnership' /\ Linked'
<1> USE NoneAssumption, ThreadsAssumption
    DEF OwnershipInv, MonitorOwnership, TypeInv, TypeOK, Threads
<1>1. pc[m] = "idle" /\ h # m
  BY DEF OpenMonitor, Linked
<1>2. /\ \A q \in SessionIDs : ~InTable(q, m)
      /\ \A u \in Threads : ~Holds(u, m)
  BY DEF OpenMonitor, OpenIsOwned
<1>3. /\ \A u \in Threads \ {h, m} : pc'[u] = pc[u] /\ job'[u] = job[u]
      /\ pc'[h] = "install" /\ job'[h].id = job[h].id /\ job'[h].handle = m
      /\ job'[h].session = job[h].session /\ pc'[m] = "polling"
  BY <1>1 DEF OpenMonitor, ThreadTypeOK, Jobs
<1>4. /\ \A u \in Threads \ {h}, n \in Monitors : Holds(u, n)' <=> Holds(u, n)
      /\ \A n \in Monitors : ~Holds(h, n) /\ (Holds(h, n)' <=> n = m)
  BY <1>1, <1>3 DEF OpenMonitor, Holds, Holding
<1>5. /\ \A q \in SessionIDs, n \in Monitors : InTable(q, n)' <=> InTable(q, n)
      /\ monitors' = monitors
  BY DEF OpenMonitor, managerVars, InTable
<1>6. /\ \A n \in Monitors \ {m} : watch'[n] = watch[n] /\ fd'[n] = fd[n]
      /\ fd'[m] = "open"
      /\ watch'[m].id = job[h].id /\ watch'[m].identity = job[h].session.identity
  BY DEF OpenMonitor, MonitorTypeOK
<1>7. OpenIsOwned'
  BY <1>2, <1>4, <1>5, <1>6 DEF OpenIsOwned
<1>8. EntryMatches'
  BY <1>2, <1>4, <1>5, <1>6 DEF EntryMatches
<1>9. OneHolder'
  BY <1>2, <1>4 DEF OneHolder
<1>10. Linked'
  <2>1. \A n \in Monitors : fd'[n] = "unused" => pc'[n] = "idle"
    BY <1>1, <1>3, <1>6 DEF Linked
  <2>2. ASSUME NEW t \in Threads, pc'[t] = "install"
        PROVE  /\ watch'[job'[t].handle].id = job'[t].id
               /\ watch'[job'[t].handle].identity = job'[t].session.identity
    <3>1. CASE t = h
      BY <1>3, <1>6, <3>1
    <3>2. CASE t # h
      <4>1. t # m /\ pc[t] = "install" /\ job'[t] = job[t]
        BY <1>3, <2>2, <3>2
      <4>2. job[t].handle \in Monitors /\ Holds(t, job[t].handle)
        BY <4>1 DEF Ready, Holds, Holding
      <4>3. job[t].handle # m
        BY <1>2, <4>2
      <4> QED
        BY <1>6, <4>1, <4>2, <4>3 DEF Linked
    <3> QED
      BY <3>1, <3>2
  <2> QED
    BY <2>1, <2>2 DEF Linked
<1> QED
  BY <1>7, <1>8, <1>9, <1>10

-----------------------------------------------------------------------------
\* Every step keeps the invariant; most of them move no descriptor.
LEMMA NextOwnership == OwnershipInv /\ [Next]_vars => OwnershipInv'
<1> SUFFICES ASSUME OwnershipInv, [Next]_vars PROVE MonitorOwnership' /\ Linked'
  BY NextTypeInv DEF OwnershipInv
<1> USE NoneAssumption, ThreadsAssumption
    DEF OwnershipInv, TypeInv, TypeOK, Threads, managerVars, monitorVars, pruneVars, envVars,
        ThreadTypeOK, Holds, Holding
<1>1. ASSUME NEW h \in Handlers, NEW s \in SessionIDs, NEW e \in KnownEvents,
             NEW c \in Claims, NEW parent \in BOOLEAN, NEW text \in 0..MaxReplies,
             HandleMessage(h, s, e, c, parent, text)
      PROVE  MonitorOwnership' /\ Linked'
  <2>1. Undisturbed
    BY <1>1 DEF Undisturbed, HandleMessage, Receives
  <2> QED
    BY <2>1, UndisturbedOwnership
<1>2. ASSUME NEW t \in Handlers \cup Readers, Announce(t)
      PROVE  MonitorOwnership' /\ Linked'
  <2>1. Undisturbed
    BY <1>2 DEF Undisturbed, Announce
  <2> QED
    BY <2>1, UndisturbedOwnership
<1>3. ASSUME NEW h \in Handlers, CheckMonitor(h)
      PROVE  MonitorOwnership' /\ Linked'
  <2>1. Undisturbed
    BY <1>3 DEF Undisturbed, CheckMonitor, Finish
  <2> QED
    BY <2>1, UndisturbedOwnership
<1>4. ASSUME NEW h \in Handlers, ResolvePid(h) \/ OpenFails(h)
      PROVE  MonitorOwnership' /\ Linked'
  <2>1. Undisturbed
    BY <1>4 DEF Undisturbed, ResolvePid, OpenFails
  <2> QED
    BY <2>1, UndisturbedOwnership
<1>5. ASSUME NEW t \in Handlers \cup Monitors, AnnounceRemoval(t)
      PROVE  MonitorOwnership' /\ Linked'
  <2>1. Undisturbed
    BY <1>5 DEF Undisturbed, AnnounceRemoval, Finish, NoJob
  <2> QED
    BY <2>1, UndisturbedOwnership
<1>6. ASSUME NEW m \in Monitors, MonitorWakes(m)
      PROVE  MonitorOwnership' /\ Linked'
  <2>1. Undisturbed
    BY <1>6 DEF Undisturbed, MonitorWakes
  <2> QED
    BY <2>1, UndisturbedOwnership
<1>7. ASSUME NEW m \in Monitors, PollFails(m)
      PROVE  MonitorOwnership' /\ Linked'
  <2>1. Undisturbed
    BY <1>7 DEF Undisturbed, PollFails
  <2> QED
    BY <2>1, UndisturbedOwnership
<1>8. ASSUME NEW m \in Monitors, CheckExit(m)
      PROVE  MonitorOwnership' /\ Linked'
  <2>1. Undisturbed
    BY <1>8 DEF Undisturbed, CheckExit
  <2> QED
    BY <2>1, UndisturbedOwnership
<1>9. ASSUME NEW r \in Readers, ReadTranscript(r)
      PROVE  MonitorOwnership' /\ Linked'
  <2>1. Undisturbed
    BY <1>9 DEF Undisturbed, ReadTranscript, Finish
  <2> QED
    BY <2>1, UndisturbedOwnership
<1>10. ASSUME NEW r \in Readers, StoreReply(r)
      PROVE  MonitorOwnership' /\ Linked'
  <2>1. Undisturbed
    BY <1>10 DEF Undisturbed, StoreReply, Finish
  <2> QED
    BY <2>1, UndisturbedOwnership
<1>11. ASSUME PruneTick
      PROVE  MonitorOwnership' /\ Linked'
  <2>1. Undisturbed
    BY <1>11 DEF Undisturbed, PruneTick
  <2> QED
    BY <2>1, UndisturbedOwnership
<1>12. ASSUME PruneExpired
      PROVE  MonitorOwnership' /\ Linked'
  <2>1. Undisturbed
    BY <1>12 DEF Undisturbed, PruneExpired
  <2> QED
    BY <2>1, UndisturbedOwnership
<1>13. ASSUME AnnounceExpired
      PROVE  MonitorOwnership' /\ Linked'
  <2>1. Undisturbed
    BY <1>13 DEF Undisturbed, AnnounceExpired
  <2> QED
    BY <2>1, UndisturbedOwnership
<1>14. ASSUME Environment
      PROVE  MonitorOwnership' /\ Linked'
  <2>1. Undisturbed
    BY <1>14 DEF Undisturbed, Environment, Tick, ProcessStarts, ProcessExits, AgentReplies
  <2> QED
    BY <2>1, UndisturbedOwnership
<1>15. ASSUME ReceiveUpdate
      PROVE  MonitorOwnership' /\ Linked'
  <2>1. Undisturbed
    BY <1>15 DEF Undisturbed, ReceiveUpdate
  <2> QED
    BY <2>1, UndisturbedOwnership
<1>16. ASSUME NEW h \in Handlers, CloseMonitor(h)
      PROVE  MonitorOwnership' /\ Linked'
  <2>1. job[h].handle \in Monitors /\ Holds(h, job[h].handle)
    BY <1>16 DEF CloseMonitor, Ready
  <2> QED
    BY <1>16, <2>1, CloseOwnership, JobTypes DEF CloseMonitor, Finish, NoJob
<1>17. ASSUME NEW t \in Handlers \cup Monitors, CloseRemoved(t)
      PROVE  MonitorOwnership' /\ Linked'
  <2>1. job[t].handle \in Monitors /\ Holds(t, job[t].handle)
    BY <1>17 DEF CloseRemoved, Jobs
  <2> DEFINE j == [job[t] EXCEPT !.handle = None]
  <2>2. j \in Jobs /\ j.handle = None
    BY JobTypes DEF Jobs
  <2>3. pc' = [pc EXCEPT ![t] = "removed"] /\ job' = [job EXCEPT ![t] = j]
    BY <1>17 DEF CloseRemoved
  <2> HIDE DEF j
  <2> QED
    BY <1>17, <2>1, <2>2, <2>3, CloseOwnership DEF CloseRemoved
<1>18. ASSUME NEW h \in Handlers, ClearMonitor(h)
      PROVE  MonitorOwnership' /\ Linked'
  <2>1. PICK s \in SessionIDs : s = job[h].id
    BY <1>18 DEF ClearMonitor, Ready, Mid
  <2>2. CASE monitors[s] = None /\ Finish(h)
    BY <1>18, <2>1, <2>2, TakenOutOwnership, JobTypes DEF ClearMonitor, Finish
  <2>3. CASE /\ monitors[s] # None
             /\ pc' = [pc EXCEPT ![h] = "close"]
             /\ job' = [job EXCEPT ![h].handle = monitors[s].handle]
    <3> DEFINE j == [job[h] EXCEPT !.handle = monitors[s].handle]
    <3>1. monitors[s].handle \in Monitors
      BY <2>3 DEF ManagerTypeOK, Entries
    <3>2. j \in Jobs /\ j.handle = monitors[s].handle
      BY <3>1, JobTypes DEF Jobs
    <3>3. job' = [job EXCEPT ![h] = j]
      BY <2>3
    <3> HIDE DEF j
    <3> QED
      BY <1>18, <2>1, <2>3, <3>2, <3>3, TakenOutOwnership DEF ClearMonitor
  <2> QED
    BY <1>18, <2>1, <2>2, <2>3 DEF ClearMonitor
<1>19. ASSUME NEW t \in Handlers \cup Monitors, NEW s \in SessionIDs, Remove(t, s),
              pc[t] \in {"idle", "remove"}, t \in Monitors => pc[t] = "remove",
              UNCHANGED <<fd, watch>>
      PROVE  MonitorOwnership' /\ Linked'
  <2> DEFINE j == [id |-> s, session |-> sessions[s], reply |-> 0,
                   handle |-> IF monitors[s] = None THEN None ELSE monitors[s].handle]
  <2>1. j \in Jobs /\ j.handle = IF monitors[s] = None THEN None ELSE monitors[s].handle
    BY DEF ManagerTypeOK, Entries, Jobs
  <2>2. job' = [job EXCEPT ![t] = j]
    BY <1>19 DEF Remove
  <2> HIDE DEF j
  <2> QED
    BY <1>19, <2>1, <2>2, TakenOutOwnership DEF Remove
<1>20. ASSUME NEW h \in Handlers, Hook(h) PROVE MonitorOwnership' /\ Linked'
  <2>1. ASSUME NEW s \in SessionIDs, NEW e \in Events \ {"session_end"}, NEW c \in Claims,
               NEW parent \in BOOLEAN, NEW text \in 0..MaxReplies,
               HandleMessage(h, s, e, c, parent, text)
        PROVE  MonitorOwnership' /\ Linked'
    <3>1. e \in KnownEvents
      BY <2>1 DEF HandleMessage
    <3> QED
      BY <3>1, <2>1, <1>1
  <2>2. ASSUME NEW s \in SessionIDs, EndSession(h, s)
        PROVE  MonitorOwnership' /\ Linked'
    BY <2>2, <1>19 DEF EndSession
  <2> QED
    BY <1>20, <2>1, <2>2 DEF Hook
<1>21. ASSUME NEW h \in Handlers, Handler(h) PROVE MonitorOwnership' /\ Linked'
  BY <1>21, <1>2, <1>3, <1>4, <1>5, <1>16, <1>17, <1>18, InstallOwnership, OpenOwnership
     DEF Handler
<1>22. ASSUME NEW m \in Monitors, Monitor(m) PROVE MonitorOwnership' /\ Linked'
  <2>1. CASE RemoveExited(m)
    BY <2>1, <1>19 DEF RemoveExited, Ready, Watches
  <2> QED
    BY <1>22, <2>1, <1>5, <1>6, <1>8, <1>17 DEF Monitor
<1>23. ASSUME Manager PROVE MonitorOwnership' /\ Linked'
  BY <1>23, <1>20, <1>21, <1>22, <1>7, <1>2, <1>9, <1>10, <1>11, <1>12, <1>13
     DEF Manager, Reader, Prune
<1>24. CASE UNCHANGED vars
  <2>1. Undisturbed
    BY <1>24 DEF Undisturbed, vars
  <2> QED
    BY <2>1, UndisturbedOwnership
<1> QED
  BY <1>14, <1>15, <1>23, <1>24 DEF Next

\* Whatever the goroutines do, every open pidfd has exactly one owner and an
\* entry of the table is the monitor of its own session's agent.
THEOREM OwnershipCorrect == Spec => []MonitorOwnership
<1>1. Init => OwnershipInv
  <2>1. Init => TypeInv
    BY InitTypeInv
  <2>2. Init => MonitorOwnership /\ Linked
    BY NoneAssumption DEF Init, MonitorOwnership, OpenIsOwned, EntryMatches, OneHolder,
                          InTable, Holds, Holding, Linked, Threads
  <2> QED
    BY <2>1, <2>2 DEF OwnershipInv
<1>2. OwnershipInv /\ [Next]_vars => OwnershipInv'
  BY NextOwnership
<1>3. OwnershipInv => MonitorOwnership
  BY DEF OwnershipInv
<1> QED
  BY <1>1, <1>2, <1>3, PTL DEF Spec

-----------------------------------------------------------------------------
(* The store that is fed by the manager stays consistent, and once nothing *)
(* is in flight it has a record of the last event of each session.         *)

Model == INSTANCE OverlayModelProofs WITH IDs <- SessionIDs

StoreInv == TypeInv /\ store \in Model!Stores(Sessions) /\ StoreListsOnce

-----------------------------------------------------------------------------
(* Why nothing that is new gets lost.                                      *)

\* A record of session s that the store holds, or will be given by the channel
\* or by a goroutine that has unlocked and not yet sent its Upsert.
Held(s, x) ==
    \/ store.sessions[s] = x /\ x # None
    \/ \E i \in 1..Len(updates) : updates[i].id = s /\ updates[i].session = x
    \/ \E t \in Handlers \cup Readers :
          pc[t] = "announce" /\ job[t].id = s /\ job[t].session = x

\* No record can be newer than this one.
Newest(s) == IF sessions[s] = None THEN clock ELSE sessions[s].lastEventAt

\* Nothing is stamped by a clock that is still to come.
StampsPast ==
    \A s \in SessionIDs : sessions[s] # None => sessions[s].lastEventAt <= clock

\* A Timeout is sent only for a session that was removed.
TimeoutsOfRemoved ==
    /\ \A i \in 1..Len(updates) : updates[i].type = "timeout" => updates[i].id \in disturbed
    /\ \A t \in Threads :
          pc[t] = "removed" /\ job[t].session # None => job[t].id \in disturbed
    /\ \A x \in expired : x.id \in disturbed

\* Of a session that was never removed and had no update dropped, nothing newer
\* than the manager's record is on its way, and a record as new as that one is.
NoneNewer ==
    \A s \in SessionIDs \ disturbed : \A x \in Sessions :
        Held(s, x) => x.lastEventAt <= Newest(s)
NewestHeld ==
    \A s \in SessionIDs \ disturbed :
        sessions[s] # None =>
            \E x \in Sessions : Held(s, x) /\ x.lastEventAt = sessions[s].lastEventAt


\* Whatever is on its way, or stored, is a record that the manager has had.
HeldIsMade ==
    \A s \in SessionIDs \ disturbed : \A x \in Sessions : Held(s, x) => x \in made[s]

NewestInv == StampsPast /\ TimeoutsOfRemoved /\ NoneNewer /\ NewestHeld /\ HeldIsMade
-----------------------------------------------------------------------------
(* The steps of the pipeline.                                              *)

\* Every step but the receipt of an update is one of the manager alone.
LEMMA PipelineTypeInv ==
    ASSUME TypeInv, [PipelineNext]_pipelineVars
    PROVE  TypeInv' /\ [Next]_vars
<1>1. [Next]_vars
  BY DEF PipelineNext, pipelineVars, Forward, Next
<1> QED
  BY <1>1, NextTypeInv

\* A step that sends nothing, changes no session and leaves alone what the
\* goroutines have still to send.
Calm ==
    /\ UNCHANGED <<sessions, updates, expired>>
    /\ \A t \in Handlers \cup Readers : pc[t] = "announce" => pc'[t] = "announce"
    /\ \A t \in Threads :
          pc'[t] \in {"announce", "removed"} =>
             /\ pc[t] = pc'[t]
             /\ job'[t].id = job[t].id /\ job'[t].session = job[t].session

\* A goroutine takes a session out of the table.
Removes(t, s) ==
    pc[t] \in {"idle", "remove"} /\ Remove(t, s) /\ UNCHANGED <<updates, expired, clock>>

\* A deferred read gives a session another reply.
StoresReply(r) ==
    LET s == job[r].id
        new == [sessions[s] EXCEPT !.reply = job[r].reply]
    IN  /\ pc[r] = "store" /\ sessions[s] # None
        /\ sessions' = [sessions EXCEPT ![s] = new]
        /\ pc' = [pc EXCEPT ![r] = "announce"]
        /\ job' = [job EXCEPT ![r].session = new]
        /\ UNCHANGED <<updates, expired, clock>>

\* The end of a goroutine's work, or the next label of it, sends nothing.
LEMMA FinishCalm ==
    ASSUME ThreadTypeOK, NEW t \in Threads, Finish(t), pc[t] # "announce",
           UNCHANGED <<sessions, updates, expired>>
    PROVE  Calm
BY DEF ThreadTypeOK, Finish, Calm, Threads

LEMMA LabelCalm ==
    ASSUME ThreadTypeOK, NEW t \in Threads, NEW label \in Labels,
           pc' = [pc EXCEPT ![t] = label], UNCHANGED <<sessions, updates, expired>>,
           pc[t] # "announce", label \notin {"announce", "removed"},
           \A u \in Threads \ {t} : job'[u] = job[u]
    PROVE  Calm
BY DEF ThreadTypeOK, Calm, Threads

\* What a step of the manager or its environment does to sessions and updates.
LEMMA ManagerSteps ==
    ASSUME TypeInv, Manager \/ Environment
    PROVE  \/ Calm
           \/ \E h \in Handlers, s \in SessionIDs, e \in KnownEvents, c \in Claims,
                 parent \in BOOLEAN, text \in 0..MaxReplies :
                    HandleMessage(h, s, e, c, parent, text)
           \/ \E t \in Handlers \cup Readers : Announce(t)
           \/ \E t \in Handlers \cup Monitors, s \in SessionIDs : Removes(t, s)
           \/ \E t \in Handlers \cup Monitors : AnnounceRemoval(t)
           \/ \E r \in Readers : StoresReply(r)
           \/ PruneExpired \/ AnnounceExpired
<1> USE DEF Threads, TypeInv, TypeOK, managerVars, monitorVars, pruneVars, envVars
<1>1. ASSUME NEW h \in Handlers, Hook(h)
      PROVE  \/ \E s \in SessionIDs, e \in KnownEvents, c \in Claims,
                   parent \in BOOLEAN, text \in 0..MaxReplies :
                      HandleMessage(h, s, e, c, parent, text)
             \/ \E s \in SessionIDs : Removes(h, s)
  <2>1. ASSUME NEW s \in SessionIDs, NEW e \in Events \ {"session_end"}, NEW c \in Claims,
               NEW parent \in BOOLEAN, NEW text \in 0..MaxReplies,
               HandleMessage(h, s, e, c, parent, text)
        PROVE  e \in KnownEvents
    BY <2>1 DEF HandleMessage
  <2>2. ASSUME NEW s \in SessionIDs, EndSession(h, s) PROVE Removes(h, s)
    BY <2>2 DEF EndSession, Removes
  <2> QED
    BY <1>1, <2>1, <2>2 DEF Hook
<1>2. ASSUME NEW h \in Handlers,
             CheckMonitor(h) \/ ResolvePid(h) \/ OpenFails(h) \/ InstallMonitor(h)
             \/ ClearMonitor(h) \/ CloseMonitor(h)
      PROVE  Calm
  <2>1. UNCHANGED <<sessions, updates, expired>> /\ pc[h] # "announce"
    BY <1>2 DEF CheckMonitor, ResolvePid, OpenFails, InstallMonitor, ClearMonitor, CloseMonitor
  <2>2. CASE Finish(h)
    BY <2>1, <2>2, FinishCalm
  <2>3. CASE ~Finish(h)
    <3>1. PICK label \in {"resolve", "open", "clear", "close"} : pc' = [pc EXCEPT ![h] = label]
      BY <1>2, <2>3 DEF CheckMonitor, ResolvePid, OpenFails, InstallMonitor, ClearMonitor,
            CloseMonitor
    <3>2. \A u \in Threads \ {h} : job'[u] = job[u]
      BY <1>2, <2>3 DEF CheckMonitor, ResolvePid, OpenFails, InstallMonitor, ClearMonitor,
            CloseMonitor, ThreadTypeOK
    <3> QED
      BY <2>1, <3>1, <3>2, LabelCalm DEF Labels
  <2> QED
    BY <2>2, <2>3
<1>3. ASSUME NEW h \in Handlers, NEW m \in Monitors, NEW p \in Processes, OpenMonitor(h, m, p)
      PROVE  Calm
  BY <1>3, ThreadsAssumption DEF OpenMonitor, Calm, ThreadTypeOK, Jobs
<1>4. ASSUME NEW t \in Handlers \cup Monitors, CloseRemoved(t) PROVE Calm
  BY <1>4 DEF CloseRemoved, Calm, ThreadTypeOK, Jobs
<1>5. ASSUME NEW m \in Monitors, MonitorWakes(m) \/ PollFails(m) \/ CheckExit(m)
      PROVE  Calm
  BY <1>5 DEF MonitorWakes, PollFails, CheckExit, Calm, ThreadTypeOK
<1>6. ASSUME NEW m \in Monitors, RemoveExited(m) PROVE \E s \in SessionIDs : Removes(m, s)
  <2>1. watch[m].id \in SessionIDs
    BY <1>6 DEF RemoveExited, Ready, Watches
  <2> QED
    BY <1>6, <2>1 DEF RemoveExited, Removes
<1>7. ASSUME NEW r \in Readers, ReadTranscript(r) PROVE Calm
  <2>1. CASE Finish(r)
    BY <1>7, <2>1, FinishCalm DEF ReadTranscript
  <2>2. CASE pc' = [pc EXCEPT ![r] = "store"] /\ \E n : job' = [job EXCEPT ![r].reply = n]
    BY <1>7, <2>2 DEF ReadTranscript, Calm, ThreadTypeOK
  <2> QED
    BY <1>7, <2>1, <2>2 DEF ReadTranscript
<1>8. ASSUME NEW r \in Readers, StoreReply(r) PROVE Calm \/ StoresReply(r)
  <2>1. CASE Finish(r) /\ UNCHANGED sessions
    BY <1>8, <2>1, FinishCalm DEF StoreReply, Annotated
  <2>2. CASE ~(Finish(r) /\ UNCHANGED sessions)
    BY <1>8, <2>2 DEF StoreReply, Annotated, StoresReply
  <2> QED
    BY <2>1, <2>2
<1>9. ASSUME PruneTick PROVE Calm
  BY <1>9 DEF PruneTick, Calm, ThreadTypeOK
<1>10. ASSUME Environment PROVE Calm
  BY <1>10 DEF Environment, Tick, ProcessStarts, ProcessExits, AgentReplies, Calm
<1> QED
  BY <1>1, <1>2, <1>3, <1>4, <1>5, <1>6, <1>7, <1>8, <1>9, <1>10
     DEF Manager, Handler, Monitor, Reader, Prune

-----------------------------------------------------------------------------
(* The invariant, one part at a time.                                      *)

\* A stamp is the clock's, or an older one (Registry!Next).
LEMMA StampsStep ==
    ASSUME TypeInv, StampsPast, [Next]_vars
    PROVE  StampsPast' /\ clock \in Nat /\ clock' \in Nat /\ clock <= clock'
<1>1. Registry!Next \/ UNCHANGED <<sessions, clock>>
  BY NextRegistry
<1>2. clock \in Nat /\ sessions \in [SessionIDs -> Sessions \cup {None}]
  BY BoundsAssumption DEF TypeInv, TypeOK, EnvironmentTypeOK, ManagerTypeOK
<1>3. \A x \in Sessions : x.lastEventAt \in Nat
  BY DEF Sessions
<1>4. ASSUME NEW s \in SessionIDs, NEW c \in Claims, Registry!Refresh(s, c)
      PROVE  StampsPast' /\ clock' = clock
  BY <1>2, <1>4 DEF Registry!Refresh, Registry!HookArrives, StampsPast
<1>5. ASSUME NEW s \in SessionIDs, Registry!Annotate(s) PROVE StampsPast' /\ clock' = clock
  <2>1. sessions[s] \in Sessions /\ sessions[s].lastEventAt <= clock
    BY <1>2, <1>5 DEF Registry!Annotate, StampsPast
  <2>2. sessions'[s].lastEventAt = sessions[s].lastEventAt
    BY <1>2, <1>5, <2>1 DEF Registry!Annotate, Sessions
  <2>3. \A q \in SessionIDs \ {s} : sessions'[q] = sessions[q]
    BY <1>2, <1>5 DEF Registry!Annotate
  <2> QED
    BY <1>5, <2>1, <2>2, <2>3 DEF StampsPast, Registry!Annotate, Registry!NoHook
<1>6. ASSUME NEW gone \in SUBSET SessionIDs, Registry!Drop(gone)
      PROVE  StampsPast' /\ clock' = clock
  BY <1>2, <1>6 DEF Registry!Drop, Registry!NoHook, StampsPast
<1>7. ASSUME Registry!Advance PROVE StampsPast' /\ clock' = clock + 1
  BY <1>2, <1>3, <1>7 DEF Registry!Advance, StampsPast
<1>8. ASSUME UNCHANGED <<sessions, clock>> PROVE StampsPast' /\ clock' = clock
  BY <1>8 DEF StampsPast
<1>9. ASSUME NEW s \in SessionIDs, Registry!End(s) PROVE StampsPast' /\ clock' = clock
  BY <1>2, <1>9 DEF Registry!End, Registry!HookArrives, StampsPast
<1> QED
  BY <1>1, <1>2, <1>4, <1>5, <1>6, <1>7, <1>8, <1>9 DEF Registry!Next

\* The channel after a notification and after a receipt.
LEMMA NotifiedEntries ==
    ASSUME NEW u, ManagerTypeOK
    PROVE  /\ \A i \in 1..Len(Notified(u)) :
                 Notified(u)[i] = u \/ \E j \in 1..Len(updates) : Notified(u)[i] = updates[j]
           /\ \A j \in 1..Len(updates) :
                 j \in 1..Len(Notified(u)) /\ Notified(u)[j] = updates[j]
           /\ Notified(u) # updates =>
                 \E i \in 1..Len(Notified(u)) : Notified(u)[i] = u
<1>1. /\ Len(updates) \in Nat
      /\ Len(Append(updates, u)) = Len(updates) + 1
      /\ Append(updates, u)[Len(updates) + 1] = u
      /\ \A j \in 1..Len(updates) : Append(updates, u)[j] = updates[j]
  BY DEF ManagerTypeOK
<1>2. Len(updates) + 1 \in 1..Len(Append(updates, u))
  BY <1>1
<1>3. CASE Notified(u) = updates
  BY <1>3
<1>4. CASE Notified(u) = Append(updates, u)
  BY <1>1, <1>2, <1>4
<1> QED
  BY <1>3, <1>4 DEF Notified

LEMMA TailEntries ==
    ASSUME ManagerTypeOK, updates # <<>>
    PROVE  /\ Head(updates) = updates[1] /\ 1 \in 1..Len(updates)
           /\ Head(updates) \in Updates
           /\ \A i \in 1..Len(Tail(updates)) :
                 i + 1 \in 1..Len(updates) /\ Tail(updates)[i] = updates[i + 1]
           /\ \A j \in 1..Len(updates) :
                 j # 1 => j - 1 \in 1..Len(Tail(updates)) /\ Tail(updates)[j - 1] = updates[j]
BY DEF ManagerTypeOK

\* A Timeout follows the removal of its session.
LEMMA TimeoutsStep ==
    ASSUME TypeInv, TimeoutsOfRemoved, PipelineNext
    PROVE  TimeoutsOfRemoved'
<1> USE DEF TypeInv, TypeOK
<1>1. CASE Forward
  <2>1. updates # <<>> /\ updates' = Tail(updates) /\ UNCHANGED <<pc, job, expired, disturbed>>
    BY <1>1 DEF Forward, ReceiveUpdate, pruneVars
  <2>2. \A i \in 1..Len(Tail(updates)) :
           Tail(updates)[i].type = "timeout" => Tail(updates)[i].id \in disturbed
    BY <2>1, TailEntries DEF TimeoutsOfRemoved
  <2> QED
    BY <2>1, <2>2 DEF TimeoutsOfRemoved
<1> SUFFICES ASSUME Manager \/ Environment, disturbed' = disturbed \cup Removed \cup Dropped
             PROVE  TimeoutsOfRemoved'
  BY <1>1 DEF PipelineNext
<1>2. CASE Calm
  BY <1>2 DEF Calm, TimeoutsOfRemoved
<1>3. ASSUME NEW h \in Handlers, NEW s \in SessionIDs, NEW e \in KnownEvents, NEW c \in Claims,
             NEW parent \in BOOLEAN, NEW text \in 0..MaxReplies,
             HandleMessage(h, s, e, c, parent, text)
      PROVE  TimeoutsOfRemoved'
  <2>1. UNCHANGED <<updates, expired>>
    BY <1>3 DEF HandleMessage, pruneVars
  <2>2. \A t \in Threads : pc'[t] = "removed" => pc[t] = "removed" /\ job'[t] = job[t]
    BY <1>3 DEF HandleMessage, ThreadTypeOK
  <2> QED
    BY <2>1, <2>2 DEF TimeoutsOfRemoved
<1>4. ASSUME NEW t \in Handlers \cup Readers, Announce(t) PROVE TimeoutsOfRemoved'
  <2> DEFINE u == [type |-> "upsert", id |-> job[t].id, session |-> job[t].session]
  <2>1. u.type # "timeout" /\ updates' = Notified(u)
    BY <1>4 DEF Announce
  <2> HIDE DEF u
  <2>2. \A i \in 1..Len(updates') : updates'[i].type = "timeout" => updates'[i].id \in disturbed
    BY <2>1, NotifiedEntries DEF TimeoutsOfRemoved
  <2>3. \A q \in Threads : pc'[q] = "removed" => pc[q] = "removed" /\ job'[q] = job[q]
    BY <1>4 DEF Announce, ThreadTypeOK
  <2> QED
    BY <1>4, <2>2, <2>3 DEF TimeoutsOfRemoved, Announce, pruneVars
<1>5. ASSUME NEW t \in Handlers \cup Monitors, NEW s \in SessionIDs, Removes(t, s)
      PROVE  TimeoutsOfRemoved'
  <2>1. sessions[s] # None => s \in disturbed'
    BY <1>5 DEF Removes, Remove, Removed, ManagerTypeOK
  <2>2. job'[t].id = s /\ job'[t].session = sessions[s]
    BY <1>5 DEF Removes, Remove, ThreadTypeOK, Threads
  <2>3. \A q \in Threads \ {t} : pc'[q] = pc[q] /\ job'[q] = job[q]
    BY <1>5 DEF Removes, Remove, ThreadTypeOK, Threads
  <2> QED
    BY <1>5, <2>1, <2>2, <2>3 DEF Removes, TimeoutsOfRemoved
<1>6. ASSUME NEW t \in Handlers \cup Monitors, AnnounceRemoval(t) PROVE TimeoutsOfRemoved'
  <2> DEFINE u == [type |-> "timeout", id |-> job[t].id, session |-> job[t].session]
  <2>1. u.id = job[t].id /\ updates' = IF job[t].session = None THEN updates ELSE Notified(u)
    BY <1>6 DEF AnnounceRemoval
  <2> HIDE DEF u
  <2>2. job[t].session # None => u.id \in disturbed
    BY <1>6, <2>1 DEF TimeoutsOfRemoved, AnnounceRemoval, Threads
  <2>3. \A i \in 1..Len(updates') : updates'[i].type = "timeout" => updates'[i].id \in disturbed
    BY <2>1, <2>2, NotifiedEntries DEF TimeoutsOfRemoved
  <2>4. \A q \in Threads : pc'[q] = "removed" => pc[q] = "removed" /\ job'[q] = job[q]
    BY <1>6 DEF AnnounceRemoval, Finish, ThreadTypeOK, Threads
  <2> QED
    BY <1>6, <2>3, <2>4 DEF TimeoutsOfRemoved, AnnounceRemoval, pruneVars
<1>7. ASSUME NEW r \in Readers, StoresReply(r) PROVE TimeoutsOfRemoved'
  <2>1. \A q \in Threads : pc'[q] = "removed" => pc[q] = "removed" /\ job'[q] = job[q]
    BY <1>7 DEF StoresReply, ThreadTypeOK
  <2> QED
    BY <1>7, <2>1 DEF TimeoutsOfRemoved, StoresReply
<1>8. CASE PruneExpired
  <2>1. UNCHANGED <<updates, job>>
    BY <1>8 DEF PruneExpired
  <2>2. \A x \in expired' : x.id \in Removed
    BY <1>8 DEF PruneExpired, Removed
  <2>3. \A q \in Threads : pc'[q] = "removed" => pc[q] = "removed"
    BY <1>8 DEF PruneExpired, ThreadTypeOK
  <2> QED
    BY <2>1, <2>2, <2>3 DEF TimeoutsOfRemoved
<1>9. CASE AnnounceExpired
  <2>1. PICK x \in expired : /\ updates' = Notified([type |-> "timeout", id |-> x.id,
                                                     session |-> x.session])
                             /\ expired' = expired \ {x}
                             /\ pc' = [pc EXCEPT ![Pruner] =
                                          IF expired = {x} THEN "idle" ELSE "announcing"]
                             /\ UNCHANGED job
    BY <1>9 DEF AnnounceExpired
  <2> DEFINE u == [type |-> "timeout", id |-> x.id, session |-> x.session]
  <2>2. updates' = Notified(u) /\ u.id \in disturbed
    BY <2>1 DEF TimeoutsOfRemoved
  <2> HIDE DEF u
  <2>3. \A i \in 1..Len(updates') : updates'[i].type = "timeout" => updates'[i].id \in disturbed
    BY <2>2, NotifiedEntries DEF TimeoutsOfRemoved
  <2>4. \A q \in Threads : pc'[q] = "removed" => pc[q] = "removed"
    BY <2>1 DEF ThreadTypeOK
  <2> QED
    BY <2>1, <2>3, <2>4 DEF TimeoutsOfRemoved
<1> QED
  BY <1>2, <1>3, <1>4, <1>5, <1>6, <1>7, <1>8, <1>9, ManagerSteps

-----------------------------------------------------------------------------
(* The newest record.                                                      *)

\* A step that takes nothing away of what is held, and adds nothing to it.
SameHeld(s) == sessions'[s] = sessions[s] /\ \A x \in Sessions : Held(s, x)' <=> Held(s, x)

LEMMA SameKeepsNewest ==
    ASSUME TypeInv, NoneNewer, NewestHeld, NEW s \in SessionIDs \ disturbed, SameHeld(s),
           clock \in Nat, clock' \in Nat, clock <= clock'
    PROVE  /\ \A x \in Sessions : Held(s, x)' => x.lastEventAt <= Newest(s)'
           /\ sessions'[s] # None =>
                 \E x \in Sessions : Held(s, x)' /\ x.lastEventAt = sessions'[s].lastEventAt
<1>1. \A x \in Sessions : x.lastEventAt \in Nat
  BY DEF Sessions
<1>2. sessions[s] # None => sessions[s].lastEventAt \in Nat
  BY <1>1 DEF TypeInv, TypeOK, ManagerTypeOK
<1> QED
  BY <1>1, <1>2 DEF SameHeld, NoneNewer, NewestHeld, Newest

\* So does a step that gives the session a record as new as the clock.
LEMMA NewKeepsNewest ==
    ASSUME TypeInv, NoneNewer, StampsPast, NEW s \in SessionIDs \ disturbed, NEW new \in Sessions,
           sessions'[s] = new, new.lastEventAt = Newest(s) \/ new.lastEventAt = clock,
           \A x \in Sessions : Held(s, x)' <=> Held(s, x) \/ x = new
    PROVE  /\ \A x \in Sessions : Held(s, x)' => x.lastEventAt <= Newest(s)'
           /\ sessions'[s] # None =>
                 \E x \in Sessions : Held(s, x)' /\ x.lastEventAt = sessions'[s].lastEventAt
<1>1. \A x \in Sessions : x.lastEventAt \in Nat
  BY DEF Sessions
<1>2. clock \in Nat /\ (sessions[s] # None => sessions[s].lastEventAt \in Nat)
  BY <1>1, BoundsAssumption DEF TypeInv, TypeOK, ManagerTypeOK, EnvironmentTypeOK
<1>3. new # None
  BY NoneAssumption
<1>4. Newest(s) <= new.lastEventAt /\ Newest(s) \in Nat
  BY <1>2 DEF StampsPast, Newest
<1>5. Newest(s)' = new.lastEventAt
  BY <1>3 DEF Newest
<1>6. \A x \in Sessions : Held(s, x) => x.lastEventAt <= Newest(s)
  BY DEF NoneNewer
<1> QED
  BY <1>1, <1>3, <1>4, <1>5, <1>6

\* A step that sends nothing and moves no goroutine to or from an announcement.
LEMMA QuietHeld ==
    ASSUME UNCHANGED <<store, updates>>,
           \A t \in Handlers \cup Readers :
              /\ pc'[t] = "announce" <=> pc[t] = "announce"
              /\ pc[t] = "announce" => job'[t].id = job[t].id /\ job'[t].session = job[t].session
    PROVE  \A s \in SessionIDs, x \in Sessions : Held(s, x)' <=> Held(s, x)
BY DEF Held

\* A Timeout is no record.
LEMMA TimeoutHeld ==
    ASSUME ManagerTypeOK, NEW u, NEW s \in SessionIDs, u.id # s, UNCHANGED store,
           updates' = updates \/ updates' = Notified(u),
           \A t \in Handlers \cup Readers :
              /\ pc'[t] = "announce" <=> pc[t] = "announce"
              /\ pc[t] = "announce" => job'[t].id = job[t].id /\ job'[t].session = job[t].session
    PROVE  \A x \in Sessions : Held(s, x)' <=> Held(s, x)
<1>1. \A x \in Sessions :
         (\E i \in 1..Len(updates') : updates'[i].id = s /\ updates'[i].session = x)
            <=> \E i \in 1..Len(updates) : updates[i].id = s /\ updates[i].session = x
  <2>1. CASE updates' = updates
    BY <2>1
  <2>2. CASE updates' = Notified(u)
    BY <2>2, NotifiedEntries
  <2> QED
    BY <2>1, <2>2
<1> QED
  BY <1>1 DEF Held

\* A hook's record is held by its handler.
LEMMA HandleMessageHeld ==
    ASSUME TypeInv, UNCHANGED store,
           NEW h \in Handlers, NEW s \in SessionIDs, NEW e \in KnownEvents, NEW c \in Claims,
           NEW parent \in BOOLEAN, NEW text \in 0..MaxReplies,
           HandleMessage(h, s, e, c, parent, text)
    PROVE  \E new \in Sessions :
              /\ sessions' = [sessions EXCEPT ![s] = new] /\ new.lastEventAt = clock
              /\ \A q \in SessionIDs, x \in Sessions :
                    Held(q, x)' <=> Held(q, x) \/ (q = s /\ x = new)
<1> USE DEF TypeInv, TypeOK
<1> DEFINE new == Upserted(s, e, c, parent, text)
           own == [NoJob EXCEPT !.id = s, !.session = new]
<1>1. new \in Sessions
  BY UpsertedType, BoundsAssumption
<1>2. new.lastEventAt = clock
  BY DEF Upserted
<1>3. own.id = s /\ own.session = new
  BY DEF NoJob
<1>4. /\ sessions' = [sessions EXCEPT ![s] = new] /\ UNCHANGED updates
      /\ pc[h] = "idle"
      /\ \/ pc' = [pc EXCEPT ![h] = "announce"] /\ job' = [job EXCEPT ![h] = own]
         \/ \E r \in Readers : /\ pc[r] = "idle"
                               /\ pc' = [pc EXCEPT ![h] = "announce", ![r] = "asleep"]
                               /\ job' = [job EXCEPT ![h] = own,
                                                     ![r] = [NoJob EXCEPT !.id = s]]
  BY DEF HandleMessage, Receives
<1> HIDE DEF new, own
<1>5. /\ pc'[h] = "announce" /\ job'[h].id = s /\ job'[h].session = new
      /\ \A t \in (Handlers \cup Readers) \ {h} :
            /\ pc'[t] = "announce" <=> pc[t] = "announce"
            /\ pc[t] = "announce" => job'[t] = job[t]
  BY <1>3, <1>4, ThreadsAssumption DEF ThreadTypeOK, Threads
<1>6. \A q \in SessionIDs, x \in Sessions : Held(q, x)' <=> Held(q, x) \/ (q = s /\ x = new)
  <2>1. ASSUME NEW q \in SessionIDs, NEW x \in Sessions, Held(q, x)'
        PROVE  Held(q, x) \/ (q = s /\ x = new)
    <3>1. CASE store'.sessions[q] = x /\ x # None
      BY <3>1 DEF Held
    <3>2. CASE \E i \in 1..Len(updates') : updates'[i].id = q /\ updates'[i].session = x
      BY <1>4, <1>5, <3>2 DEF Held
    <3>3. CASE pc'[h] = "announce" /\ job'[h].id = q /\ job'[h].session = x
      BY <1>4, <1>5, <3>3
    <3>4. CASE \E t \in (Handlers \cup Readers) \ {h} :
                  pc'[t] = "announce" /\ job'[t].id = q /\ job'[t].session = x
      BY <1>4, <1>5, <3>4 DEF Held
    <3> QED
      BY <2>1, <3>1, <3>2, <3>3, <3>4 DEF Held
  <2>2. ASSUME NEW q \in SessionIDs, NEW x \in Sessions, Held(q, x) \/ (q = s /\ x = new)
        PROVE  Held(q, x)'
    <3>1. CASE q = s /\ x = new
      BY <1>4, <1>5, <3>1 DEF Held
    <3>2. CASE store.sessions[q] = x /\ x # None
      BY <3>2 DEF Held
    <3>3. CASE \E i \in 1..Len(updates) : updates[i].id = q /\ updates[i].session = x
      BY <1>4, <1>5, <3>3 DEF Held
    <3>4. CASE \E t \in Handlers \cup Readers :
                  pc[t] = "announce" /\ job[t].id = q /\ job[t].session = x
      BY <1>4, <1>5, <3>4 DEF Held
    <3> QED
      BY <2>2, <3>1, <3>2, <3>3, <3>4 DEF Held
  <2> QED
    BY <2>1, <2>2
<1> QED
  BY <1>1, <1>2, <1>4, <1>6

\* A stored reply is held by its reader, with the stamp that the session had.
LEMMA StoresReplyHeld ==
    ASSUME TypeInv, UNCHANGED store, NEW r \in Readers, StoresReply(r)
    PROVE  \E s \in SessionIDs, new \in Sessions :
              /\ sessions[s] # None /\ sessions' = [sessions EXCEPT ![s] = new]
              /\ new.lastEventAt = sessions[s].lastEventAt
              /\ \A q \in SessionIDs, x \in Sessions :
                    Held(q, x)' <=> Held(q, x) \/ (q = s /\ x = new)
<1> USE DEF TypeInv, TypeOK
<1> DEFINE s == job[r].id
           new == [sessions[s] EXCEPT !.reply = job[r].reply]
<1>1. s \in SessionIDs /\ job[r].reply \in Nat
  BY DEF StoresReply, Ready, Threads, ThreadTypeOK, Jobs
<1>2. sessions[s] \in Sessions
  BY <1>1 DEF StoresReply, ManagerTypeOK
<1>3. new \in Sessions /\ new.lastEventAt = sessions[s].lastEventAt
  BY <1>1, <1>2 DEF Sessions
<1>4. /\ pc'[r] = "announce" /\ job'[r].id = s /\ job'[r].session = new /\ pc[r] = "store"
      /\ \A t \in (Handlers \cup Readers) \ {r} : pc'[t] = pc[t] /\ job'[t] = job[t]
  BY DEF StoresReply, ThreadTypeOK, Threads, Jobs
<1>5. sessions[s] # None /\ sessions' = [sessions EXCEPT ![s] = new] /\ UNCHANGED updates
  BY DEF StoresReply
<1> HIDE DEF new, s
<1>6. \A q \in SessionIDs, x \in Sessions : Held(q, x)' <=> Held(q, x) \/ (q = s /\ x = new)
  <2>1. ASSUME NEW q \in SessionIDs, NEW x \in Sessions, Held(q, x)'
        PROVE  Held(q, x) \/ (q = s /\ x = new)
    <3>1. CASE store'.sessions[q] = x /\ x # None
      BY <3>1 DEF Held
    <3>2. CASE \E i \in 1..Len(updates') : updates'[i].id = q /\ updates'[i].session = x
      BY <1>4, <1>5, <3>2 DEF Held
    <3>3. CASE pc'[r] = "announce" /\ job'[r].id = q /\ job'[r].session = x
      BY <1>4, <1>5, <3>3
    <3>4. CASE \E t \in (Handlers \cup Readers) \ {r} :
                  pc'[t] = "announce" /\ job'[t].id = q /\ job'[t].session = x
      BY <1>4, <1>5, <3>4 DEF Held
    <3> QED
      BY <2>1, <3>1, <3>2, <3>3, <3>4 DEF Held
  <2>2. ASSUME NEW q \in SessionIDs, NEW x \in Sessions, Held(q, x) \/ (q = s /\ x = new)
        PROVE  Held(q, x)'
    <3>1. CASE q = s /\ x = new
      BY <1>4, <1>5, <3>1 DEF Held
    <3>2. CASE store.sessions[q] = x /\ x # None
      BY <3>2 DEF Held
    <3>3. CASE \E i \in 1..Len(updates) : updates[i].id = q /\ updates[i].session = x
      BY <1>4, <1>5, <3>3 DEF Held
    <3>4. CASE \E t \in Handlers \cup Readers :
                  pc[t] = "announce" /\ job[t].id = q /\ job[t].session = x
      BY <1>4, <1>5, <3>4 DEF Held
    <3> QED
      BY <2>2, <3>1, <3>2, <3>3, <3>4 DEF Held
  <2> QED
    BY <2>1, <2>2
<1> QED
  BY <1>1, <1>3, <1>5, <1>6

\* An announced record goes from its goroutine into the channel, or its session
\* is disturbed.
LEMMA AnnounceHeld ==
    ASSUME TypeInv, UNCHANGED store, NEW t \in Handlers \cup Readers, Announce(t),
           NEW s \in SessionIDs, s \notin Dropped
    PROVE  \A x \in Sessions : Held(s, x)' <=> Held(s, x)
<1> USE DEF TypeInv, TypeOK
<1> DEFINE u == [type |-> "upsert", id |-> job[t].id, session |-> job[t].session]
<1>1. u.id = job[t].id /\ u.session = job[t].session /\ updates' = Notified(u)
  BY DEF Announce
<1>2. /\ pc[t] = "announce" /\ pc'[t] # "announce"
      /\ \A q \in (Handlers \cup Readers) \ {t} : pc'[q] = pc[q] /\ job'[q] = job[q]
  BY DEF Announce, ThreadTypeOK, Threads
<1>3. updates' = updates => s # job[t].id
  BY <1>2 DEF Dropped, Threads
<1> HIDE DEF u
<1>4. ASSUME NEW x \in Sessions, Held(s, x)' PROVE Held(s, x)
  BY <1>1, <1>2, <1>4, NotifiedEntries DEF Held
<1>5. ASSUME NEW x \in Sessions, Held(s, x) PROVE Held(s, x)'
  <2>1. CASE pc[t] = "announce" /\ job[t].id = s /\ job[t].session = x
    <3>1. \E i \in 1..Len(Notified(u)) : Notified(u)[i] = u
      BY <1>1, <1>3, <2>1, NotifiedEntries
    <3> QED
      BY <1>1, <2>1, <3>1 DEF Held
  <2>2. CASE \E q \in (Handlers \cup Readers) \ {t} :
                pc[q] = "announce" /\ job[q].id = s /\ job[q].session = x
    BY <1>2, <2>2 DEF Held
  <2>3. CASE \E i \in 1..Len(updates) : updates[i].id = s /\ updates[i].session = x
    BY <1>1, <2>3, NotifiedEntries DEF Held
  <2>4. CASE store.sessions[s] = x /\ x # None
    BY <2>4 DEF Held
  <2> QED
    BY <1>5, <2>1, <2>2, <2>3, <2>4 DEF Held
<1> QED
  BY <1>4, <1>5

\* A received record goes from the channel into the store, unless the store has a
\* newer one.
LEMMA ForwardHeld ==
    ASSUME TypeInv, store \in Model!Stores(Sessions), TimeoutsOfRemoved, Forward,
           NEW s \in SessionIDs \ disturbed
    PROVE  /\ \A x \in Sessions : Held(s, x)' => Held(s, x)
           /\ \A x \in Sessions : Held(s, x) =>
                 \E y \in Sessions : /\ Held(s, y) /\ Held(s, y)'
                                     /\ y.lastEventAt >= x.lastEventAt
<1> USE DEF TypeInv, TypeOK
<1> DEFINE u == Head(updates)
<1>1. /\ updates # <<>> /\ updates' = Tail(updates) /\ UNCHANGED <<pc, job>>
      /\ store' = Overlay!Apply(store, u)
  BY DEF Forward, ReceiveUpdate
<1>2. u \in Updates /\ u = updates[1] /\ 1 \in 1..Len(updates)
  BY <1>1, TailEntries
<1> HIDE DEF u
<1>3. u.id \in SessionIDs /\ u.session \in Sessions /\ u.session # None
  BY <1>2, NoneAssumption DEF Updates
<1>4. store.sessions \in [SessionIDs -> Sessions \cup {None}]
  BY DEF Model!Stores
<1>5. \A x \in Sessions : x.lastEventAt \in Nat
  BY DEF Sessions
<1>6. u.id = s => u.type # "timeout"
  BY <1>2 DEF TimeoutsOfRemoved
<1>7. CASE /\ u.id = s
           /\ store'.sessions[s] = u.session
           /\ store.sessions[s] # None => u.session.lastEventAt >= store.sessions[s].lastEventAt
  <2>1. ASSUME NEW x \in Sessions, Held(s, x)' PROVE Held(s, x)
    <3>1. CASE store'.sessions[s] = x
      BY <1>2, <1>7, <3>1 DEF Held
    <3>2. CASE \E i \in 1..Len(updates') : updates'[i].id = s /\ updates'[i].session = x
      BY <1>1, <3>2, TailEntries DEF Held
    <3> QED
      BY <1>1, <2>1, <3>1, <3>2 DEF Held
  <2>2. PICK y \in Sessions : y = u.session
    BY <1>3
  <2>3. Held(s, y)
    BY <1>2, <1>7, <2>2 DEF Held
  <2>4. Held(s, y)'
    BY <1>3, <1>7, <2>2 DEF Held
  <2>5. ASSUME NEW x \in Sessions, Held(s, x)
        PROVE  \E z \in Sessions : /\ Held(s, z) /\ Held(s, z)'
                                   /\ z.lastEventAt >= x.lastEventAt
    <3>1. CASE store.sessions[s] = x /\ x # None
      BY <1>3, <1>5, <1>7, <2>2, <2>3, <2>4, <3>1
    <3>2. CASE updates[1].session = x
      BY <1>2, <1>3, <1>5, <2>2, <2>3, <2>4, <3>2
    <3>3. CASE \E i \in 1..Len(updates) : i # 1 /\ updates[i].id = s /\ updates[i].session = x
      <4>1. Held(s, x)'
        BY <1>1, <3>3, TailEntries DEF Held
      <4> QED
        BY <1>5, <2>5, <4>1
    <3>4. CASE \E t \in Handlers \cup Readers :
                  pc[t] = "announce" /\ job[t].id = s /\ job[t].session = x
      <4>1. Held(s, x)'
        BY <1>1, <3>4 DEF Held
      <4> QED
        BY <1>5, <2>5, <4>1
    <3> QED
      BY <1>2, <2>5, <3>1, <3>2, <3>3, <3>4 DEF Held
  <2> QED
    BY <2>1, <2>5
<1>8. CASE /\ store'.sessions[s] = store.sessions[s]
           /\ u.id = s => /\ store.sessions[s] # None
                          /\ u.session.lastEventAt < store.sessions[s].lastEventAt
  <2>1. ASSUME NEW x \in Sessions, Held(s, x)' PROVE Held(s, x)
    <3>1. CASE \E i \in 1..Len(updates') : updates'[i].id = s /\ updates'[i].session = x
      BY <1>1, <3>1, TailEntries DEF Held
    <3> QED
      BY <1>1, <1>8, <2>1, <3>1 DEF Held
  <2>2. ASSUME NEW x \in Sessions, Held(s, x)
        PROVE  \E y \in Sessions : /\ Held(s, y) /\ Held(s, y)'
                                   /\ y.lastEventAt >= x.lastEventAt
    <3>1. CASE u.id = s /\ u.session = x
      <4>1. PICK y \in Sessions : y = store.sessions[s]
        BY <1>4, <1>8, <3>1
      <4>2. y # None /\ x.lastEventAt < y.lastEventAt /\ Held(s, y) /\ Held(s, y)'
        BY <1>8, <3>1, <4>1 DEF Held
      <4> QED
        BY <1>5, <4>1, <4>2
    <3>2. CASE Held(s, x)'
      BY <1>5, <2>2, <3>2
    <3>3. CASE \E i \in 1..Len(updates) : i # 1 /\ updates[i].id = s /\ updates[i].session = x
      BY <1>1, <3>2, <3>3, TailEntries DEF Held
    <3>4. CASE store.sessions[s] = x /\ x # None
      BY <1>8, <3>2, <3>4 DEF Held
    <3>5. CASE \E t \in Handlers \cup Readers :
                  pc[t] = "announce" /\ job[t].id = s /\ job[t].session = x
      BY <1>1, <3>2, <3>5 DEF Held
    <3> QED
      BY <1>2, <2>2, <3>1, <3>3, <3>4, <3>5 DEF Held
  <2> QED
    BY <2>1, <2>2
<1>9. CASE u.id # s
  <2>1. store'.sessions[s] = store.sessions[s]
    BY <1>1, <1>3, <1>4, <1>9 DEF Overlay!Apply, Overlay!Upsert, Overlay!Recorded, Overlay!Forget
  <2> QED
    BY <1>8, <1>9, <2>1
<1>10. CASE u.id = s
  <2>1. store' = Overlay!Upsert(store, u)
    BY <1>1, <1>6, <1>10 DEF Overlay!Apply
  <2>2. CASE store.sessions[s] # None /\ u.session.lastEventAt < store.sessions[s].lastEventAt
    BY <1>8, <1>10, <2>1, <2>2 DEF Overlay!Upsert, Overlay!Known
  <2>3. CASE ~(store.sessions[s] # None /\ u.session.lastEventAt < store.sessions[s].lastEventAt)
    <3>1. store' = Overlay!Recorded(store, u)
      BY <1>10, <2>1, <2>3 DEF Overlay!Upsert, Overlay!Known
    <3>2. store'.sessions[s] = u.session
      BY <1>4, <1>10, <3>1 DEF Overlay!Recorded
    <3>3. store.sessions[s] # None =>
             u.session.lastEventAt >= store.sessions[s].lastEventAt
      BY <1>3, <1>4, <1>5, <2>3
    <3> QED
      BY <1>7, <1>10, <3>2, <3>3
  <2> QED
    BY <2>2, <2>3
<1> QED
  BY <1>9, <1>10

\* Every step keeps the newest record of an undisturbed session.
LEMMA NewestStep ==
    ASSUME TypeInv, store \in Model!Stores(Sessions), NewestInv, PipelineNext,
           NEW s \in SessionIDs, s \notin disturbed'
    PROVE  /\ \A x \in Sessions : Held(s, x)' => x.lastEventAt <= Newest(s)'
           /\ sessions'[s] # None =>
                 \E x \in Sessions : Held(s, x)' /\ x.lastEventAt = sessions'[s].lastEventAt
           /\ \A x \in Sessions : Held(s, x)' => x \in made'[s]
<1> USE DEF TypeInv, TypeOK, NewestInv
<1>1. /\ StampsPast' /\ clock \in Nat /\ clock' \in Nat /\ clock <= clock'
  BY PipelineTypeInv, StampsStep
<1>2. s \in SessionIDs \ disturbed
  BY DEF PipelineNext, Forward
<1>3. SameHeld(s) => /\ \A x \in Sessions : Held(s, x)' => x.lastEventAt <= Newest(s)'
                     /\ sessions'[s] # None =>
                           \E x \in Sessions : /\ Held(s, x)'
                                               /\ x.lastEventAt = sessions'[s].lastEventAt
  BY <1>1, <1>2, SameKeepsNewest
<1>4. CASE Forward
  <2>1. UNCHANGED <<sessions, clock, made>>
    BY <1>4 DEF Forward, ReceiveUpdate, envVars
  <2>2. \A x \in Sessions : Held(s, x)' => x.lastEventAt <= Newest(s)
    BY <1>2, <1>4, ForwardHeld DEF NoneNewer
  <2>3. ASSUME sessions[s] # None
        PROVE  \E x \in Sessions : Held(s, x)' /\ x.lastEventAt = sessions[s].lastEventAt
    <3>1. PICK x \in Sessions : Held(s, x) /\ x.lastEventAt = sessions[s].lastEventAt
      BY <1>2, <2>3 DEF NewestHeld
    <3>2. PICK y \in Sessions : Held(s, y) /\ Held(s, y)' /\ y.lastEventAt >= x.lastEventAt
      BY <1>2, <1>4, <3>1, ForwardHeld
    <3>3. y.lastEventAt <= sessions[s].lastEventAt
      BY <1>2, <2>3, <3>2 DEF NoneNewer, Newest
    <3>4. x.lastEventAt \in Nat /\ y.lastEventAt \in Nat
      BY DEF Sessions
    <3> QED
      BY <3>1, <3>2, <3>3, <3>4
  <2>4. \A x \in Sessions : Held(s, x)' => x \in made[s]
    BY <1>2, <1>4, ForwardHeld DEF HeldIsMade
  <2> QED
    BY <2>1, <2>2, <2>3, <2>4 DEF Newest
<1>5. ASSUME Manager \/ Environment, UNCHANGED store, s \notin Removed, s \notin Dropped
      PROVE  \/ SameHeld(s)
             \/ \E new \in Sessions :
                   /\ sessions'[s] = new
                   /\ new.lastEventAt = Newest(s) \/ new.lastEventAt = clock
                   /\ \A x \in Sessions : Held(s, x)' <=> Held(s, x) \/ x = new
  <2>1. CASE Calm
    <3>1. \A t \in Handlers \cup Readers :
             /\ pc'[t] = "announce" <=> pc[t] = "announce"
             /\ pc[t] = "announce" => job'[t].id = job[t].id /\ job'[t].session = job[t].session
      BY <2>1 DEF Calm, Threads
    <3> QED
      BY <1>5, <2>1, <3>1, QuietHeld DEF Calm, SameHeld
  <2>2. ASSUME NEW h \in Handlers, NEW q \in SessionIDs, NEW e \in KnownEvents, NEW c \in Claims,
               NEW parent \in BOOLEAN, NEW text \in 0..MaxReplies,
               HandleMessage(h, q, e, c, parent, text)
        PROVE  \/ SameHeld(s)
               \/ \E new \in Sessions :
                     /\ sessions'[s] = new
                     /\ new.lastEventAt = Newest(s) \/ new.lastEventAt = clock
                     /\ \A x \in Sessions : Held(s, x)' <=> Held(s, x) \/ x = new
    <3>1. PICK new \in Sessions :
             /\ sessions' = [sessions EXCEPT ![q] = new] /\ new.lastEventAt = clock
             /\ \A p \in SessionIDs, x \in Sessions :
                   Held(p, x)' <=> Held(p, x) \/ (p = q /\ x = new)
      BY <1>5, <2>2, HandleMessageHeld
    <3> QED
      BY <3>1 DEF SameHeld, ManagerTypeOK
  <2>3. ASSUME NEW t \in Handlers \cup Readers, Announce(t) PROVE SameHeld(s)
    BY <1>5, <2>3, AnnounceHeld DEF Announce, SameHeld
  <2>4. ASSUME NEW t \in Handlers \cup Monitors, NEW q \in SessionIDs, Removes(t, q)
        PROVE  SameHeld(s)
    <3>1. sessions'[s] = sessions[s]
      BY <1>5, <2>4 DEF Removes, Remove, Removed, ManagerTypeOK
    <3>2. \A u \in Handlers \cup Readers :
             /\ pc'[u] = "announce" <=> pc[u] = "announce"
             /\ pc[u] = "announce" => job'[u].id = job[u].id /\ job'[u].session = job[u].session
      BY <2>4 DEF Removes, Remove, ThreadTypeOK, Threads
    <3> QED
      BY <1>5, <2>4, <3>1, <3>2, QuietHeld DEF Removes, SameHeld
  <2>5. ASSUME NEW t \in Handlers \cup Monitors, AnnounceRemoval(t) PROVE SameHeld(s)
    <3>1. \A u \in Handlers \cup Readers :
             /\ pc'[u] = "announce" <=> pc[u] = "announce"
             /\ pc[u] = "announce" => job'[u].id = job[u].id /\ job'[u].session = job[u].session
      BY <2>5 DEF AnnounceRemoval, Finish, ThreadTypeOK, Threads
    <3>2. CASE job[t].session = None
      BY <1>5, <2>5, <3>1, <3>2, QuietHeld DEF AnnounceRemoval, SameHeld
    <3>3. CASE job[t].session # None
      <4>1. job[t].id # s
        BY <1>2, <2>5, <3>3 DEF AnnounceRemoval, TimeoutsOfRemoved, Threads
      <4>2. PICK u : /\ u = [type |-> "timeout", id |-> job[t].id, session |-> job[t].session]
                     /\ updates' = Notified(u)
        BY <2>5, <3>3 DEF AnnounceRemoval
      <4>3. u.id # s
        BY <4>1, <4>2
      <4> QED
        BY <1>5, <2>5, <3>1, <4>2, <4>3, TimeoutHeld DEF AnnounceRemoval, SameHeld
    <3> QED
      BY <3>2, <3>3
  <2>6. ASSUME NEW r \in Readers, StoresReply(r)
        PROVE  \/ SameHeld(s)
               \/ \E new \in Sessions :
                     /\ sessions'[s] = new
                     /\ new.lastEventAt = Newest(s) \/ new.lastEventAt = clock
                     /\ \A x \in Sessions : Held(s, x)' <=> Held(s, x) \/ x = new
    <3>1. PICK q \in SessionIDs, new \in Sessions :
             /\ sessions[q] # None /\ sessions' = [sessions EXCEPT ![q] = new]
             /\ new.lastEventAt = sessions[q].lastEventAt
             /\ \A p \in SessionIDs, x \in Sessions :
                   Held(p, x)' <=> Held(p, x) \/ (p = q /\ x = new)
      BY <1>5, <2>6, StoresReplyHeld
    <3> QED
      BY <3>1 DEF SameHeld, ManagerTypeOK, Newest
  <2>7. CASE PruneExpired
    <3>1. sessions'[s] = sessions[s] /\ UNCHANGED <<updates, job>>
      BY <1>5, <2>7 DEF PruneExpired, Removed
    <3>2. \A u \in Handlers \cup Readers : pc'[u] = "announce" <=> pc[u] = "announce"
      BY <2>7, ThreadsAssumption DEF PruneExpired, ThreadTypeOK, Threads
    <3> QED
      BY <1>5, <3>1, <3>2, QuietHeld DEF SameHeld
  <2>8. CASE AnnounceExpired
    <3>1. PICK x \in expired :
             \E u : /\ u = [type |-> "timeout", id |-> x.id, session |-> x.session]
                    /\ updates' = Notified(u)
                    /\ pc' = [pc EXCEPT ![Pruner] =
                                 IF expired = {x} THEN "idle" ELSE "announcing"]
                    /\ UNCHANGED <<sessions, job>>
      BY <2>8 DEF AnnounceExpired
    <3>2. PICK u : /\ u = [type |-> "timeout", id |-> x.id, session |-> x.session]
                   /\ updates' = Notified(u)
      BY <3>1
    <3>3. u.id # s
      BY <1>2, <3>2 DEF TimeoutsOfRemoved
    <3>4. \A t \in Handlers \cup Readers : pc'[t] = "announce" <=> pc[t] = "announce"
      BY <3>1, ThreadsAssumption DEF ThreadTypeOK, Threads
    <3> QED
      BY <1>5, <3>1, <3>2, <3>3, <3>4, TimeoutHeld DEF SameHeld
  <2> QED
    BY <1>5, <2>1, <2>2, <2>3, <2>4, <2>5, <2>6, <2>7, <2>8, ManagerSteps
<1>6. CASE ~Forward
  <2>1. (Manager \/ Environment) /\ UNCHANGED store /\ s \notin Removed /\ s \notin Dropped
    BY <1>6 DEF PipelineNext
  <2>2. made'[s] = made[s] \cup ({sessions'[s]} \ {None})
    BY <1>6 DEF PipelineNext
  <2>3. \A x \in Sessions : Held(s, x) => x \in made'[s]
    BY <1>2, <2>2 DEF HeldIsMade
  <2>4. CASE SameHeld(s)
    <3>1. \A x \in Sessions : Held(s, x)' => x \in made'[s]
      BY <2>3, <2>4 DEF SameHeld
    <3> QED
      BY <1>3, <2>4, <3>1
  <2>5. ASSUME NEW new \in Sessions, sessions'[s] = new,
               new.lastEventAt = Newest(s) \/ new.lastEventAt = clock,
               \A x \in Sessions : Held(s, x)' <=> Held(s, x) \/ x = new
        PROVE  /\ \A x \in Sessions : Held(s, x)' => x.lastEventAt <= Newest(s)'
               /\ sessions'[s] # None =>
                     \E x \in Sessions : Held(s, x)' /\ x.lastEventAt = sessions'[s].lastEventAt
               /\ \A x \in Sessions : Held(s, x)' => x \in made'[s]
    <3>1. new # None
      BY NoneAssumption
    <3>2. \A x \in Sessions : Held(s, x)' => x \in made'[s]
      BY <2>2, <2>3, <2>5, <3>1
    <3> QED
      BY <1>2, <2>5, <3>2, NewKeepsNewest
  <2> QED
    BY <1>5, <2>1, <2>4, <2>5
<1> QED
  BY <1>4, <1>6

-----------------------------------------------------------------------------
(* The theorems.                                                           *)

\* The lemma on the store, in the names of this module.
LEMMA ApplyOK ==
    ASSUME NEW s \in Model!Stores(Sessions), Overlay!StoreConsistent(s), NEW u \in Updates
    PROVE  /\ Overlay!Apply(s, u) \in Model!Stores(Sessions)
           /\ Overlay!StoreConsistent(Overlay!Apply(s, u))
<1>1. \A x : Overlay!Known(x) = Model!Known(x)
  BY DEF Overlay!Known, Model!Known
<1>2. \A x : Overlay!StoreConsistent(x) <=> Model!StoreConsistent(x)
  BY <1>1 DEF Overlay!StoreConsistent, Model!StoreConsistent
<1>3. Overlay!Apply(s, u) = Model!Apply(s, u)
  BY <1>1 DEF Overlay!Apply, Overlay!Upsert, Overlay!Recorded, Overlay!Forget, Overlay!Without,
        Model!Apply, Model!Upsert, Model!Recorded, Model!Forget, Model!Without
<1>4. None \notin Sessions /\ u \in Model!UpdatesOf(Sessions) /\ Model!StoreConsistent(s)
  BY <1>2, NoneAssumption DEF Updates, Model!UpdatesOf
<1>5. /\ Model!Apply(s, u) \in Model!Stores(Sessions)
      /\ Model!StoreConsistent(Model!Apply(s, u))
  BY <1>4, Model!ApplyConsistent
<1> QED
  BY <1>2, <1>3, <1>5

\* The invariant that both theorems come from.
LEMMA PipelineInv == PipelineSpec => [](StoreInv /\ NewestInv)
<1>1. PipelineInit => StoreInv /\ NewestInv
  <2> SUFFICES ASSUME PipelineInit PROVE StoreInv /\ NewestInv
    OBVIOUS
  <2>1. TypeInv
    BY InitTypeInv DEF PipelineInit
  <2>2. store \in Model!Stores(Sessions) /\ StoreListsOnce
    BY DEF PipelineInit, Overlay!EmptyStore, Model!Stores, StoreListsOnce,
          Overlay!StoreConsistent, Overlay!Known
  <2>3. \A s \in SessionIDs, x \in Sessions : ~Held(s, x)
    BY DEF PipelineInit, Init, Overlay!EmptyStore, Held, Threads
  <2>4. StampsPast /\ TimeoutsOfRemoved
    BY DEF PipelineInit, Init, StampsPast, TimeoutsOfRemoved
  <2>5. NoneNewer /\ NewestHeld /\ HeldIsMade
    BY <2>3 DEF PipelineInit, Init, NoneNewer, NewestHeld, HeldIsMade
  <2> QED
    BY <2>1, <2>2, <2>4, <2>5 DEF StoreInv, NewestInv
<1>2. StoreInv /\ NewestInv /\ [PipelineNext]_pipelineVars => (StoreInv /\ NewestInv)'
  <2> SUFFICES ASSUME StoreInv, NewestInv, [PipelineNext]_pipelineVars
               PROVE  StoreInv' /\ NewestInv'
    OBVIOUS
  <2>1. TypeInv /\ store \in Model!Stores(Sessions) /\ StoreListsOnce
    BY DEF StoreInv
  <2>2. TypeInv' /\ [Next]_vars
    BY <2>1, PipelineTypeInv
  <2>3. store' \in Model!Stores(Sessions) /\ StoreListsOnce'
    <3>1. CASE Forward
      <4>1. Head(updates) \in Updates
        BY <2>1, <3>1, TailEntries DEF Forward, ReceiveUpdate, TypeInv, TypeOK
      <4> QED
        BY <2>1, <3>1, <4>1, ApplyOK DEF Forward, StoreListsOnce
    <3>2. CASE UNCHANGED store
      BY <2>1, <3>2 DEF StoreListsOnce
    <3> QED
      BY <3>1, <3>2 DEF PipelineNext, pipelineVars
  <2>4. CASE UNCHANGED pipelineVars
    <3>1. \A s, x : Held(s, x)' <=> Held(s, x)
      BY <2>4 DEF pipelineVars, vars, Held
    <3>2. StampsPast' /\ TimeoutsOfRemoved' /\ NoneNewer' /\ NewestHeld' /\ HeldIsMade'
      BY <2>4, <3>1 DEF pipelineVars, vars, NewestInv, StampsPast, TimeoutsOfRemoved, NoneNewer,
            NewestHeld, HeldIsMade, Newest
    <3> QED
      BY <2>2, <2>3, <3>2 DEF StoreInv, NewestInv
  <2>5. CASE PipelineNext
    <3>1. StampsPast' /\ TimeoutsOfRemoved'
      BY <2>1, <2>2, <2>5, StampsStep, TimeoutsStep DEF NewestInv
    <3>2. NoneNewer' /\ NewestHeld' /\ HeldIsMade'
      BY <2>1, <2>5, NewestStep DEF NoneNewer, NewestHeld, HeldIsMade
    <3> QED
      BY <2>2, <2>3, <3>1, <3>2 DEF StoreInv, NewestInv
  <2> QED
    BY <2>4, <2>5
<1> QED
  BY <1>1, <1>2, PTL DEF PipelineSpec

\* The store lists each of its sessions once, in whatever order the goroutines'
\* updates reach it (Apply).
THEOREM StoreListsEachOnce == PipelineSpec => []StoreListsOnce
<1>1. StoreInv => StoreListsOnce
  BY DEF StoreInv
<1> QED
  BY <1>1, PipelineInv, PTL

\* Once nothing is in flight, the store has a record of the last event of every
\* session that was never removed and had no update dropped, although handlers
\* and deferred reads send their records after they unlock, in any order: one that
\* the manager has had, with the stamp of the manager's own.
THEOREM StoreHasLastEvent == PipelineSpec => []StoreShowsLastEvent
<1>1. StoreInv /\ NewestInv => StoreShowsLastEvent
  <2> SUFFICES ASSUME StoreInv, NewestInv, Quiet,
                      NEW s \in SessionIDs \ disturbed, sessions[s] # None
               PROVE  store.sessions[s] \in OfLastInstant(s)
    BY DEF StoreShowsLastEvent
  <2>1. PICK x \in Sessions : Held(s, x) /\ x.lastEventAt = sessions[s].lastEventAt
    BY DEF NewestInv, NewestHeld
  <2>2. Len(updates) = 0
    BY DEF Quiet
  <2>3. \A t \in Handlers \cup Readers : pc[t] # "announce"
    BY ThreadsAssumption DEF Quiet, Threads
  <2>4. store.sessions[s] = x
    BY <2>1, <2>2, <2>3 DEF Held
  <2>5. x \in made[s]
    BY <2>1 DEF NewestInv, HeldIsMade
  <2> QED
    BY <2>1, <2>4, <2>5 DEF OfLastInstant
<1> QED
  BY <1>1, PipelineInv, PTL

=============================================================================
