---------------------------- MODULE DaemonProofs ----------------------------
(***************************************************************************)
(* Theorems about two parts of the daemon that share nothing.              *)
(*                                                                         *)
(* SocketServer: one socket path, any number of daemons and commands; what *)
(* holds as long as no daemon starts or stops while another does           *)
(* (`disturbed' is FALSE).  StyleWatch: any number of changes of the disk. *)
(***************************************************************************)
EXTENDS SocketServer, StyleWatch, TLAPS

-----------------------------------------------------------------------------
(* SocketServer: type correctness.                                         *)

Label == {"off", "serving", "failing", "deaf", "gone", "refused"} \cup Starting \cup Stopping

DaemonsOK ==
    /\ pc \in [Daemons -> Label] /\ file \in Daemons \cup {None}
    /\ wired \subseteq Daemons /\ cleaned \subseteq Daemons
    /\ disturbed \in BOOLEAN /\ alone \subseteq Daemons
ClientsOK ==
    /\ conn \in [Clients -> Daemons \cup {None}]
    /\ kind \in [Clients -> Commands \cup {None}] /\ stage \in [Clients -> Stages]
    /\ accepted \subseteq Clients /\ result \in [Clients -> {"none", "ok", "silent", "failed"}]

\* A command whose message is under way is one that handleConn knows.
Asked == \A c \in Clients : stage[c] \in {"dialled", "sent"} => kind[c] \in Commands

\* The type invariant is about daemons and about commands.
LEMMA TypeParts == TypeOK <=> DaemonsOK /\ ClientsOK
BY DEF TypeOK, DaemonsOK, ClientsOK, Label

\* A daemon goes on to a step it has.
LEMMA GotoType ==
    ASSUME DaemonsOK, NEW d \in Daemons, NEW label \in Label, Goto(d, label)
    PROVE  pc' \in [Daemons -> Label] /\ disturbed' \in BOOLEAN
BY DEF Goto, DaemonsOK

LEMMA CutType ==
    ASSUME ClientsOK, Asked, NEW cs, Cut(cs)
    PROVE  ClientsOK' /\ Asked'
BY DEF Cut, ClientsOK, Asked, Stages

-----------------------------------------------------------------------------
(* Why one daemon is reachable.  While a daemon is between two steps of    *)
(* its start or its stop, no other one is, and what it found out about the *)
(* path still holds.                                                       *)

NoneServes == \A e \in Daemons : pc[e] # "serving"
NoneListens == \A e \in Daemons : ~Open(e)

\* Nobody starts or stops beside one that does, and nobody is deaf.
OneBusy ==
    /\ \A d, e \in Daemons : pc[d] \in Busy /\ pc[e] \in Busy => d = e
    /\ \A d \in Daemons : pc[d] \notin {"failing", "deaf"}

\* Once a daemon goes to take the path, or begins to give it up, nobody serves.
PathTaken ==
    /\ \A d \in Daemons :
          pc[d] \in {"clear", "bind", "listen"} \cup Stopping => NoneServes
    /\ \A d \in Daemons : /\ pc[d] = "bind" => file = None
                          /\ pc[d] \in {"listen", "serving"} => file = d

\* A daemon that started while nobody listened still has the path to itself.
AloneStill ==
    \A d \in alone : /\ pc[d] \in {"stat", "probe"} => NoneListens
                     /\ pc[d] # "refused"

UndisturbedInv == ~disturbed => OneBusy /\ PathTaken /\ AloneStill
PathInv == DaemonsOK /\ (\A d \in alone : pc[d] # "off") /\ UndisturbedInv

LEMMA InitPathInv == Init => PathInv
BY DEF Init, PathInv, DaemonsOK, UndisturbedInv, OneBusy, PathTaken, AloneStill, Label,
       Busy, Starting, Stopping

\* What a step to a label leaves behind when nobody is disturbed by it.
LEMMA GotoQuiet ==
    ASSUME DaemonsOK, NEW d \in Daemons, NEW label \in Label, Goto(d, label), ~disturbed'
    PROVE  /\ ~disturbed /\ pc'[d] = label
           /\ \A e \in Daemons \ {d} : pc'[e] = pc[e]
           /\ label \in Busy => \A e \in Daemons \ {d} : pc[e] \notin Busy
BY DEF Goto, DaemonsOK

\* What a step starts from when nobody is disturbed by it.
LEMMA QuietStep ==
    ASSUME PathInv, NEW d \in Daemons, NEW label \in Label \ {"failing", "deaf"},
           Goto(d, label), ~disturbed'
    PROVE  OneBusy /\ PathTaken /\ AloneStill /\ OneBusy'
BY GotoQuiet DEF PathInv, UndisturbedInv, OneBusy

\* A step of one daemon keeps the invariant, one action at a time.
LEMMA DaemonPathInv ==
    ASSUME SocketAssumption, PathInv, NEW d \in Daemons,
           \/ Start(d) \/ Stat(d) \/ Probe(d) \/ ClearPath(d) \/ Bind(d) \/ Listen(d)
           \/ StartFails(d) \/ Wire(d) \/ AcceptFails(d)
           \/ Stop(d) \/ Unlink(d) \/ CloseListener(d) \/ Cleanup(d) \/ Crash(d)
    PROVE  PathInv'
<1> USE DEF Label, Busy, Starting, Stopping
<1>1. CASE Start(d)
  <2>1. DaemonsOK' /\ \A e \in alone' : pc'[e] # "off"
    BY <1>1, GotoType DEF Start, PathInv, DaemonsOK, Goto, Alive
  <2>2. ASSUME ~disturbed' PROVE OneBusy' /\ PathTaken' /\ AloneStill'
    <3> DEFINE label == "stat"
    <3>1. Goto(d, label) /\ label \in Label \ {"failing", "deaf"}
      BY <1>1, <2>2 DEF Start
    <3>2. /\ OneBusy /\ PathTaken /\ AloneStill /\ OneBusy'
          /\ pc'[d] = label /\ \A e \in Daemons \ {d} : pc'[e] = pc[e]
          /\ label \in Busy => \A e \in Daemons \ {d} : pc[e] \notin Busy
      BY <2>2, <3>1, QuietStep, GotoQuiet DEF PathInv
    <3>3. PathTaken'
      BY <1>1, <3>2 DEF Start, PathTaken, NoneServes, OneBusy, PathInv, DaemonsOK
    <3>4. AloneStill'
      BY <1>1, <3>2 DEF Start, AloneStill, NoneListens, OneBusy, Open, PathInv, DaemonsOK
    <3> QED
      BY <3>2, <3>3, <3>4
  <2> QED
    BY <2>1, <2>2 DEF PathInv, UndisturbedInv
<1>2. CASE Stat(d)
  <2>1. DaemonsOK' /\ \A e \in alone' : pc'[e] # "off"
    BY <1>2, GotoType DEF Stat, PathInv, DaemonsOK, Goto, Alive
  <2>2. ASSUME ~disturbed' PROVE OneBusy' /\ PathTaken' /\ AloneStill'
    <3> DEFINE label == IF file = None THEN "bind" ELSE "probe"
    <3>1. Goto(d, label) /\ label \in Label \ {"failing", "deaf"}
      BY <1>2, <2>2 DEF Stat
    <3>2. /\ OneBusy /\ PathTaken /\ AloneStill /\ OneBusy'
          /\ pc'[d] = label /\ \A e \in Daemons \ {d} : pc'[e] = pc[e]
          /\ label \in Busy => \A e \in Daemons \ {d} : pc[e] \notin Busy
      BY <2>2, <3>1, QuietStep, GotoQuiet DEF PathInv
    <3>3. PathTaken'
      BY <1>2, <3>2 DEF Stat, PathTaken, NoneServes, SocketAssumption, PathInv, DaemonsOK
    <3>4. AloneStill'
      BY <1>2, <3>2 DEF Stat, AloneStill, NoneListens, OneBusy, Open, PathInv, DaemonsOK
    <3> QED
      BY <3>2, <3>3, <3>4
  <2> QED
    BY <2>1, <2>2 DEF PathInv, UndisturbedInv
<1>3. CASE Probe(d)
  <2>1. DaemonsOK' /\ \A e \in alone' : pc'[e] # "off"
    BY <1>3, GotoType DEF Probe, Probed, PathInv, DaemonsOK, Goto
  <2>2. ASSUME ~disturbed' PROVE OneBusy' /\ PathTaken' /\ AloneStill'
    <3> DEFINE label == Probed
    <3>1. Goto(d, label) /\ label \in Label \ {"failing", "deaf"}
      BY <1>3, <2>2 DEF Probe, Probed
    <3>2. /\ OneBusy /\ PathTaken /\ AloneStill /\ OneBusy'
          /\ pc'[d] = label /\ \A e \in Daemons \ {d} : pc'[e] = pc[e]
          /\ label \in Busy => \A e \in Daemons \ {d} : pc[e] \notin Busy
      BY <2>2, <3>1, QuietStep, GotoQuiet DEF PathInv
    <3>3. PathTaken'
      BY <1>3, <3>2 DEF Probe, PathTaken, NoneServes, OneBusy, PathInv, DaemonsOK, Probed, Connectable, Open, SocketAssumption
    <3>4. AloneStill'
      BY <1>3, <3>2 DEF Probe, AloneStill, NoneListens, OneBusy, Open, PathInv, DaemonsOK, Probed, Connectable
    <3> QED
      BY <3>2, <3>3, <3>4
  <2> QED
    BY <2>1, <2>2 DEF PathInv, UndisturbedInv
<1>4. CASE ClearPath(d)
  <2>1. DaemonsOK' /\ \A e \in alone' : pc'[e] # "off"
    BY <1>4, GotoType DEF ClearPath, PathInv, DaemonsOK, Goto, Alive
  <2>2. ASSUME ~disturbed' PROVE OneBusy' /\ PathTaken' /\ AloneStill'
    <3> DEFINE label == "bind"
    <3>1. Goto(d, label) /\ label \in Label \ {"failing", "deaf"}
      BY <1>4, <2>2 DEF ClearPath
    <3>2. /\ OneBusy /\ PathTaken /\ AloneStill /\ OneBusy'
          /\ pc'[d] = label /\ \A e \in Daemons \ {d} : pc'[e] = pc[e]
          /\ label \in Busy => \A e \in Daemons \ {d} : pc[e] \notin Busy
      BY <2>2, <3>1, QuietStep, GotoQuiet DEF PathInv
    <3>3. PathTaken'
      BY <1>4, <3>2 DEF ClearPath, PathTaken, NoneServes, OneBusy, PathInv, DaemonsOK
    <3>4. AloneStill'
      BY <1>4, <3>2 DEF ClearPath, AloneStill, NoneListens, OneBusy, Open, PathInv, DaemonsOK
    <3> QED
      BY <3>2, <3>3, <3>4
  <2> QED
    BY <2>1, <2>2 DEF PathInv, UndisturbedInv
<1>5. CASE Bind(d)
  <2>1. DaemonsOK' /\ \A e \in alone' : pc'[e] # "off"
    BY <1>5, GotoType DEF Bind, PathInv, DaemonsOK, Goto, Alive
  <2>2. ASSUME ~disturbed' PROVE OneBusy' /\ PathTaken' /\ AloneStill'
    <3> DEFINE label == IF file = None THEN "listen" ELSE "refused"
    <3>1. Goto(d, label) /\ label \in Label \ {"failing", "deaf"}
      BY <1>5, <2>2 DEF Bind
    <3>2. /\ OneBusy /\ PathTaken /\ AloneStill /\ OneBusy'
          /\ pc'[d] = label /\ \A e \in Daemons \ {d} : pc'[e] = pc[e]
          /\ label \in Busy => \A e \in Daemons \ {d} : pc[e] \notin Busy
      BY <2>2, <3>1, QuietStep, GotoQuiet DEF PathInv
    <3>3. PathTaken'
      BY <1>5, <3>2 DEF Bind, PathTaken, NoneServes, OneBusy, PathInv, DaemonsOK
    <3>4. AloneStill'
      BY <1>5, <3>2 DEF Bind, AloneStill, NoneListens, OneBusy, Open, PathInv, DaemonsOK, PathTaken
    <3> QED
      BY <3>2, <3>3, <3>4
  <2> QED
    BY <2>1, <2>2 DEF PathInv, UndisturbedInv
<1>6. CASE Listen(d)
  <2>1. DaemonsOK' /\ \A e \in alone' : pc'[e] # "off"
    BY <1>6, GotoType DEF Listen, PathInv, DaemonsOK, Goto, Alive
  <2>2. ASSUME ~disturbed' PROVE OneBusy' /\ PathTaken' /\ AloneStill'
    <3> DEFINE label == "serving"
    <3>1. Goto(d, label) /\ label \in Label \ {"failing", "deaf"}
      BY <1>6, <2>2 DEF Listen
    <3>2. /\ OneBusy /\ PathTaken /\ AloneStill /\ OneBusy'
          /\ pc'[d] = label /\ \A e \in Daemons \ {d} : pc'[e] = pc[e]
          /\ label \in Busy => \A e \in Daemons \ {d} : pc[e] \notin Busy
      BY <2>2, <3>1, QuietStep, GotoQuiet DEF PathInv
    <3>3. PathTaken'
      BY <1>6, <3>2 DEF Listen, PathTaken, NoneServes, OneBusy, PathInv, DaemonsOK
    <3>4. AloneStill'
      BY <1>6, <3>2 DEF Listen, AloneStill, NoneListens, OneBusy, Open, PathInv, DaemonsOK
    <3> QED
      BY <3>2, <3>3, <3>4
  <2> QED
    BY <2>1, <2>2 DEF PathInv, UndisturbedInv
<1>7. CASE StartFails(d)
  <2>1. DaemonsOK' /\ \A e \in alone' : pc'[e] # "off"
    BY <1>7, GotoType DEF StartFails, PathInv, DaemonsOK, Goto, Alive
  <2>2. ASSUME ~disturbed' PROVE OneBusy' /\ PathTaken' /\ AloneStill'
    <3> DEFINE label == "gone"
    <3>1. Goto(d, label) /\ label \in Label \ {"failing", "deaf"}
      BY <1>7, <2>2 DEF StartFails
    <3>2. /\ OneBusy /\ PathTaken /\ AloneStill /\ OneBusy'
          /\ pc'[d] = label /\ \A e \in Daemons \ {d} : pc'[e] = pc[e]
          /\ label \in Busy => \A e \in Daemons \ {d} : pc[e] \notin Busy
      BY <2>2, <3>1, QuietStep, GotoQuiet DEF PathInv
    <3>3. PathTaken'
      BY <1>7, <3>2 DEF StartFails, PathTaken, NoneServes, OneBusy, PathInv, DaemonsOK
    <3>4. AloneStill'
      BY <1>7, <3>2 DEF StartFails, AloneStill, NoneListens, OneBusy, Open, PathInv, DaemonsOK
    <3> QED
      BY <3>2, <3>3, <3>4
  <2> QED
    BY <2>1, <2>2 DEF PathInv, UndisturbedInv
<1>8. CASE Stop(d)
  <2>1. DaemonsOK' /\ \A e \in alone' : pc'[e] # "off"
    BY <1>8, GotoType DEF Stop, PathInv, DaemonsOK, Goto, Alive
  <2>2. ASSUME ~disturbed' PROVE OneBusy' /\ PathTaken' /\ AloneStill'
    <3> DEFINE label == "unlink"
    <3>1. Goto(d, label) /\ label \in Label \ {"failing", "deaf"}
      BY <1>8, <2>2 DEF Stop
    <3>2. /\ OneBusy /\ PathTaken /\ AloneStill /\ OneBusy'
          /\ pc'[d] = label /\ \A e \in Daemons \ {d} : pc'[e] = pc[e]
          /\ label \in Busy => \A e \in Daemons \ {d} : pc[e] \notin Busy
      BY <2>2, <3>1, QuietStep, GotoQuiet DEF PathInv
    <3>3. PathTaken'
      BY <1>8, <3>2 DEF Stop, PathTaken, NoneServes, OneBusy, PathInv, DaemonsOK
    <3>4. AloneStill'
      BY <1>8, <3>2 DEF Stop, AloneStill, NoneListens, OneBusy, Open, PathInv, DaemonsOK
    <3> QED
      BY <3>2, <3>3, <3>4
  <2> QED
    BY <2>1, <2>2 DEF PathInv, UndisturbedInv
<1>9. CASE Unlink(d)
  <2>1. DaemonsOK' /\ \A e \in alone' : pc'[e] # "off"
    BY <1>9, GotoType DEF Unlink, PathInv, DaemonsOK, Goto, Alive
  <2>2. ASSUME ~disturbed' PROVE OneBusy' /\ PathTaken' /\ AloneStill'
    <3> DEFINE label == "close"
    <3>1. Goto(d, label) /\ label \in Label \ {"failing", "deaf"}
      BY <1>9, <2>2 DEF Unlink
    <3>2. /\ OneBusy /\ PathTaken /\ AloneStill /\ OneBusy'
          /\ pc'[d] = label /\ \A e \in Daemons \ {d} : pc'[e] = pc[e]
          /\ label \in Busy => \A e \in Daemons \ {d} : pc[e] \notin Busy
      BY <2>2, <3>1, QuietStep, GotoQuiet DEF PathInv
    <3>3. PathTaken'
      BY <1>9, <3>2 DEF Unlink, PathTaken, NoneServes, OneBusy, PathInv, DaemonsOK
    <3>4. AloneStill'
      BY <1>9, <3>2 DEF Unlink, AloneStill, NoneListens, OneBusy, Open, PathInv, DaemonsOK
    <3> QED
      BY <3>2, <3>3, <3>4
  <2> QED
    BY <2>1, <2>2 DEF PathInv, UndisturbedInv
<1>10. CASE CloseListener(d)
  <2>1. DaemonsOK' /\ \A e \in alone' : pc'[e] # "off"
    BY <1>10, GotoType DEF CloseListener, PathInv, DaemonsOK, Goto, Alive
  <2>2. ASSUME ~disturbed' PROVE OneBusy' /\ PathTaken' /\ AloneStill'
    <3> DEFINE label == IF d \in cleaned THEN "gone" ELSE "cleanup"
    <3>1. Goto(d, label) /\ label \in Label \ {"failing", "deaf"}
      BY <1>10, <2>2 DEF CloseListener
    <3>2. /\ OneBusy /\ PathTaken /\ AloneStill /\ OneBusy'
          /\ pc'[d] = label /\ \A e \in Daemons \ {d} : pc'[e] = pc[e]
          /\ label \in Busy => \A e \in Daemons \ {d} : pc[e] \notin Busy
      BY <2>2, <3>1, QuietStep, GotoQuiet DEF PathInv
    <3>3. PathTaken'
      BY <1>10, <3>2 DEF CloseListener, PathTaken, NoneServes, OneBusy, PathInv, DaemonsOK
    <3>4. AloneStill'
      BY <1>10, <3>2 DEF CloseListener, AloneStill, NoneListens, OneBusy, Open, PathInv, DaemonsOK
    <3> QED
      BY <3>2, <3>3, <3>4
  <2> QED
    BY <2>1, <2>2 DEF PathInv, UndisturbedInv
<1>11. CASE Cleanup(d)
  <2>1. DaemonsOK' /\ \A e \in alone' : pc'[e] # "off"
    BY <1>11, GotoType DEF Cleanup, PathInv, DaemonsOK, Goto, Alive
  <2>2. ASSUME ~disturbed' PROVE OneBusy' /\ PathTaken' /\ AloneStill'
    <3> DEFINE label == "gone"
    <3>1. Goto(d, label) /\ label \in Label \ {"failing", "deaf"}
      BY <1>11, <2>2, GotoQuiet DEF Cleanup, Goto, OneBusy, PathInv, UndisturbedInv
    <3>2. /\ OneBusy /\ PathTaken /\ AloneStill /\ OneBusy'
          /\ pc'[d] = label /\ \A e \in Daemons \ {d} : pc'[e] = pc[e]
          /\ label \in Busy => \A e \in Daemons \ {d} : pc[e] \notin Busy
      BY <2>2, <3>1, QuietStep, GotoQuiet DEF PathInv
    <3>3. PathTaken'
      BY <1>11, <3>2 DEF Cleanup, PathTaken, NoneServes, OneBusy, PathInv, DaemonsOK
    <3>4. AloneStill'
      BY <1>11, <3>2 DEF Cleanup, AloneStill, NoneListens, OneBusy, Open, PathInv, DaemonsOK
    <3> QED
      BY <3>2, <3>3, <3>4
  <2> QED
    BY <2>1, <2>2 DEF PathInv, UndisturbedInv
<1>12. CASE Crash(d)
  <2>1. DaemonsOK' /\ \A e \in alone' : pc'[e] # "off"
    BY <1>12, GotoType DEF Crash, PathInv, DaemonsOK, Goto, Alive
  <2>2. ASSUME ~disturbed' PROVE OneBusy' /\ PathTaken' /\ AloneStill'
    <3> DEFINE label == "gone"
    <3>1. Goto(d, label) /\ label \in Label \ {"failing", "deaf"}
      BY <1>12, <2>2 DEF Crash
    <3>2. /\ OneBusy /\ PathTaken /\ AloneStill /\ OneBusy'
          /\ pc'[d] = label /\ \A e \in Daemons \ {d} : pc'[e] = pc[e]
          /\ label \in Busy => \A e \in Daemons \ {d} : pc[e] \notin Busy
      BY <2>2, <3>1, QuietStep, GotoQuiet DEF PathInv
    <3>3. PathTaken'
      BY <1>12, <3>2 DEF Crash, PathTaken, NoneServes, OneBusy, PathInv, DaemonsOK
    <3>4. AloneStill'
      BY <1>12, <3>2 DEF Crash, AloneStill, NoneListens, OneBusy, Open, PathInv, DaemonsOK
    <3> QED
      BY <3>2, <3>3, <3>4
  <2> QED
    BY <2>1, <2>2 DEF PathInv, UndisturbedInv
<1>13. CASE Wire(d)
  BY <1>13 DEF Wire, PathInv, DaemonsOK, UndisturbedInv, OneBusy, PathTaken, AloneStill,
       NoneServes, NoneListens, Open
<1>14. CASE AcceptFails(d)
  BY <1>14 DEF AcceptFails, PathInv, DaemonsOK, UndisturbedInv
<1> QED
  BY <1>1, <1>2, <1>3, <1>4, <1>5, <1>6, <1>7, <1>8, <1>9, <1>10, <1>11, <1>12, <1>13, <1>14

\* Commands do not touch the path.
LEMMA NextPathInv ==
    ASSUME SocketAssumption, PathInv, [Next]_vars
    PROVE  PathInv'
<1>1. CASE UNCHANGED daemonVars
  BY <1>1 DEF daemonVars, PathInv, DaemonsOK, UndisturbedInv, OneBusy, PathTaken, AloneStill,
       NoneServes, NoneListens, Open
<1>2. ASSUME NEW c \in Clients, NEW k \in Commands, Dial(c, k) PROVE UNCHANGED daemonVars
  BY <1>2 DEF Dial
<1>3. ASSUME Serve PROVE UNCHANGED daemonVars
  BY <1>3 DEF Serve, Accept, Send, Handle
<1>4. CASE UNCHANGED vars
  BY <1>1, <1>4 DEF vars
<1> QED
  BY <1>1, <1>2, <1>3, <1>4, DaemonPathInv DEF Next

\* The daemons' steps reset connections or leave them alone.
LEMMA NextClientsOK ==
    ASSUME TypeOK, Asked, [Next]_vars
    PROVE  ClientsOK' /\ Asked'
<1> USE TypeParts
<1>1. CASE UNCHANGED clientVars
  BY <1>1 DEF clientVars, ClientsOK, Asked
<1>2. ASSUME NEW d \in Daemons,
             \/ Start(d) \/ Stat(d) \/ Probe(d) \/ ClearPath(d) \/ Bind(d) \/ Listen(d)
             \/ StartFails(d) \/ Wire(d) \/ AcceptFails(d) \/ Stop(d) \/ Unlink(d)
      PROVE  UNCHANGED clientVars
  BY <1>2 DEF Start, Stat, Probe, ClearPath, Bind, Listen, StartFails, Wire, AcceptFails,
       Stop, Unlink
<1>3. ASSUME NEW d \in Daemons, CloseListener(d) \/ Cleanup(d) \/ Crash(d)
      PROVE  ClientsOK' /\ Asked'
  BY <1>3, CutType DEF CloseListener, Cleanup, Crash
<1>4. ASSUME NEW c \in Clients, NEW k \in Commands, Dial(c, k) PROVE ClientsOK' /\ Asked'
  BY <1>4 DEF Dial, Goes, ClientsOK, Asked, DaemonsOK, Stages, Connectable
<1>5. ASSUME NEW c \in Clients, Accept(c) \/ Send(c) \/ Handle(c) PROVE ClientsOK' /\ Asked'
  <2>1. CASE Accept(c)
    BY <2>1 DEF Accept, ClientsOK, Asked
  <2>2. CASE Send(c)
    BY <2>2 DEF Send, Goes, ClientsOK, Asked, Stages
  <2>3. CASE Handle(c)
    <3>1. kind[c] \in Commands
      BY <2>3 DEF Handle, Asked
    <3>2. \E s \in {"taken", "closed"}, r \in {"none", "ok", "failed"} : Goes(c, s, r)
      <4>1. CASE kind[c] = "blank"
        BY <2>3, <4>1 DEF Handle, DecodeFails
      <4>2. CASE kind[c] \in {"inspect", "hook"}
        BY <2>3, <4>2 DEF Handle
      <4>3. CASE kind[c] = "focus" /\ conn[c] \notin wired
        BY <2>3, <4>3 DEF Handle
      <4>4. CASE kind[c] = "focus" /\ conn[c] \in wired
        BY <2>3, <4>4 DEF Handle
      <4> QED
        BY <3>1, <4>1, <4>2, <4>3, <4>4 DEF Commands
    <3> QED
      BY <2>3, <3>2 DEF Handle, Goes, ClientsOK, Asked, Stages
  <2> QED
    BY <1>5, <2>1, <2>2, <2>3
<1>6. CASE UNCHANGED vars
  BY <1>1, <1>6 DEF vars
<1> QED
  BY <1>1, <1>2, <1>3, <1>4, <1>5, <1>6 DEF Next, Serve

-----------------------------------------------------------------------------
(* The theorems.                                                           *)

\* Whatever daemons and commands there are, labels, files and connections keep
\* their ranges.
THEOREM SocketTypeCorrect == SocketAssumption => (Spec => []TypeOK)
<1> SUFFICES ASSUME SocketAssumption PROVE Spec => []TypeOK
  OBVIOUS
<1>1. Init => TypeOK /\ Asked /\ PathInv
  BY InitPathInv DEF Init, TypeOK, Asked, Stages, Commands, Starting, Stopping
<1>2. TypeOK /\ Asked /\ PathInv /\ [Next]_vars => ClientsOK' /\ Asked' /\ PathInv'
  BY NextPathInv, NextClientsOK
<1>3. ClientsOK' /\ PathInv' => TypeOK'
  BY DEF PathInv, TypeOK, DaemonsOK, ClientsOK, Label
<1> QED
  BY <1>1, <1>2, <1>3, PTL DEF Spec

\* The invariant that the two properties of the path follow from.
LEMMA PathCorrect == SocketAssumption => (Spec => []PathInv)
<1> SUFFICES ASSUME SocketAssumption PROVE Spec => []PathInv
  OBVIOUS
<1>1. PathInv /\ [Next]_vars => PathInv'
  BY NextPathInv
<1> QED
  BY <1>1, InitPathInv, PTL DEF Spec

\* As long as no daemon starts or stops while another does, a daemon that serves is
\* the only one and has the socket file (prepareSocketPath, Start, Stop).
THEOREM ServerReachable == SocketAssumption => (Spec => []OneDaemonReachable)
<1> SUFFICES ASSUME SocketAssumption PROVE Spec => []OneDaemonReachable
  OBVIOUS
<1>1. PathInv => OneDaemonReachable
  BY DEF PathInv, UndisturbedInv, PathTaken, OneDaemonReachable
<1> QED
  BY <1>1, PathCorrect, PTL

\* The file of a crashed daemon never turns away one that starts while nobody
\* listens and meets no other (prepareSocketPath).
THEOREM StaleFileCleared == SocketAssumption => (Spec => []StaleFileNoObstacle)
<1> SUFFICES ASSUME SocketAssumption PROVE Spec => []StaleFileNoObstacle
  OBVIOUS
<1>1. PathInv => StaleFileNoObstacle
  BY DEF PathInv, UndisturbedInv, AloneStill, StaleFileNoObstacle
<1> QED
  BY <1>1, PathCorrect, PTL

-----------------------------------------------------------------------------
(* StyleWatch: type correctness.                                           *)

EventKinds ==
    {<<"dir", "made">>, <<"dir", "gone">>, <<"entry", "style">>, <<"entry", "user">>,
     <<"target", "style">>, <<"target", "user">>}

TypeInv ==
    /\ StyleTypeOK
    /\ events \in Seq(EventKinds) /\ half \in 0..MaxChanges
    /\ watchConfig \in BOOLEAN /\ watchOther \in BOOLEAN /\ listedDir \in BOOLEAN
    /\ watchPaths \subseteq Files /\ early \in BOOLEAN /\ unread \in BOOLEAN

-----------------------------------------------------------------------------
(* Why no change is missed.                                                *)

Pending(e) == \E i \in 1..Len(events) : events[i] = e

\* An event is waiting that will make the loop renew its watches and reload.
Renewal == \E e \in EventKinds : e[1] # "target" /\ Pending(e)

\* Something is waiting that will end in a reload: an event or the timer.
Reloads ==
    \/ timer \in {"running", "ticked"} \/ Renewal
    \/ \E f \in watchPaths : Pending(<<"target", f>>)

\* Before the watches are set up nothing is reported, and nothing has changed.
Unwatched ==
    /\ watcher \in {"load", "add"} => ~watchConfig /\ watchDir = 0 /\ ~watchOther /\ events = <<>>
    /\ watcher \in {"add", "ensure"} => early \/ unread \/ last = content
    /\ watcher = "ensure" => watchConfig /\ (early \/ watchPaths = linked)
    /\ watcher \in {"load", "add", "ensure"} => timer = "none"

\* Once they are, whatever they do not cover has an event of its own waiting.
DirCovered ==
    /\ dir # 0 /\ watchDir # dir =>
          IF listedDir THEN Pending(<<"dir", "gone">>) ELSE Renewal
    /\ listedDir /\ dir = 0 => Pending(<<"dir", "gone">>)
LinksCovered ==
    /\ linked # watchPaths => Renewal
    /\ linked # {} /\ ~watchOther => Renewal

\* And what the panel does not wear yet will be reloaded.
Caught ==
    /\ watcher = "loop" => unread \/ last = content \/ Reloads
    /\ watcher = "reading" => half = content["style"] \/ Reloads

Covered ==
    watcher \in {"loop", "reading"} /\ ~early =>
        watchConfig /\ DirCovered /\ LinksCovered /\ Caught

\* Files are in the directory, and a link is a file.
OnDisk ==
    \A f \in Files : (f \in linked => content[f] # 0) /\ (content[f] # 0 => dir # 0)

Inv == TypeInv /\ Unwatched /\ OnDisk /\ Covered

-----------------------------------------------------------------------------
(* The queue.                                                              *)

\* A report leaves the event in the queue, and every event that was there.
LEMMA ReportsStay ==
    ASSUME events \in Seq(EventKinds), NEW how, NEW what, <<how, what>> \in EventKinds,
           Reports(how, what)
    PROVE  /\ events' \in Seq(EventKinds)
           /\ Pending(<<how, what>>)'
           /\ \A e \in EventKinds : Pending(e) => Pending(e)'
<1> DEFINE new == <<how, what>>
<1>1. Len(events) \in Nat
  OBVIOUS
<1>2. CASE events # <<>> /\ Last(events) = new
  <2>1. events' = events /\ events[Len(events)] = new /\ Len(events) \in 1..Len(events)
    BY <1>1, <1>2 DEF Reports, Last
  <2> QED
    BY <2>1 DEF Pending
<1>3. CASE ~(events # <<>> /\ Last(events) = new)
  <2>1. events' = Append(events, new)
    BY <1>3 DEF Reports
  <2> HIDE DEF new
  <2>2. /\ events' \in Seq(EventKinds) /\ Len(events') = Len(events) + 1
        /\ events'[Len(events) + 1] = new
        /\ \A i \in 1..Len(events) : events'[i] = events[i]
    BY <2>1 DEF new
  <2>3. 1..Len(events) \subseteq 1..Len(events') /\ Len(events) + 1 \in 1..Len(events')
    BY <1>1, <2>2
  <2>4. Pending(new)'
    BY <2>2, <2>3 DEF Pending, new
  <2>5. \A e \in EventKinds : Pending(e) => Pending(e)'
    BY <2>2, <2>3 DEF Pending
  <2> QED
    BY <2>2, <2>4, <2>5 DEF new
<1> QED
  BY <1>2, <1>3

\* Reading the first event leaves the others.
LEMMA ReadingStays ==
    ASSUME events \in Seq(EventKinds), events # <<>>, events' = Tail(events)
    PROVE  /\ Head(events) \in EventKinds /\ events' \in Seq(EventKinds)
           /\ \A e \in EventKinds : Pending(e) /\ e # Head(events) => Pending(e)'
<1>1. /\ Len(events) \in Nat /\ Len(events) >= 1 /\ Head(events) = events[1]
      /\ Head(events) \in EventKinds /\ events' \in Seq(EventKinds)
      /\ Len(events') = Len(events) - 1
      /\ \A i \in 1..Len(events') : events'[i] = events[i + 1]
  OBVIOUS
<1>2. ASSUME NEW e \in EventKinds, Pending(e), e # Head(events) PROVE Pending(e)'
  <2>1. PICK i \in 1..Len(events) : events[i] = e
    BY <1>2 DEF Pending
  <2>2. i - 1 \in 1..Len(events') /\ events'[i - 1] = e
    BY <1>1, <1>2, <2>1
  <2> QED
    BY <2>2 DEF Pending
<1> QED
  BY <1>1, <1>2

\* While no event goes away, what was due stays due.
Kept == \A e \in EventKinds : Pending(e) => Pending(e)'

LEMMA KeptDue ==
    ASSUME Kept
    PROVE  /\ Renewal => Renewal'
           /\ watchPaths \subseteq Files /\ UNCHANGED <<timer, watchPaths>> /\ Reloads => Reloads'
<1>1. Renewal => Renewal'
  BY DEF Kept, Renewal
<1>2. \A f \in Files : <<"target", f>> \in EventKinds
  BY DEF Files, EventKinds
<1>3. ASSUME watchPaths \subseteq Files, UNCHANGED <<timer, watchPaths>>, Reloads
      PROVE  Reloads'
  <2>1. CASE \E f \in watchPaths : Pending(<<"target", f>>)
    <3>1. PICK f \in watchPaths : Pending(<<"target", f>>)
      BY <2>1
    <3>2. Pending(<<"target", f>>)'
      BY <1>2, <1>3, <3>1 DEF Kept
    <3> QED
      BY <1>3, <3>2 DEF Reloads
  <2>2. CASE timer \in {"running", "ticked"} \/ Renewal
    BY <1>1, <1>3, <2>2 DEF Reloads
  <2> QED
    BY <1>3, <2>1, <2>2 DEF Reloads
<1> QED
  BY <1>1, <1>3

\* An event of the directory or of a file in it renews the watches.
LEMMA RenewalEvents ==
    /\ <<"dir", "made">> \in EventKinds /\ <<"dir", "gone">> \in EventKinds
    /\ \A f \in Files : <<"entry", f>> \in EventKinds /\ <<"target", f>> \in EventKinds
    /\ Pending(<<"dir", "made">>) \/ Pending(<<"dir", "gone">>) => Renewal
    /\ \A f \in Files : Pending(<<"entry", f>>) => Renewal
<1>1. /\ <<"dir", "made">> \in EventKinds /\ <<"dir", "gone">> \in EventKinds
      /\ \A f \in Files : <<"entry", f>> \in EventKinds /\ <<"target", f>> \in EventKinds
  BY DEF EventKinds, Files
<1>2. \A x : <<"dir", x>>[1] # "target" /\ <<"entry", x>>[1] # "target"
  OBVIOUS
<1> QED
  BY <1>1, <1>2 DEF Renewal

-----------------------------------------------------------------------------
(* What the user does.                                                     *)

\* It is enough that no event is lost and that what changes is covered.
LEMMA UserKeeps ==
    ASSUME StyleAssumption, Inv, Changes, Kept, events' \in Seq(EventKinds), OnDisk',
           dir' \in 0..MaxChanges, content' \in [Files -> 0..MaxChanges],
           linked' \subseteq Files, watchDir' \in 0..MaxChanges,
           watcher \in {"load", "add"} => watchDir' = 0 /\ events' = <<>>,
           watcher \in {"loop", "reading"} /\ ~early =>
               DirCovered' /\ LinksCovered' /\ (content' = content \/ Reloads')
    PROVE  Inv'
<1>1. /\ UNCHANGED <<watcher, watchConfig, watchOther, listedDir, watchPaths>>
      /\ UNCHANGED <<timer, last, half, unread>>
      /\ changes' = changes + 1 /\ changes < MaxChanges
      /\ early' = (early \/ watcher \in {"add", "ensure"})
  BY DEF Changes
<1>2. changes' \in 1..MaxChanges
  BY <1>1 DEF StyleAssumption, Inv, TypeInv, StyleTypeOK
<1>3. TypeInv'
  BY <1>1, <1>2 DEF Inv, TypeInv, StyleTypeOK
<1>4. Unwatched'
  BY <1>1 DEF Inv, Unwatched, TypeInv, StyleTypeOK
<1>5. ASSUME watcher' \in {"loop", "reading"}, ~early'
      PROVE  watchConfig' /\ DirCovered' /\ LinksCovered' /\ Caught'
  <2>1. watcher \in {"loop", "reading"} /\ ~early
    BY <1>1, <1>5
  <2>2. watchConfig /\ Caught
    BY <2>1 DEF Inv, Covered
  <2>3. Reloads => Reloads'
    BY <1>1, KeptDue DEF Inv, TypeInv
  <2>4. Caught'
    BY <1>1, <2>1, <2>2, <2>3 DEF Caught
  <2> QED
    BY <1>1, <2>1, <2>2, <2>4
<1> QED
  BY <1>3, <1>4, <1>5 DEF Inv, Covered

LEMMA MakeDirInv ==
    ASSUME StyleAssumption, Inv, MakeDir
    PROVE  Inv'
<1>1. /\ dir = 0 /\ Changes /\ dir' = changes + 1 /\ changes < MaxChanges
      /\ UNCHANGED <<content, linked, watchDir, watchPaths, watchOther, listedDir>>
      /\ IF watchConfig THEN Reports("dir", "made") ELSE UNCHANGED events
  BY DEF MakeDir, Changes
<1>2. /\ Kept /\ events' \in Seq(EventKinds)
      /\ watchConfig => Pending(<<"dir", "made">>)'
  <2>1. CASE watchConfig
    <3>1. events \in Seq(EventKinds) /\ <<"dir", "made">> \in EventKinds
      BY RenewalEvents DEF Inv, TypeInv
    <3>2. Reports("dir", "made")
      BY <1>1, <2>1
    <3> QED
      BY <3>1, <3>2, ReportsStay DEF Kept
  <2>2. CASE ~watchConfig
    BY <1>1, <2>2 DEF Kept, Pending, Inv, TypeInv
  <2> QED
    BY <2>1, <2>2
<1>3. dir' \in 1..MaxChanges
  BY <1>1 DEF StyleAssumption, Inv, TypeInv, StyleTypeOK
<1>4. OnDisk'
  BY <1>1, <1>3 DEF Inv, OnDisk
<1>5. watcher \in {"load", "add"} => watchDir' = 0 /\ events' = <<>>
  BY <1>1 DEF Inv, Unwatched
<1>6. ASSUME watcher \in {"loop", "reading"}, ~early PROVE DirCovered' /\ LinksCovered'
  <2>1. watchConfig /\ DirCovered /\ LinksCovered
    BY <1>6 DEF Inv, Covered
  <2>2. Renewal'
    BY <1>2, <2>1, RenewalEvents DEF Renewal
  <2>3. listedDir => Pending(<<"dir", "gone">>)'
    BY <1>1, <1>2, <2>1, RenewalEvents DEF DirCovered, Kept
  <2>4. DirCovered'
    BY <1>1, <1>3, <2>2, <2>3 DEF DirCovered
  <2>5. LinksCovered'
    BY <2>2 DEF LinksCovered
  <2> QED
    BY <2>4, <2>5
<1> QED
  BY <1>1, <1>2, <1>3, <1>4, <1>5, <1>6, UserKeeps DEF Inv, TypeInv, StyleTypeOK

LEMMA RemoveDirInv ==
    ASSUME StyleAssumption, Inv, RemoveDir
    PROVE  Inv'
<1>1. /\ dir # 0 /\ \A f \in Files : content[f] = 0
      /\ Changes /\ dir' = 0 /\ watchDir' = 0
      /\ UNCHANGED <<content, linked, watchPaths, watchOther, listedDir>>
      /\ IF Watched \/ watchConfig THEN Reports("dir", "gone") ELSE UNCHANGED events
  BY DEF RemoveDir, Changes
<1>2. /\ Kept /\ events' \in Seq(EventKinds)
      /\ watchConfig => Pending(<<"dir", "gone">>)'
  <2>1. CASE Watched \/ watchConfig
    <3>1. events \in Seq(EventKinds) /\ <<"dir", "gone">> \in EventKinds
      BY RenewalEvents DEF Inv, TypeInv
    <3>2. Reports("dir", "gone")
      BY <1>1, <2>1
    <3> QED
      BY <3>1, <3>2, ReportsStay DEF Kept
  <2>2. CASE ~(Watched \/ watchConfig)
    BY <1>1, <2>2 DEF Kept, Pending, Inv, TypeInv
  <2> QED
    BY <2>1, <2>2
<1>3. OnDisk'
  BY <1>1 DEF Inv, OnDisk
<1>4. watcher \in {"load", "add"} => watchDir' = 0 /\ events' = <<>>
  BY <1>1 DEF Inv, Unwatched, Watched
<1>5. ASSUME watcher \in {"loop", "reading"}, ~early PROVE DirCovered' /\ LinksCovered'
  <2>1. watchConfig
    BY <1>5 DEF Inv, Covered
  <2>2. Renewal'
    BY <1>2, <2>1, RenewalEvents DEF Renewal
  <2>3. DirCovered'
    BY <1>1, <1>2, <2>1 DEF DirCovered
  <2>4. LinksCovered'
    BY <2>2 DEF LinksCovered
  <2> QED
    BY <2>3, <2>4
<1> QED
  BY <1>1, <1>2, <1>3, <1>4, <1>5, UserKeeps DEF Inv, TypeInv, StyleTypeOK, StyleAssumption

\* A change of an entry of the directory: either the directory is watched, or an
\* event that will renew the watches is waiting.
LEMMA EntryInv ==
    ASSUME StyleAssumption, Inv, NEW f \in Files, dir # 0, Changes, InDir(f),
           content' \in [Files -> 0..MaxChanges], linked' \subseteq Files, OnDisk',
           UNCHANGED <<dir, watchDir>>
    PROVE  Inv'
<1>1. UNCHANGED <<watchPaths, watchOther, listedDir>>
  BY DEF Changes
<1>2. /\ Kept /\ events' \in Seq(EventKinds)
      /\ Watched => Pending(<<"entry", f>>)'
  <2>1. CASE Watched
    <3>1. events \in Seq(EventKinds) /\ <<"entry", f>> \in EventKinds
      BY RenewalEvents DEF Inv, TypeInv
    <3>2. Reports("entry", f)
      BY <2>1 DEF InDir
    <3> QED
      BY <3>1, <3>2, ReportsStay DEF Kept
  <2>2. CASE ~Watched
    BY <2>2 DEF InDir, Kept, Pending, Inv, TypeInv
  <2> QED
    BY <2>1, <2>2
<1>3. watcher \in {"load", "add"} => watchDir' = 0 /\ events' = <<>>
  BY DEF Inv, Unwatched, Watched, InDir
<1>4. ASSUME watcher \in {"loop", "reading"}, ~early
      PROVE  DirCovered' /\ LinksCovered' /\ Reloads'
  <2>1. DirCovered
    BY <1>4 DEF Inv, Covered
  <2>2. CASE Watched
    <3>1. Renewal'
      BY <1>2, <2>2, RenewalEvents DEF Renewal
    <3> QED
      BY <1>1, <2>2, <3>1 DEF DirCovered, LinksCovered, Reloads, Watched
  <2>3. CASE ~Watched
    <3>1. Renewal /\ (listedDir => Pending(<<"dir", "gone">>))
      BY <2>1, <2>3, RenewalEvents DEF DirCovered, Watched
    <3>2. Renewal' /\ (listedDir => Pending(<<"dir", "gone">>)')
      BY <1>2, <3>1, KeptDue, RenewalEvents DEF Kept
    <3> QED
      BY <1>1, <3>2 DEF DirCovered, LinksCovered, Reloads
  <2> QED
    BY <2>2, <2>3
<1> QED
  BY <1>2, <1>3, <1>4, UserKeeps DEF Inv, TypeInv, StyleTypeOK

LEMMA WriteFileInv ==
    ASSUME StyleAssumption, Inv, NEW f \in Files, NEW link \in BOOLEAN, WriteFile(f, link)
    PROVE  Inv'
<1>1. /\ dir # 0 /\ Changes /\ InDir(f) /\ UNCHANGED <<dir, watchDir>>
      /\ content' = [content EXCEPT ![f] = changes']
      /\ linked' = IF link THEN linked \cup {f} ELSE linked \ {f}
      /\ changes' = changes + 1 /\ changes < MaxChanges
  BY DEF WriteFile, Changes
<1>2. changes' \in 1..MaxChanges
  BY <1>1 DEF StyleAssumption, Inv, TypeInv, StyleTypeOK
<1>3. content' \in [Files -> 0..MaxChanges] /\ linked' \subseteq Files
  BY <1>1, <1>2 DEF Inv, TypeInv, StyleTypeOK
<1>4. OnDisk'
  BY <1>1, <1>2 DEF Inv, OnDisk, TypeInv, StyleTypeOK
<1> QED
  BY <1>1, <1>3, <1>4, EntryInv

LEMMA RemoveFileInv ==
    ASSUME StyleAssumption, Inv, NEW f \in Files, RemoveFile(f)
    PROVE  Inv'
<1>1. /\ Changes /\ InDir(f) /\ UNCHANGED <<dir, watchDir>> /\ content[f] # 0
      /\ content' = [content EXCEPT ![f] = 0] /\ linked' = linked \ {f}
  BY DEF RemoveFile
<1>2. dir # 0
  BY <1>1 DEF Inv, OnDisk
<1>3. content' \in [Files -> 0..MaxChanges] /\ linked' \subseteq Files
  BY <1>1 DEF Inv, TypeInv, StyleTypeOK, StyleAssumption
<1>4. OnDisk'
  BY <1>1, <1>2 DEF Inv, OnDisk, TypeInv, StyleTypeOK
<1> QED
  BY <1>1, <1>2, <1>3, <1>4, EntryInv

LEMMA WriteTargetInv ==
    ASSUME StyleAssumption, Inv, NEW f \in Files, WriteTarget(f)
    PROVE  Inv'
<1>1. /\ f \in linked /\ Changes /\ UNCHANGED <<dir, linked, watchDir>>
      /\ content' = [content EXCEPT ![f] = changes']
      /\ changes' = changes + 1 /\ changes < MaxChanges
      /\ UNCHANGED <<watchPaths, watchOther, listedDir>>
      /\ IF watchOther THEN Reports("target", f) ELSE UNCHANGED events
  BY DEF WriteTarget, Changes
<1>2. changes' \in 1..MaxChanges
  BY <1>1 DEF StyleAssumption, Inv, TypeInv, StyleTypeOK
<1>3. content' \in [Files -> 0..MaxChanges]
  BY <1>1, <1>2 DEF Inv, TypeInv, StyleTypeOK
<1>4. OnDisk'
  BY <1>1, <1>2 DEF Inv, OnDisk, TypeInv, StyleTypeOK
<1>5. /\ Kept /\ events' \in Seq(EventKinds)
      /\ watchOther => Pending(<<"target", f>>)'
  <2>1. CASE watchOther
    <3>1. events \in Seq(EventKinds) /\ <<"target", f>> \in EventKinds
      BY RenewalEvents DEF Inv, TypeInv
    <3>2. Reports("target", f)
      BY <1>1, <2>1
    <3> QED
      BY <3>1, <3>2, ReportsStay DEF Kept
  <2>2. CASE ~watchOther
    BY <1>1, <2>2 DEF Kept, Pending, Inv, TypeInv
  <2> QED
    BY <2>1, <2>2
<1>6. watcher \in {"load", "add"} => watchDir' = 0 /\ events' = <<>>
  BY <1>1 DEF Inv, Unwatched
<1>7. ASSUME watcher \in {"loop", "reading"}, ~early
      PROVE  DirCovered' /\ LinksCovered' /\ Reloads'
  <2>1. DirCovered /\ LinksCovered
    BY <1>7 DEF Inv, Covered
  <2>2. Renewal => Renewal'
    BY <1>5, KeptDue
  <2>3. DirCovered'
    BY <1>1, <1>5, <2>1, <2>2, RenewalEvents DEF DirCovered, Kept
  <2>4. LinksCovered'
    BY <1>1, <2>1, <2>2 DEF LinksCovered
  <2>5. Reloads'
    <3>1. CASE watchOther /\ f \in watchPaths
      BY <1>1, <1>5, <3>1 DEF Reloads
    <3>2. CASE ~watchOther \/ f \notin watchPaths
      BY <1>1, <2>1, <2>2, <3>2 DEF LinksCovered, Reloads
    <3> QED
      BY <3>1, <3>2
  <2> QED
    BY <2>3, <2>4, <2>5
<1> QED
  BY <1>1, <1>3, <1>4, <1>5, <1>6, <1>7, UserKeeps DEF Inv, TypeInv, StyleTypeOK

LEMMA UserInv ==
    ASSUME StyleAssumption, Inv, User
    PROVE  Inv'
BY MakeDirInv, RemoveDirInv, RemoveFileInv, WriteTargetInv, WriteFileInv DEF User

-----------------------------------------------------------------------------
(* What the program does.                                                  *)

LEMMA StartInv ==
    ASSUME StyleAssumption, Inv, FirstLoad \/ AddConfig \/ NoWatch
    PROVE  Inv'
<1>1. /\ UNCHANGED <<disk, events, watchDir, watchOther, listedDir, timer, half, early>>
      /\ UNCHANGED <<dir, content, linked, changes>>
  BY DEF FirstLoad, AddConfig, NoWatch, disk, watches
<1>2. OnDisk' /\ events' \in Seq(EventKinds)
  BY <1>1 DEF Inv, OnDisk, TypeInv
<1>3. CASE FirstLoad
  <2>1. /\ watcher = "load" /\ watcher' = "add" /\ UNCHANGED <<watchConfig, watchPaths>>
        /\ \/ last' = content /\ unread' = FALSE
           \/ unread' = TRUE /\ last' = last
    BY <1>3 DEF FirstLoad, watches
  <2>2. TypeInv'
    BY <1>1, <1>2, <2>1 DEF Inv, TypeInv, StyleTypeOK
  <2>3. Unwatched'
    BY <1>1, <2>1 DEF Inv, Unwatched
  <2> QED
    BY <1>2, <2>1, <2>2, <2>3 DEF Inv, Covered
<1>4. CASE AddConfig
  <2>1. /\ watcher = "add" /\ watcher' = "ensure" /\ watchConfig' = TRUE /\ watchPaths' = linked
        /\ UNCHANGED <<last, unread>>
    BY <1>4 DEF AddConfig
  <2>2. TypeInv'
    BY <1>1, <1>2, <2>1 DEF Inv, TypeInv, StyleTypeOK
  <2>3. Unwatched'
    BY <1>1, <2>1 DEF Inv, Unwatched
  <2> QED
    BY <1>2, <2>1, <2>2, <2>3 DEF Inv, Covered
<1>5. CASE NoWatch
  <2>1. watcher' = "blind" /\ UNCHANGED <<watchConfig, watchPaths, last, unread>>
    BY <1>5 DEF NoWatch, watches
  <2>2. TypeInv'
    BY <1>1, <1>2, <2>1 DEF Inv, TypeInv, StyleTypeOK
  <2> QED
    BY <1>2, <2>1, <2>2 DEF Inv, Unwatched, Covered
<1> QED
  BY <1>3, <1>4, <1>5

LEMMA AddOthersInv ==
    ASSUME StyleAssumption, Inv, AddOthers
    PROVE  Inv'
<1>1. /\ watcher = "ensure" /\ watcher' = "loop"
      /\ UNCHANGED <<dir, content, linked, changes, events, watchConfig, timer, last, half,
                     unread, early>>
      /\ watchPaths' = watchPaths
      /\ watchDir' = IF dir # 0 THEN dir ELSE watchDir
      /\ listedDir' = (dir # 0)
      /\ watchOther' = (watchOther \/ watchPaths # {})
  BY DEF AddOthers, EnsureWatches, disk
<1>2. TypeInv' /\ OnDisk'
  BY <1>1 DEF Inv, TypeInv, StyleTypeOK, OnDisk
<1>3. ASSUME ~early' PROVE watchConfig' /\ DirCovered' /\ LinksCovered' /\ Caught'
  <2>1. watchConfig /\ watchPaths = linked /\ (unread \/ last = content)
    BY <1>1, <1>3 DEF Inv, Unwatched
  <2>2. DirCovered'
    BY <1>1 DEF DirCovered
  <2>3. LinksCovered'
    BY <1>1, <2>1 DEF LinksCovered
  <2>4. Caught'
    BY <1>1, <2>1 DEF Caught
  <2> QED
    BY <1>1, <2>1, <2>2, <2>3, <2>4
<1> QED
  BY <1>1, <1>2, <1>3 DEF Inv, Unwatched, Covered

\* Each event renews what it may have disturbed, and has the files read again; an event
\* of the other directory about a file that is no link tells of nothing new.
LEMMA NextEventInv ==
    ASSUME StyleAssumption, Inv, NextEvent
    PROVE  Inv'
<1> DEFINE e == Head(events)
           listed == listedDir /\ e[2] # "gone"
<1>1. /\ watcher = "loop" /\ events # <<>> /\ events' = Tail(events)
      /\ UNCHANGED <<dir, content, linked, changes, watcher, last, half, unread, early>>
      /\ IF e[1] = "target" /\ e[2] \notin watchPaths
         THEN UNCHANGED <<watches, timer>>
         ELSE EnsureWatches(listed, linked) /\ timer' = "running" /\ UNCHANGED watchConfig
  BY DEF NextEvent, Resolved, StartTimer, disk
<1>2. /\ e \in EventKinds /\ events' \in Seq(EventKinds)
      /\ \A x \in EventKinds : Pending(x) /\ x # e => Pending(x)'
  BY <1>1, ReadingStays DEF Inv, TypeInv
<1>3. OnDisk'
  BY <1>1 DEF Inv, OnDisk
<1>4. <<"dir", "gone">> \in EventKinds /\ \A f \in Files : <<"target", f>> \in EventKinds
  BY RenewalEvents
<1>5. e = <<"dir", "gone">> => e[1] = "dir" /\ e[2] = "gone"
  OBVIOUS
<1>6. \A f : e = <<"target", f>> => e[1] = "target" /\ e[2] = f
  OBVIOUS
<1> HIDE DEF e
<1>7. CASE e[1] = "target" /\ e[2] \notin watchPaths
  <2>1. UNCHANGED <<watchConfig, watchDir, watchOther, listedDir, watchPaths, timer>>
    BY <1>1, <1>7 DEF watches
  <2>2. TypeInv'
    BY <1>1, <1>2, <2>1 DEF Inv, TypeInv, StyleTypeOK
  <2>3. Unwatched'
    BY <1>1, <2>1 DEF Unwatched
  <2>4. Renewal => Renewal'
    BY <1>2, <1>7 DEF Renewal
  <2>5. Pending(<<"dir", "gone">>) => Pending(<<"dir", "gone">>)'
    BY <1>2, <1>4, <1>5, <1>7
  <2>6. ASSUME NEW f \in watchPaths, Pending(<<"target", f>>) PROVE Pending(<<"target", f>>)'
    <3>1. f \in Files
      BY DEF Inv, TypeInv
    <3>2. <<"target", f>> # e
      BY <1>6, <1>7
    <3> QED
      BY <1>2, <1>4, <2>6, <3>1, <3>2
  <2>7. Reloads => Reloads'
    BY <2>1, <2>4, <2>6 DEF Reloads
  <2>8. ASSUME ~early' PROVE watchConfig' /\ DirCovered' /\ LinksCovered' /\ Caught'
    <3>1. watchConfig /\ DirCovered /\ LinksCovered /\ Caught
      BY <1>1, <2>8 DEF Inv, Covered
    <3> QED
      BY <1>1, <2>1, <2>4, <2>5, <2>7, <3>1 DEF DirCovered, LinksCovered, Caught
  <2> QED
    BY <1>1, <1>3, <2>2, <2>3, <2>8 DEF Inv, Covered
<1>8. CASE ~(e[1] = "target" /\ e[2] \notin watchPaths)
  <2>1. /\ timer' = "running" /\ watchConfig' = watchConfig
        /\ watchPaths' = linked
        /\ watchDir' = IF dir # 0 /\ ~listed THEN dir ELSE watchDir
        /\ listedDir' = (listed \/ dir # 0)
        /\ watchOther' = (watchOther \/ linked # {})
    BY <1>1, <1>8 DEF EnsureWatches
  <2>2. TypeInv'
    BY <1>1, <1>2, <2>1 DEF Inv, TypeInv, StyleTypeOK
  <2>3. Unwatched'
    BY <1>1 DEF Unwatched
  <2>4. ASSUME ~early' PROVE watchConfig' /\ DirCovered' /\ LinksCovered' /\ Caught'
    <3>1. watchConfig /\ DirCovered
      BY <1>1, <2>4 DEF Inv, Covered
    <3>2. ASSUME listed, Pending(<<"dir", "gone">>) PROVE Pending(<<"dir", "gone">>)'
      BY <1>2, <1>4, <1>5, <3>2
    <3>3. ASSUME listed PROVE DirCovered'
      <4>1. listedDir /\ listedDir' /\ watchDir' = watchDir /\ dir' = dir
        BY <1>1, <2>1, <3>3
      <4>2. (dir # 0 /\ watchDir # dir) \/ dir = 0 => Pending(<<"dir", "gone">>)
        BY <3>1, <4>1 DEF DirCovered
      <4>3. (dir # 0 /\ watchDir # dir) \/ dir = 0 => Pending(<<"dir", "gone">>)'
        BY <3>2, <3>3, <4>2
      <4> QED
        BY <4>1, <4>3 DEF DirCovered
    <3>4. ASSUME ~listed PROVE DirCovered'
      <4>1. (dir # 0 => watchDir' = dir) /\ (listedDir' <=> dir # 0) /\ dir' = dir
        BY <1>1, <2>1, <3>4
      <4> QED
        BY <4>1 DEF DirCovered
    <3>5. LinksCovered'
      BY <1>1, <2>1 DEF LinksCovered
    <3>6. Caught'
      BY <1>1, <2>1 DEF Caught, Reloads
    <3> QED
      BY <2>1, <3>1, <3>3, <3>4, <3>5, <3>6
  <2> QED
    BY <1>1, <1>3, <2>2, <2>3, <2>4 DEF Inv, Covered
<1> QED
  BY <1>7, <1>8

LEMMA TimerInv ==
    ASSUME StyleAssumption, Inv, Ticks \/ Reload
    PROVE  Inv'
<1>1. /\ UNCHANGED <<dir, content, linked, changes, events, watchConfig, watchDir, watchOther,
                     listedDir, watchPaths, last, unread, early>>
      /\ \/ timer = "running" /\ timer' = "ticked" /\ UNCHANGED <<watcher, half>>
         \/ /\ watcher = "loop" /\ watcher' = "reading" /\ timer' = "spent"
            /\ half' = content["style"]
  BY DEF Ticks, Reload, disk, watches
<1>2. OnDisk'
  BY <1>1 DEF Inv, OnDisk
<1>3. content["style"] \in 0..MaxChanges
  BY DEF Inv, TypeInv, StyleTypeOK, Files
<1>4. TypeInv'
  BY <1>1, <1>3 DEF Inv, TypeInv, StyleTypeOK
<1>5. Unwatched'
  BY <1>1 DEF Inv, Unwatched
<1>6. Pending(<<"dir", "gone">>)' <=> Pending(<<"dir", "gone">>)
  BY <1>1 DEF Pending
<1>7. Renewal' <=> Renewal
  BY <1>1 DEF Renewal, Pending
<1>8. ASSUME watcher' \in {"loop", "reading"}, ~early'
      PROVE  watchConfig' /\ DirCovered' /\ LinksCovered' /\ Caught'
  <2>1. watchConfig /\ DirCovered /\ LinksCovered
    BY <1>1, <1>8 DEF Inv, Covered
  <2>2. DirCovered' /\ LinksCovered'
    BY <1>1, <1>6, <1>7, <2>1 DEF DirCovered, LinksCovered
  <2>3. Caught'
    BY <1>1 DEF Caught, Reloads
  <2> QED
    BY <1>1, <2>1, <2>2, <2>3
<1> QED
  BY <1>2, <1>4, <1>5, <1>8 DEF Inv, Covered

\* What the loop has read is what is on the disk, or something has happened since.
LEMMA ReadOtherInv ==
    ASSUME StyleAssumption, Inv, ReadOther
    PROVE  Inv'
<1>1. /\ UNCHANGED <<dir, content, linked, changes, events, watchConfig, watchDir, watchOther,
                     listedDir, watchPaths, timer, half, early>>
      /\ watcher = "reading" /\ watcher' = "loop"
      /\ \/ last' = [style |-> half, user |-> content["user"]] /\ unread' = FALSE
         \/ unread' = TRUE /\ last' = last
  BY DEF ReadOther, disk, watches
<1>2. OnDisk'
  BY <1>1 DEF Inv, OnDisk
<1>3. content \in [Files -> 0..MaxChanges] /\ half \in 0..MaxChanges
  BY DEF Inv, TypeInv, StyleTypeOK
<1>4. [style |-> half, user |-> content["user"]] \in [Files -> 0..MaxChanges]
  BY <1>3 DEF Files
<1>5. half = content["style"] => [style |-> half, user |-> content["user"]] = content
  BY <1>3 DEF Files
<1>6. TypeInv'
  BY <1>1, <1>4 DEF Inv, TypeInv, StyleTypeOK
<1>7. (Pending(<<"dir", "gone">>)' <=> Pending(<<"dir", "gone">>)) /\ (Renewal' <=> Renewal)
  BY <1>1 DEF Pending, Renewal
<1>8. Reloads => Reloads'
  BY <1>1, <1>7 DEF Reloads, Pending
<1>9. ASSUME ~early' PROVE watchConfig' /\ DirCovered' /\ LinksCovered' /\ Caught'
  <2>1. watchConfig /\ DirCovered /\ LinksCovered /\ Caught
    BY <1>1, <1>9 DEF Inv, Covered
  <2>2. DirCovered' /\ LinksCovered'
    BY <1>1, <1>7, <2>1 DEF DirCovered, LinksCovered
  <2>3. Caught'
    BY <1>1, <1>5, <1>8, <2>1 DEF Caught
  <2> QED
    BY <1>1, <2>1, <2>2, <2>3
<1> QED
  BY <1>1, <1>2, <1>6, <1>9 DEF Inv, Unwatched, Covered

-----------------------------------------------------------------------------
(* The theorems.                                                           *)

LEMMA InitInv == StyleAssumption /\ StyleInit => Inv
<1> SUFFICES ASSUME StyleAssumption, StyleInit PROVE Inv
  OBVIOUS
<1>1. 0 \in 0..MaxChanges /\ 1 \in 0..MaxChanges /\ 1 \in 1..MaxChanges
  BY DEF StyleAssumption
<1>2. content \in [Files -> 0..MaxChanges] /\ last \in [Files -> 0..MaxChanges]
  BY <1>1 DEF StyleInit
<1>3. linked \subseteq Files
  BY DEF StyleInit
<1>4. TypeInv
  <2>1. /\ dir \in {0, 1} /\ changes = 1 /\ events = <<>> /\ watcher = "load"
        /\ ~watchConfig /\ watchDir = 0 /\ ~watchOther /\ ~listedDir /\ watchPaths = {}
        /\ timer = "none" /\ half = 0 /\ ~unread /\ ~early
    BY DEF StyleInit
  <2>2. dir \in 0..MaxChanges /\ changes \in 1..MaxChanges
    BY <1>1, <2>1
  <2>3. StyleTypeOK
    BY <1>1, <1>2, <1>3, <2>1, <2>2 DEF StyleTypeOK
  <2>4. /\ watchConfig \in BOOLEAN /\ watchOther \in BOOLEAN /\ listedDir \in BOOLEAN
        /\ early \in BOOLEAN /\ unread \in BOOLEAN
    BY DEF StyleInit
  <2>5. events \in Seq(EventKinds)
    BY <2>1
  <2> QED
    BY <1>1, <2>1, <2>3, <2>4, <2>5 DEF TypeInv
<1>5. OnDisk
  BY DEF StyleInit, OnDisk
<1> QED
  BY <1>4, <1>5 DEF StyleInit, Inv, Unwatched, Covered

LEMMA NextInv == StyleAssumption /\ Inv /\ [StyleNext]_styleVars => Inv'
<1> SUFFICES ASSUME StyleAssumption, Inv, [StyleNext]_styleVars PROVE Inv'
  OBVIOUS
<1>1. CASE UNCHANGED styleVars
  <2>1. UNCHANGED <<dir, content, linked, changes, events, watcher, watchConfig, watchDir, watchOther,
                    listedDir, watchPaths, timer, last, half, unread, early>>
    BY <1>1 DEF styleVars, disk, watches
  <2> QED
    BY <2>1 DEF Inv, TypeInv, StyleTypeOK, Unwatched, OnDisk, Covered, DirCovered, LinksCovered,
                Caught, Reloads, Renewal, Pending
<1> QED
  BY <1>1, UserInv, StartInv, AddOthersInv, NextEventInv, TimerInv, ReadOtherInv
     DEF StyleNext, Program

LEMMA InvAlways == StyleAssumption => (StyleSpec => []Inv)
<1> SUFFICES ASSUME StyleAssumption PROVE StyleSpec => []Inv
  OBVIOUS
<1>1. StyleInit => Inv
  BY InitInv
<1>2. Inv /\ [StyleNext]_styleVars => Inv'
  BY NextInv
<1> QED
  BY <1>1, <1>2, PTL DEF StyleSpec

\* Versions, watches and the timer keep their ranges (app_gtk.go, watchCSSChanges).
THEOREM StyleTypeCorrect == StyleAssumption => (StyleSpec => []StyleTypeOK)
<1>1. Inv => StyleTypeOK
  BY DEF Inv, TypeInv
<1> QED
  BY <1>1, InvAlways, PTL

\* When the watcher has nothing left to do, the panel wears the style sheets that are
\* on disk (app_gtk.go, watchCSSChanges and ensureCSSDirWatch).
THEOREM StyleUpToDate == StyleAssumption => (StyleSpec => []StyleFollowsFiles)
<1>1. Inv => StyleFollowsFiles
  <2> SUFFICES ASSUME Inv, AtRest, ~early, ~unread PROVE last = content
    BY DEF StyleFollowsFiles
  <2>1. watcher = "loop" /\ Len(events) = 0 /\ timer \notin {"running", "ticked"}
    BY DEF AtRest
  <2>2. ~Reloads
    BY <2>1 DEF Reloads, Renewal, Pending
  <2> QED
    BY <2>1, <2>2 DEF Inv, Covered, Caught
<1> QED
  BY <1>1, InvAlways, PTL
=============================================================================
