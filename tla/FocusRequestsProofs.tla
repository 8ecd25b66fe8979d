------------------------ MODULE FocusRequestsProofs ------------------------
(***************************************************************************)
(* Theorems about FocusRequests, for every number of requests, panes,      *)
(* clients and failing commands.                                           *)
(***************************************************************************)
EXTENDS FocusRequests, TLAPS

-----------------------------------------------------------------------------
(* Type correctness.  TypeOK is not inductive: the locals of a request are *)
(* set only where it has come to them.                                     *)

Labels ==
    {"new", "attached", "attach", "select", "raise", "saveTitles", "saveFormat", "off",
     "format", "on", "clients", "try", "switch", "look", "return", "restoreTitles",
     "restoreFormat", "end"}

\* Where the request has read the options, and may have to restore them.
HasTitles ==
    {"saveFormat", "off", "format", "on", "clients", "try", "switch", "look", "return",
     "restoreTitles"}
HasFormat == (HasTitles \ {"saveFormat"}) \cup {"restoreFormat"}
Touring == {"try", "switch", "look", "return"}

Moves == [client : Clients, to : TmuxSessions]
RequestLocals ==
    [pc : Labels, pane : Panes \cup {None}, savedTitles : {"on", "off", None},
     savedFormat : {"own", "#S:#W", None}, todo : Seq(Clients),
     client : Clients \cup {None}, was : TmuxSessions \cup {None}, moved : Seq(Moves),
     ok : BOOLEAN]

Ready(q) ==
    /\ q.pc = "new" => q.pane = None
    /\ q.pc \notin {"new", "end"} => q.pane \in Panes
    /\ q.pc \in HasTitles => q.savedTitles \in {"on", "off"}
    /\ q.pc \in HasFormat => q.savedFormat \in {"own", "#S:#W"}
    /\ q.pc \in {"switch", "look"} => q.client \in Clients
    /\ q.pc = "switch" => q.was \in TmuxSessions

TmuxOK ==
    /\ titles \in {"on", "off"} /\ format \in {"own", "#S:#W"}
    /\ on \in [Clients -> TmuxSessions] /\ foreign \in ForeignSets
HistoryOK ==
    /\ failures \in 0..MaxFailures /\ overlapped \in BOOLEAN /\ unrestored \in BOOLEAN
    /\ home \in [Clients -> TmuxSessions]
RequestsOK ==
    request \in [Requests -> RequestLocals] /\ \A r \in Requests : Ready(request[r])

TypeInv == TmuxOK /\ HistoryOK /\ RequestsOK

\* What the entries of a request's record are after each kind of step.
LEMMA GotoFields ==
    ASSUME NEW q \in RequestLocals, NEW l \in Labels
    PROVE  LET n == [q EXCEPT !.pc = l]
           IN /\ n \in RequestLocals /\ n.pc = l /\ n.pane = q.pane
              /\ n.savedTitles = q.savedTitles /\ n.savedFormat = q.savedFormat
              /\ n.client = q.client /\ n.was = q.was /\ n.moved = q.moved
              /\ n.todo = q.todo /\ n.ok = q.ok
BY DEF RequestLocals

LEMMA EndsFields ==
    ASSUME NEW q \in RequestLocals, NEW success \in BOOLEAN
    PROVE  LET n == [q EXCEPT !.pc = "end", !.ok = success]
           IN /\ n \in RequestLocals /\ n.pc = "end" /\ n.pane = q.pane
              /\ n.client = q.client /\ n.moved = q.moved /\ n.ok = success
BY DEF RequestLocals, Labels

LEMMA BeginFields ==
    ASSUME NEW q \in RequestLocals, NEW p \in Panes
    PROVE  LET n == [q EXCEPT !.pc = "attached", !.pane = p]
           IN /\ n \in RequestLocals /\ n.pc = "attached" /\ n.pane = p
              /\ n.moved = q.moved /\ n.ok = q.ok
BY DEF RequestLocals, Labels

LEMMA SaveFields ==
    ASSUME NEW q \in RequestLocals, titles \in {"on", "off"}, format \in {"own", "#S:#W"}
    PROVE  /\ LET n == [Saved(q) EXCEPT !.pc = "saveFormat"]
              IN /\ n \in RequestLocals /\ n.pc = "saveFormat" /\ n.pane = q.pane
                 /\ n.savedTitles = titles
                 /\ n.client = q.client /\ n.moved = q.moved /\ n.ok = q.ok
           /\ LET n == [q EXCEPT !.pc = "off", !.savedFormat = format]
              IN /\ n \in RequestLocals /\ n.pc = "off" /\ n.pane = q.pane
                 /\ n.savedTitles = q.savedTitles /\ n.savedFormat = format
                 /\ n.client = q.client /\ n.moved = q.moved /\ n.ok = q.ok
BY DEF RequestLocals, Labels, Saved

LEMMA ListFields ==
    ASSUME NEW q \in RequestLocals, NEW cs \in Seq(Clients)
    PROVE  LET n == [q EXCEPT !.pc = "try", !.todo = cs]
           IN /\ n \in RequestLocals /\ n.pc = "try" /\ n.pane = q.pane
              /\ n.savedTitles = q.savedTitles /\ n.savedFormat = q.savedFormat
              /\ n.client = q.client /\ n.moved = q.moved /\ n.ok = q.ok
BY DEF RequestLocals, Labels

\* The record while the next client has its turn, and with the control state l.
LEMMA TurnFields ==
    ASSUME NEW q \in RequestLocals, q.todo # <<>>
    PROVE  LET turn == [q EXCEPT !.todo = Tail(@), !.client = Head(q.todo)]
           IN /\ turn \in RequestLocals /\ Head(q.todo) \in Clients
              /\ turn.pc = q.pc /\ turn.pane = q.pane /\ turn.client = Head(q.todo)
              /\ turn.savedTitles = q.savedTitles /\ turn.savedFormat = q.savedFormat
              /\ turn.moved = q.moved /\ turn.ok = q.ok
<1>1. q.todo \in Seq(Clients)
  BY DEF RequestLocals
<1>2. Head(q.todo) \in Clients /\ Tail(q.todo) \in Seq(Clients)
  BY <1>1
<1> QED
  BY <1>2 DEF RequestLocals

LEMMA SwitchFields ==
    ASSUME NEW q \in RequestLocals, NEW s \in TmuxSessions
    PROVE  LET n == [q EXCEPT !.pc = "switch", !.was = s]
           IN /\ n \in RequestLocals /\ n.pc = "switch" /\ n.pane = q.pane
              /\ n.savedTitles = q.savedTitles /\ n.savedFormat = q.savedFormat
              /\ n.client = q.client /\ n.was = s /\ n.moved = q.moved /\ n.ok = q.ok
BY DEF RequestLocals, Labels

LEMMA SwitchedFields ==
    ASSUME NEW q \in RequestLocals, NEW m \in Moves
    PROVE  LET n == [q EXCEPT !.pc = "look", !.moved = Append(@, m)]
           IN /\ n \in RequestLocals /\ n.pc = "look" /\ n.pane = q.pane
              /\ n.savedTitles = q.savedTitles /\ n.savedFormat = q.savedFormat
              /\ n.client = q.client /\ n.moved = Append(q.moved, m) /\ n.ok = q.ok
<1>1. Append(q.moved, m) \in Seq(Moves)
  BY DEF RequestLocals
<1> QED
  BY <1>1 DEF RequestLocals, Labels

LEMMA StaysFields ==
    ASSUME NEW q \in RequestLocals
    PROVE  LET n == [Stays(q) EXCEPT !.pc = "return", !.ok = TRUE]
           IN /\ n \in RequestLocals /\ n.pc = "return" /\ n.pane = q.pane
              /\ n.savedTitles = q.savedTitles /\ n.savedFormat = q.savedFormat
              /\ n.client = q.client /\ n.ok
              /\ n.moved = IF Switched(q) THEN SubSeq(q.moved, 1, Len(q.moved) - 1)
                                          ELSE q.moved
<1>1. q.moved \in Seq(Moves) /\ Len(q.moved) \in Nat
  BY DEF RequestLocals
<1>2. Switched(q) => SubSeq(q.moved, 1, Len(q.moved) - 1) \in Seq(Moves)
  BY <1>1 DEF Switched
<1>3. CASE Switched(q)
  <2> DEFINE left == SubSeq(q.moved, 1, Len(q.moved) - 1)
  <2>1. left \in Seq(Moves)
    BY <1>2, <1>3
  <2>2. Stays(q) = [q EXCEPT !.moved = left]
    BY <1>3 DEF Stays
  <2> HIDE DEF left
  <2>3. LET n == [Stays(q) EXCEPT !.pc = "return", !.ok = TRUE]
        IN /\ n \in RequestLocals /\ n.pc = "return" /\ n.pane = q.pane
           /\ n.savedTitles = q.savedTitles /\ n.savedFormat = q.savedFormat
           /\ n.client = q.client /\ n.ok /\ n.moved = left
    BY <2>1, <2>2 DEF RequestLocals, Labels
  <2> QED
    BY <2>3, <1>3 DEF left
<1>4. CASE ~Switched(q)
  BY <1>4 DEF RequestLocals, Labels, Stays
<1> QED
  BY <1>3, <1>4

LEMMA ReturnFields ==
    ASSUME NEW q \in RequestLocals, q.moved # <<>>
    PROVE  LET n == [q EXCEPT !.moved = Tail(@)]
           IN /\ n \in RequestLocals /\ n.pc = q.pc /\ n.pane = q.pane
              /\ n.savedTitles = q.savedTitles /\ n.savedFormat = q.savedFormat
              /\ n.client = q.client /\ n.moved = Tail(q.moved) /\ n.ok = q.ok
<1>1. Tail(q.moved) \in Seq(Moves)
  BY DEF RequestLocals
<1> QED
  BY <1>1 DEF RequestLocals

-----------------------------------------------------------------------------
(* The invariants.                                                         *)

\* While no two requests have overlapped, at most one runs.
Alone == ~overlapped => \A q, r \in Requests : Running(q) /\ Running(r) => q = r

\* What request q knows of the options: before its first change they are the user's,
\* and what it has saved is the user's.
Untouched ==
    {"attached", "attach", "select", "raise", "saveTitles", "saveFormat", "off"}
KeepsTitles(q) ==
    /\ q.pc \in Untouched => UsersTitles
    /\ q.pc \in HasTitles => q.savedTitles = UserTitles
    /\ q.pc \in HasFormat => q.savedFormat = "own"
    /\ q.pc = "restoreFormat" => titles = UserTitles

TitlesInv ==
    ~overlapped /\ ~unrestored =>
        /\ Quiet => UsersTitles
        /\ \A r \in Requests : KeepsTitles(request[r])

\* Why a client may show another session than it did when request q began: it was
\* taken to show the session at all, it is to be sent back, or it stays.
Taken(q, c) ==
    c = TmuxClients[1] /\ on[c] = q.pane.session /\ \A d \in Clients : home[d] # on[c]
ToReturn(q, c) ==
    on[c] = q.pane.session /\ \E i \in 1..Len(q.moved) : q.moved[i].client = c
Raised(q, c) == on[c] = q.pane.session /\ q.ok /\ c = q.client
Explained(q) ==
    \A c \in Clients : on[c] # home[c] => Taken(q, c) \/ ToReturn(q, c) \/ Raised(q, c)

KeepsClients(q) ==
    /\ q.pc \in {"attached", "attach"} => on = home
    /\ q.pc = "attach" => \A c \in Clients : on[c] # q.pane.session
    /\ q.pc \notin Touring => q.moved = <<>>
    /\ \A i \in 1..Len(q.moved) : q.moved[i].to = home[q.moved[i].client]
    /\ q.pc = "switch" => q.was = home[q.client]
    /\ q.pc = "look" => on[q.client] = q.pane.session
    /\ q.ok => q.pc \in {"return", "restoreTitles", "restoreFormat", "end"}
    /\ q.pc \notin {"new", "end"} => Explained(q)

\* The clients after the last request, as ClientsReturned wants them.
Returned ==
    \A c \in Clients : on[c] # home[c] =>
        \E r \in Requests : request[r].pane # None /\ (Taken(request[r], c) \/ Raised(request[r], c))

ClientsInv ==
    ~overlapped /\ ~unrestored =>
        /\ Quiet => Returned
        /\ \A r \in Requests : KeepsClients(request[r])

Inv == TypeInv /\ Alone /\ TitlesInv /\ ClientsInv

Calm == ~overlapped /\ ~unrestored
Well(r) ==
    /\ KeepsTitles(request[r]) /\ KeepsClients(request[r]) /\ Explained(request[r])
    /\ At(r, "end") => UsersTitles

-----------------------------------------------------------------------------
(* What a step of one request leaves alone.                                *)

\* Request r comes to label l, and no other request moves.
Steps(r, l) ==
    /\ request' \in [Requests -> RequestLocals]
    /\ \A p \in Requests : p # r => request'[p] = request[p]
    /\ request'[r].pc = l /\ request'[r].pane = request[r].pane
SameSaved(r) ==
    /\ request'[r].savedTitles = request[r].savedTitles
    /\ request'[r].savedFormat = request[r].savedFormat
SameTour(r) ==
    /\ request'[r].client = request[r].client /\ request'[r].moved = request[r].moved
    /\ request[r].ok => request'[r].ok

\* What every step but the first does with the history.
Onward ==
    /\ HistoryOK' /\ UNCHANGED <<overlapped, home>>
    /\ unrestored => unrestored'
SameTmux == UNCHANGED <<titles, format, on, foreign>>

LEMMA SetsStep ==
    ASSUME RequestsOK, NEW r \in Requests, NEW n \in RequestLocals, Sets(r, n),
           n.pane = request[r].pane
    PROVE  Steps(r, n.pc) /\ request'[r] = n
BY DEF RequestsOK, Sets, Steps

LEMMA GotoStep ==
    ASSUME RequestsOK, NEW r \in Requests, NEW l \in Labels, Goto(r, l)
    PROVE  /\ Steps(r, l) /\ SameSaved(r) /\ SameTour(r)
           /\ request'[r].was = request[r].was /\ request'[r].ok = request[r].ok
<1> DEFINE n == [request[r] EXCEPT !.pc = l]
<1>1. request[r] \in RequestLocals
  BY DEF RequestsOK
<1>2. /\ n \in RequestLocals /\ n.pc = l /\ n.pane = request[r].pane
      /\ n.savedTitles = request[r].savedTitles /\ n.savedFormat = request[r].savedFormat
      /\ n.client = request[r].client /\ n.was = request[r].was
      /\ n.moved = request[r].moved /\ n.ok = request[r].ok
  BY <1>1, GotoFields
<1>3. Sets(r, n)
  BY DEF Goto
<1> HIDE DEF n
<1>4. Steps(r, n.pc) /\ request'[r] = n
  BY <1>2, <1>3, SetsStep
<1> QED
  BY <1>2, <1>4 DEF SameSaved, SameTour

LEMMA EndsStep ==
    ASSUME RequestsOK, NEW r \in Requests, NEW success \in BOOLEAN, Ends(r, success)
    PROVE  Steps(r, "end") /\ (~request[r].ok => SameTour(r))
<1> DEFINE n == [request[r] EXCEPT !.pc = "end", !.ok = success]
<1>1. request[r] \in RequestLocals
  BY DEF RequestsOK
<1>2. /\ n \in RequestLocals /\ n.pc = "end" /\ n.pane = request[r].pane
      /\ n.client = request[r].client /\ n.moved = request[r].moved
  BY <1>1, EndsFields
<1>3. Sets(r, n)
  BY DEF Ends
<1> HIDE DEF n
<1>4. Steps(r, n.pc) /\ request'[r] = n
  BY <1>2, <1>3, SetsStep
<1> QED
  BY <1>2, <1>4 DEF SameTour

LEMMA HistoryStep ==
    ASSUME FocusAssumption, HistoryOK
    PROVE  /\ Works \/ Failed => Onward
           /\ RestoreFails => Onward /\ SameTmux /\ unrestored'
           /\ Query => SameTmux
<1>1. MaxFailures \in Nat
  BY DEF FocusAssumption
<1>2. failures < MaxFailures => failures + 1 \in 0..MaxFailures
  BY <1>1 DEF HistoryOK
<1>3. Works => Onward
  BY DEF HistoryOK, Works, Onward
<1>4. Failed => Onward
  BY <1>2 DEF HistoryOK, Failed, Onward
<1>5. UNCHANGED tmuxVars => SameTmux
  BY DEF SameTmux, tmuxVars
<1>6. RestoreFails => Onward /\ SameTmux /\ unrestored'
  <2>1. RestoreFails => HistoryOK'
    BY <1>2 DEF HistoryOK, RestoreFails
  <2> QED
    BY <1>5, <2>1 DEF RestoreFails, Onward
<1> QED
  BY <1>3, <1>4, <1>5, <1>6 DEF Query

LEMMA SameTmuxOK == TmuxOK /\ SameTmux => TmuxOK'
BY DEF TmuxOK, SameTmux

\* What the commands do to tmux.
LEMMA SwitchTmux ==
    ASSUME TmuxOK, NEW c \in Clients, NEW s \in TmuxSessions, SwitchClient(c, s)
    PROVE  /\ TmuxOK' /\ titles' = titles /\ format' = format
           /\ on'[c] = s /\ \A d \in Clients : d # c => on'[d] = on[d]
BY DEF TmuxOK, SwitchClient, Tmux

LEMMA OptionsTmux ==
    ASSUME TmuxOK
    PROVE  /\ \A t \in {"on", "off"} :
                 SetTitles(t) => TmuxOK' /\ titles' = t /\ format' = format /\ on' = on
           /\ \A f \in {"own", "#S:#W"} :
                 SetFormat(f) => TmuxOK' /\ titles' = titles /\ format' = f /\ on' = on
           /\ \A p \in Panes : SelectWindow(p) => SameTmux
BY DEF TmuxOK, SetTitles, SetFormat, SelectWindow, Tmux, SameTmux

\* It is enough to look at the request that moves: while nothing has overlapped, no
\* other runs, and one that does not run holds nothing.
LEMMA OneMoved ==
    ASSUME FocusAssumption, Inv, NEW r \in Requests, Running(r), NEW l \in Labels \ {"new"},
           Steps(r, l), Onward, TmuxOK', Ready(request[r])',
           Calm /\ Calm' /\ Well(r) => Well(r)'
    PROVE  Inv'
<1>1. TypeInv'
  BY DEF Inv, TypeInv, RequestsOK, Steps, Onward, Ready
<1>2. \A p \in Requests : Running(p)' => Running(p)
  BY DEF Steps, Running
<1>3. Alone'
  BY <1>2 DEF Inv, Alone, Onward
<1>4. ASSUME Calm' PROVE Calm /\ Well(r)' /\ \A p \in Requests : p # r => ~Running(p)
  <2>1. Calm
    BY <1>4 DEF Calm, Onward
  <2>2. Well(r)
    BY <2>1 DEF Calm, Inv, TitlesInv, ClientsInv, Well, KeepsClients, Running, At
  <2>3. \A p \in Requests : p # r => ~Running(p)
    BY <2>1 DEF Calm, Inv, Alone
  <2> QED
    BY <1>4, <2>1, <2>2, <2>3
<1>5. ASSUME Calm', Quiet' PROVE request'[r].pc = "end"
  BY <1>5 DEF Quiet, Running, Steps
<1>6. TitlesInv'
  <2>1. ASSUME Calm', NEW p \in Requests PROVE KeepsTitles(request[p])'
    BY <1>4, <2>1 DEF Well, KeepsTitles, Steps, Running, Untouched, HasTitles, HasFormat
  <2>2. ASSUME Calm', Quiet' PROVE UsersTitles'
    BY <1>4, <1>5, <2>2 DEF Well, At
  <2> QED
    BY <2>1, <2>2 DEF TitlesInv, Calm
<1>7. ClientsInv'
  <2>1. ASSUME Calm', NEW p \in Requests PROVE KeepsClients(request[p])'
    <3>1. CASE p = r
      BY <1>4, <2>1, <3>1 DEF Well
    <3>2. CASE p # r
      <4>1. request'[p] = request[p] /\ request[p].pc \in {"new", "end"}
        BY <1>4, <2>1, <3>2 DEF Steps, Running
      <4>2. KeepsClients(request[p])
        BY <1>4, <2>1 DEF Inv, ClientsInv, Calm
      <4>3. request[p].moved = <<>>
        BY <4>1, <4>2 DEF KeepsClients, Touring
      <4>4. Len(request[p].moved) = 0
        BY <4>3
      <4> QED
        BY <4>1, <4>2, <4>3, <4>4 DEF KeepsClients, Touring
    <3> QED
      BY <3>1, <3>2
  <2>2. ASSUME Calm', Quiet' PROVE Returned'
    <3>1. request'[r].pc = "end" /\ Explained(request[r])' /\ KeepsClients(request[r])'
      BY <1>4, <1>5, <2>2 DEF Well
    <3>2. request'[r].moved = <<>>
      BY <3>1 DEF KeepsClients, Touring
    <3>3. request'[r].pane # None
      BY DEF FocusAssumption, Inv, TypeInv, RequestsOK, Ready, Running, Steps
    <3>4. ASSUME NEW c \in Clients PROVE ~ToReturn(request[r], c)'
      BY <3>2 DEF ToReturn
    <3> QED
      BY <3>1, <3>3, <3>4 DEF Returned, Explained
  <2> QED
    BY <2>1, <2>2 DEF ClientsInv, Calm
<1> QED
  BY <1>1, <1>3, <1>6, <1>7 DEF Inv

\* A step that moves no client and ends no tour leaves every client explained.
LEMMA ClientsKept ==
    ASSUME NEW r \in Requests, Steps(r, request'[r].pc), SameTour(r), UNCHANGED <<on, home>>,
           request'[r].pc \notin {"attached", "attach", "switch", "look"},
           request'[r].pc \notin Touring => request[r].moved = <<>>,
           request'[r].ok =>
               request'[r].pc \in {"return", "restoreTitles", "restoreFormat", "end"},
           Well(r)
    PROVE  KeepsClients(request[r])' /\ Explained(request[r])'
<1>1. Explained(request[r])'
  BY DEF Well, Explained, Taken, ToReturn, Raised, Steps, SameTour
<1> QED
  BY <1>1 DEF Well, KeepsClients, Steps, SameTour

\* A request that gives up before it has changed an option.
LEMMA EndsUntouched ==
    ASSUME FocusAssumption, Inv, NEW r \in Requests, request[r].pc \in Untouched,
           NEW success \in BOOLEAN, Ends(r, success), SameTmux, Onward
    PROVE  Inv'
<1>1. Steps(r, "end") /\ (~request[r].ok => SameTour(r)) /\ Running(r)
  BY EndsStep DEF Inv, TypeInv, Running, Untouched
<1>2. TmuxOK' /\ Ready(request[r])'
  BY <1>1, SameTmuxOK DEF Inv, TypeInv, Ready, Steps, HasTitles, HasFormat
<1>3. ASSUME Calm, Calm', Well(r) PROVE Well(r)'
  <2>1. SameTour(r) /\ request[r].moved = <<>>
    BY <1>1, <1>3 DEF Well, KeepsClients, Untouched, Touring
  <2>2. KeepsClients(request[r])' /\ Explained(request[r])'
    BY <1>1, <1>3, <2>1, ClientsKept DEF Onward, SameTmux, Steps, Touring
  <2>3. UsersTitles'
    BY <1>3 DEF Well, KeepsTitles, UsersTitles, SameTmux
  <2>4. KeepsTitles(request[r])'
    BY <1>1 DEF KeepsTitles, Steps, Untouched, HasTitles, HasFormat
  <2> QED
    BY <2>2, <2>3, <2>4 DEF Well
<1> QED
  BY <1>1, <1>2, <1>3, OneMoved DEF Labels

\* A request that goes on without a change of the options.
LEMMA GoesOn ==
    ASSUME FocusAssumption, Inv, NEW r \in Requests, Running(r),
           NEW l \in Labels \ {"new", "end", "attached", "attach", "switch", "look"},
           Goto(r, l), SameTmux, Onward,
           l \in Untouched => request[r].pc \in Untouched,
           l \in HasTitles => request[r].pc \in HasTitles,
           l \in HasFormat => request[r].pc \in HasFormat,
           l # "restoreFormat",
           l \in Touring \/ request[r].pc \notin Touring \/ request[r].moved = <<>>,
           request[r].pc = "return" => l = "restoreTitles",
           request[r].pc \notin {"restoreTitles", "restoreFormat"}
    PROVE  Inv'
<1>1. /\ Steps(r, l) /\ SameSaved(r) /\ SameTour(r)
      /\ request'[r].ok = request[r].ok
  BY GotoStep DEF Inv, TypeInv
<1>2. TmuxOK' /\ Ready(request[r])'
  BY <1>1, SameTmuxOK DEF Inv, TypeInv, RequestsOK, Ready, Steps, SameSaved, Running
<1>3. ASSUME Calm, Calm', Well(r) PROVE Well(r)'
  <2>1. KeepsClients(request[r])' /\ Explained(request[r])'
    <3>1. l \notin Touring => request[r].moved = <<>>
      BY <1>3 DEF Well, KeepsClients
    <3>2. request'[r].ok => l = "restoreTitles"
      BY <1>1, <1>3 DEF Well, KeepsClients, Running
    <3>3. request'[r].pc = l /\ UNCHANGED <<on, home>>
      BY <1>1 DEF Steps, Onward, SameTmux
    <3> QED
      BY <1>1, <1>3, <3>1, <3>2, <3>3, ClientsKept
  <2>2. KeepsTitles(request[r])'
    BY <1>1, <1>3 DEF Well, KeepsTitles, UsersTitles, Steps, SameSaved, SameTmux
  <2> QED
    BY <1>1, <2>1, <2>2 DEF Well, At, Steps
<1> QED
  BY <1>1, <1>2, <1>3, OneMoved

\* A step that concerns the options, and no client.
LEMMA OptionsMove ==
    ASSUME FocusAssumption, Inv, NEW r \in Requests, Running(r),
           NEW l \in Labels \ {"new", "attached", "attach", "switch", "look"},
           Steps(r, l), SameTour(r), Onward, on' = on, TmuxOK', Ready(request[r])',
           request'[r].ok = request[r].ok,
           request[r].pc \notin Touring,
           request[r].pc \in {"restoreTitles", "restoreFormat"} =>
               l \in {"restoreFormat", "end"},
           Calm /\ Calm' /\ KeepsTitles(request[r]) =>
               KeepsTitles(request[r])' /\ (l = "end" => UsersTitles')
    PROVE  Inv'
<1>1. ASSUME Calm, Calm', Well(r) PROVE Well(r)'
  <2>1. request[r].moved = <<>>
    BY <1>1 DEF Well, KeepsClients
  <2>2. request'[r].ok => l \in {"restoreFormat", "end"}
    BY <1>1 DEF Well, KeepsClients, Running, Touring
  <2>3. request'[r].pc = l /\ UNCHANGED <<on, home>>
    BY DEF Steps, Onward
  <2>4. KeepsClients(request[r])' /\ Explained(request[r])'
    BY <1>1, <2>1, <2>2, <2>3, ClientsKept
  <2> QED
    BY <1>1, <2>3, <2>4 DEF Well, At
<1> QED
  BY <1>1, OneMoved

-----------------------------------------------------------------------------
(* The first steps, to the search for the window.                          *)

LEMMA BeginInv ==
    ASSUME FocusAssumption, Inv, NEW r \in Requests, NEW p \in Panes, Begin(r, p)
    PROVE  Inv'
<1> DEFINE n == [request[r] EXCEPT !.pc = "attached", !.pane = p]
<1>1. /\ n \in RequestLocals /\ n.pc = "attached" /\ n.pane = p
      /\ n.moved = request[r].moved /\ n.ok = request[r].ok
  BY BeginFields DEF Inv, TypeInv, RequestsOK
<1>2. Sets(r, n) /\ SameTmux /\ At(r, "new")
  BY DEF Begin, SameTmux, tmuxVars
<1> HIDE DEF n
<1>3. /\ request' \in [Requests -> RequestLocals] /\ request'[r] = n
      /\ \A q \in Requests : q # r => request'[q] = request[q]
  BY <1>1, <1>2 DEF Sets, Inv, TypeInv, RequestsOK
<1>4. Ready(n)
  BY <1>1 DEF Ready, HasTitles, HasFormat
<1>5. TypeInv'
  <2>1. HistoryOK'
    BY DEF Begin, HistoryOK, Inv, TypeInv, TmuxOK
  <2>2. RequestsOK'
    BY <1>3, <1>4 DEF RequestsOK, Inv, TypeInv, Ready
  <2> QED
    BY <1>2, <2>1, <2>2, SameTmuxOK DEF Inv, TypeInv
<1>6. ASSUME ~overlapped' PROVE ~overlapped /\ Quiet
  BY <1>6 DEF Begin, Quiet
<1>7. ASSUME ~overlapped', NEW q \in Requests, Running(q)' PROVE q = r
  BY <1>3, <1>6, <1>7 DEF Quiet, Running
<1>8. Alone'
  BY <1>7 DEF Alone
<1>9. ~Quiet'
  BY <1>1, <1>3 DEF Quiet, Running
<1>10. ASSUME Calm' PROVE Calm /\ Quiet
  BY <1>6, <1>10 DEF Calm, Begin
<1>11. TitlesInv'
  <2>1. ASSUME Calm' PROVE UsersTitles'
    BY <1>2, <1>10, <2>1 DEF Inv, TitlesInv, Calm, UsersTitles, SameTmux
  <2>2. ASSUME Calm', NEW q \in Requests PROVE KeepsTitles(request[q])'
    <3>1. request'[q].pc \in {"attached", "new", "end"}
      BY <1>1, <1>3, <1>10, <2>2 DEF Quiet, Running
    <3> QED
      BY <2>1, <2>2, <3>1 DEF KeepsTitles, HasTitles, HasFormat
  <2> QED
    BY <1>9, <2>2 DEF TitlesInv, Calm
<1>12. ClientsInv'
  <2>1. ASSUME Calm', NEW q \in Requests PROVE KeepsClients(request[q])'
    <3>1. request[q].pc \in {"new", "end"} /\ KeepsClients(request[q])
      BY <1>10, <2>1 DEF Quiet, Running, Inv, ClientsInv, Calm
    <3>2. request[q].moved = <<>> /\ (request[q].ok => request[q].pc = "end")
      BY <3>1 DEF KeepsClients, Touring
    <3>3. Len(request[q].moved) = 0
      BY <3>2
    <3>4. on' = on /\ home' = on
      BY <1>2 DEF Begin, SameTmux
    <3>5. CASE q = r
      <4>1. request'[q].pc = "attached" /\ request'[q].moved = <<>> /\ ~request'[q].ok
        BY <1>1, <1>2, <1>3, <3>2, <3>5 DEF At
      <4> QED
        BY <3>3, <3>4, <4>1 DEF KeepsClients, Explained, Touring
    <3>6. CASE q # r
      BY <1>3, <3>1, <3>2, <3>3, <3>6 DEF KeepsClients, Touring
    <3> QED
      BY <3>5, <3>6
  <2> QED
    BY <1>9, <2>1 DEF ClientsInv, Calm
<1> QED
  BY <1>5, <1>8, <1>11, <1>12 DEF Inv

LEMMA NotFoundInv ==
    ASSUME FocusAssumption, Inv, NEW r \in Requests, NotFound(r)
    PROVE  Inv'
<1>1. PICK found \in BOOLEAN : Ends(r, found)
  BY DEF NotFound
<1>2. SameTmux /\ Onward /\ UNCHANGED unrestored /\ At(r, "new")
  BY HistoryStep DEF NotFound, Inv, TypeInv, Works
<1>3. Steps(r, "end")
  BY <1>1, EndsStep DEF Inv, TypeInv
<1>4. request'[r].moved = request[r].moved
  <2>1. request[r] \in RequestLocals
    BY DEF Inv, TypeInv, RequestsOK
  <2> DEFINE n == [request[r] EXCEPT !.pc = "end", !.ok = found]
  <2>2. n.moved = request[r].moved
    BY <2>1, EndsFields
  <2>3. Sets(r, n)
    BY <1>1 DEF Ends
  <2> HIDE DEF n
  <2> QED
    BY <2>2, <2>3 DEF Sets, Inv, TypeInv, RequestsOK
<1>5. TypeInv'
  <2>1. Ready(request[r])'
    BY <1>3 DEF Ready, Steps, HasTitles, HasFormat
  <2> QED
    BY <1>2, <1>3, <2>1, SameTmuxOK DEF Inv, TypeInv, RequestsOK, Steps, Ready, Onward
<1>6. \A q \in Requests : Running(q)' <=> Running(q)
  BY <1>2, <1>3 DEF Running, Steps, At
<1>7. Alone'
  BY <1>2, <1>6 DEF Inv, Alone, Onward
<1>8. (Quiet' <=> Quiet) /\ (Calm' <=> Calm)
  BY <1>2, <1>6 DEF Quiet, Calm, Onward
<1>9. TitlesInv'
  <2>1. ASSUME Calm', NEW q \in Requests PROVE KeepsTitles(request[q])'
    <3>1. KeepsTitles(request[q])
      BY <1>8, <2>1 DEF Inv, TitlesInv, Calm
    <3> QED
      BY <1>2, <1>3, <3>1
         DEF KeepsTitles, Steps, SameTmux, UsersTitles, Untouched, HasTitles, HasFormat
  <2>2. ASSUME Calm', Quiet' PROVE UsersTitles'
    BY <1>2, <1>8, <2>2 DEF Inv, TitlesInv, Calm, UsersTitles, SameTmux
  <2> QED
    BY <2>1, <2>2 DEF TitlesInv, Calm
<1>10. ClientsInv'
  <2>1. ASSUME Calm' PROVE \A q \in Requests : KeepsClients(request[q])
    BY <1>8, <2>1 DEF Inv, ClientsInv, Calm
  <2>2. ASSUME Calm', NEW q \in Requests PROVE KeepsClients(request[q])'
    <3>1. KeepsClients(request[q])
      BY <2>1, <2>2
    <3>2. CASE q = r
      <4>1. request'[q].pc = "end" /\ request'[q].moved = <<>>
        BY <1>2, <1>3, <1>4, <3>1, <3>2 DEF KeepsClients, Steps, At, Touring
      <4>2. Len(request'[q].moved) = 0
        BY <4>1
      <4> QED
        BY <4>1, <4>2 DEF KeepsClients, Touring
    <3>3. CASE q # r
      <4>1. request'[q] = request[q] /\ on' = on /\ home' = home
        BY <1>2, <1>3, <3>3 DEF Steps, SameTmux, Onward
      <4> QED
        BY <3>1, <4>1 DEF KeepsClients, Explained, Taken, ToReturn, Raised
    <3> QED
      BY <3>2, <3>3
  <2>3. ASSUME Calm', Quiet' PROVE Returned'
    <3>1. Returned /\ on' = on /\ home' = home
      BY <1>2, <1>8, <2>3 DEF Inv, ClientsInv, Calm, SameTmux, Onward
    <3>2. \A q \in Requests : request[q].pane # None => request'[q] = request[q]
      BY <1>2, <1>3 DEF Inv, TypeInv, RequestsOK, Ready, Steps, At
    <3> QED
      BY <3>1, <3>2 DEF Returned, Taken, Raised
  <2> QED
    BY <2>2, <2>3 DEF ClientsInv, Calm
<1> QED
  BY <1>5, <1>7, <1>9, <1>10 DEF Inv

LEMMA AttachedInv ==
    ASSUME FocusAssumption, Inv, NEW r \in Requests, Attached(r)
    PROVE  Inv'
<1> DEFINE shows == \E c \in Clients : on[c] = request[r].pane.session
<1>1. request[r].pc = "attached" /\ Running(r)
  BY DEF Attached, At, Running
<1>2. CASE Ends(r, FALSE) /\ Fails
  <2>1. SameTmux /\ Onward
    BY <1>2, HistoryStep DEF Fails, Inv, TypeInv, SameTmux, tmuxVars
  <2> QED
    BY <1>1, <1>2, <2>1, EndsUntouched DEF Untouched
<1>3. ASSUME Goto(r, IF shows THEN "select" ELSE "attach"), Query, Works PROVE Inv'
  <2>1. SameTmux /\ Onward
    BY <1>3, HistoryStep DEF Inv, TypeInv
  <2>2. CASE shows
    <3>1. Goto(r, "select")
      BY <1>3, <2>2
    <3> QED
      BY <1>1, <2>1, <3>1, GoesOn DEF Labels, Untouched, HasTitles, HasFormat, Touring
  <2>3. CASE ~shows
    <3>1. Goto(r, "attach")
      BY <1>3, <2>3
    <3>2. Steps(r, "attach") /\ SameTour(r) /\ request'[r].ok = request[r].ok
      BY <3>1, GotoStep DEF Labels, Inv, TypeInv
    <3>3. TmuxOK' /\ Ready(request[r])'
      BY <1>1, <2>1, <3>2, SameTmuxOK
         DEF Inv, TypeInv, RequestsOK, Ready, Steps, HasTitles, HasFormat
    <3>4. ASSUME Calm, Calm', Well(r) PROVE Well(r)'
      <4>1. on = home /\ request[r].moved = <<>> /\ ~request[r].ok /\ UsersTitles
        BY <1>1, <3>4 DEF Well, KeepsClients, KeepsTitles, Untouched, Touring
      <4>2. Len(request[r].moved) = 0
        BY <4>1
      <4>3. on' = home' /\ on' = on
        BY <2>1, <4>1 DEF SameTmux, Onward
      <4>4. KeepsClients(request[r])' /\ Explained(request[r])'
        BY <2>3, <3>2, <4>1, <4>2, <4>3 DEF KeepsClients, Explained, Steps, SameTour, Touring
      <4>5. KeepsTitles(request[r])'
        BY <2>1, <3>2, <4>1
           DEF KeepsTitles, UsersTitles, Steps, SameTmux, HasTitles, HasFormat
      <4> QED
        BY <3>2, <4>4, <4>5 DEF Well, At, Steps
    <3> QED
      BY <1>1, <2>1, <3>2, <3>3, <3>4, OneMoved DEF Labels
  <2> QED
    BY <2>2, <2>3
<1> QED
  BY <1>2, <1>3 DEF Attached

LEMMA AttachInv ==
    ASSUME FocusAssumption, Inv, NEW r \in Requests, Attach(r)
    PROVE  Inv'
<1>1. request[r].pc = "attach" /\ Running(r)
  BY DEF Attach, At, Running
<1>2. CASE Ends(r, FALSE) /\ Fails
  <2>1. SameTmux /\ Onward
    BY <1>2, HistoryStep DEF Fails, Inv, TypeInv, SameTmux, tmuxVars
  <2> QED
    BY <1>1, <1>2, <2>1, EndsUntouched DEF Untouched
<1>3. CASE Ends(r, FALSE) /\ Query /\ Works
  <2>1. SameTmux /\ Onward
    BY <1>3, HistoryStep DEF Inv, TypeInv
  <2> QED
    BY <1>1, <1>3, <2>1, EndsUntouched DEF Untouched
<1>4. ASSUME TmuxClients # <<>>, Goto(r, "select"), Works,
             SwitchClient(TmuxClients[1], request[r].pane.session)
      PROVE  Inv'
  <2> DEFINE c == TmuxClients[1]
             s == request[r].pane.session
  <2>1. c \in Clients
    BY <1>4 DEF Clients, ToSet, FocusAssumption
  <2>2. request[r].pane \in Panes /\ s \in TmuxSessions
    BY <1>1 DEF Inv, TypeInv, RequestsOK, Ready, TmuxSessions
  <2>3. /\ TmuxOK' /\ titles' = titles /\ format' = format
        /\ on'[c] = s /\ \A d \in Clients : d # c => on'[d] = on[d]
    BY <1>4, <2>1, <2>2, SwitchTmux DEF Inv, TypeInv
  <2>4. Onward
    BY <1>4, HistoryStep DEF Inv, TypeInv
  <2>5. Steps(r, "select") /\ SameTour(r) /\ request'[r].ok = request[r].ok
    BY <1>4, GotoStep DEF Labels, Inv, TypeInv
  <2>6. Ready(request[r])'
    BY <2>2, <2>5 DEF Ready, Steps, HasTitles, HasFormat
  <2>7. ASSUME Calm, Calm', Well(r) PROVE Well(r)'
    <3>1. /\ on = home /\ request[r].moved = <<>> /\ ~request[r].ok /\ UsersTitles
          /\ \A d \in Clients : home[d] # s
      BY <1>1, <2>7 DEF Well, KeepsClients, KeepsTitles, Untouched, Touring
    <3>2. \A d \in Clients : on'[d] # home'[d] => d = c
      BY <2>3, <2>4, <3>1 DEF Onward
    <3>3. Taken(request[r], c)'
      BY <2>3, <2>4, <2>5, <3>1 DEF Taken, Onward, Steps
    <3>4. Explained(request[r])'
      BY <3>2, <3>3 DEF Explained
    <3>5. request'[r].moved = <<>> /\ ~request'[r].ok /\ request'[r].pc = "select"
      BY <2>5, <3>1 DEF SameTour, Steps
    <3>6. Len(request'[r].moved) = 0
      BY <3>5
    <3>7. KeepsClients(request[r])'
      BY <3>4, <3>5, <3>6 DEF KeepsClients, Touring
    <3>8. KeepsTitles(request[r])'
      BY <2>3, <3>1, <3>5 DEF KeepsTitles, UsersTitles, HasTitles, HasFormat
    <3> QED
      BY <3>4, <3>5, <3>7, <3>8 DEF Well, At
  <2> QED
    BY <1>1, <2>3, <2>4, <2>5, <2>6, <2>7, OneMoved DEF Labels
<1> QED
  BY <1>2, <1>3, <1>4 DEF Attach

LEMMA SelectInv ==
    ASSUME FocusAssumption, Inv, NEW r \in Requests, Select(r)
    PROVE  Inv'
<1>1. request[r].pc = "select" /\ Running(r)
  BY DEF Select, At, Running
<1>2. request[r].pane \in Panes
  BY <1>1 DEF Inv, TypeInv, RequestsOK, Ready
<1>3. SelectWindow(request[r].pane) => SameTmux
  BY <1>2, OptionsTmux DEF Inv, TypeInv
<1>4. CASE SelectWindow(request[r].pane) /\ Goto(r, "raise") /\ Works
  <2>1. Onward
    BY <1>4, HistoryStep DEF Inv, TypeInv
  <2> QED
    BY <1>1, <1>3, <1>4, <2>1, GoesOn DEF Labels, Untouched, HasTitles, HasFormat, Touring
<1>5. CASE Ends(r, FALSE) /\ Fails
  <2>1. SameTmux /\ Onward
    BY <1>5, HistoryStep DEF Fails, Inv, TypeInv, SameTmux, tmuxVars
  <2> QED
    BY <1>1, <1>5, <2>1, EndsUntouched DEF Untouched
<1>6. CASE SelectWindow(request[r].pane) /\ Ends(r, FALSE) /\ Failed
  <2>1. Onward
    BY <1>6, HistoryStep DEF Inv, TypeInv
  <2> QED
    BY <1>1, <1>3, <1>6, <2>1, EndsUntouched DEF Untouched
<1> QED
  BY <1>4, <1>5, <1>6 DEF Select

LEMMA RaiseInv ==
    ASSUME FocusAssumption, Inv, NEW r \in Requests, Raise(r)
    PROVE  Inv'
<1>1. request[r].pc = "raise" /\ Running(r)
  BY DEF Raise, At, Running
<1>2. SameTmux /\ Onward
  BY HistoryStep DEF Raise, Inv, TypeInv
<1>3. CASE Goto(r, "saveTitles")
  BY <1>1, <1>2, <1>3, GoesOn DEF Labels, Untouched, HasTitles, HasFormat, Touring
<1>4. CASE Ends(r, TRUE) \/ Ends(r, FALSE)
  BY <1>1, <1>2, <1>4, EndsUntouched DEF Untouched
<1> QED
  BY <1>3, <1>4 DEF Raise

-----------------------------------------------------------------------------
(* The options: read, changed and restored.                                *)

LEMMA SaveTitlesInv ==
    ASSUME FocusAssumption, Inv, NEW r \in Requests, SaveTitles(r)
    PROVE  Inv'
<1>1. request[r].pc = "saveTitles" /\ Running(r)
  BY DEF SaveTitles, At, Running
<1>2. CASE Ends(r, FALSE) /\ Fails
  <2>1. SameTmux /\ Onward
    BY <1>2, HistoryStep DEF Fails, Inv, TypeInv, SameTmux, tmuxVars
  <2> QED
    BY <1>1, <1>2, <2>1, EndsUntouched DEF Untouched
<1>3. ASSUME Sets(r, [Saved(request[r]) EXCEPT !.pc = "saveFormat"]), Query, Works
      PROVE  Inv'
  <2> DEFINE n == [Saved(request[r]) EXCEPT !.pc = "saveFormat"]
  <2>1. request[r] \in RequestLocals /\ titles \in {"on", "off"} /\ format \in {"own", "#S:#W"}
    BY DEF Inv, TypeInv, RequestsOK, TmuxOK
  <2>2. /\ n \in RequestLocals /\ n.pc = "saveFormat" /\ n.pane = request[r].pane
        /\ n.savedTitles = titles /\ n.client = request[r].client
        /\ n.moved = request[r].moved /\ n.ok = request[r].ok
    BY <2>1, SaveFields
  <2> HIDE DEF n
  <2>3. Steps(r, "saveFormat") /\ request'[r] = n
    BY <1>3, <2>2, SetsStep DEF Inv, TypeInv, n
  <2>4. SameTmux /\ Onward
    BY <1>3, HistoryStep DEF Inv, TypeInv
  <2>5. TmuxOK' /\ Ready(request[r])'
    BY <1>1, <2>1, <2>2, <2>3, <2>4, SameTmuxOK
       DEF Inv, TypeInv, RequestsOK, Ready, Running, HasTitles, HasFormat
  <2>6. ASSUME KeepsTitles(request[r]) PROVE KeepsTitles(request[r])'
    <3>1. UsersTitles
      BY <1>1, <2>6 DEF KeepsTitles, Untouched
    <3> QED
      BY <2>2, <2>3, <2>4, <3>1
         DEF KeepsTitles, UsersTitles, SameTmux, HasTitles, HasFormat
  <2>7. SameTour(r) /\ request'[r].ok = request[r].ok /\ on' = on
    BY <2>2, <2>3, <2>4 DEF SameTour, SameTmux
  <2> QED
    BY <1>1, <2>3, <2>4, <2>5, <2>6, <2>7, OptionsMove DEF Labels, Touring
<1> QED
  BY <1>2, <1>3 DEF SaveTitles

LEMMA SaveFormatInv ==
    ASSUME FocusAssumption, Inv, NEW r \in Requests, SaveFormat(r)
    PROVE  Inv'
<1>1. request[r].pc = "saveFormat" /\ Running(r)
  BY DEF SaveFormat, At, Running
<1>2. CASE Ends(r, FALSE) /\ Fails
  <2>1. SameTmux /\ Onward
    BY <1>2, HistoryStep DEF Fails, Inv, TypeInv, SameTmux, tmuxVars
  <2> QED
    BY <1>1, <1>2, <2>1, EndsUntouched DEF Untouched
<1>3. ASSUME Sets(r, [request[r] EXCEPT !.pc = "off", !.savedFormat = format]), Query, Works
      PROVE  Inv'
  <2> DEFINE n == [request[r] EXCEPT !.pc = "off", !.savedFormat = format]
  <2>1. request[r] \in RequestLocals /\ titles \in {"on", "off"} /\ format \in {"own", "#S:#W"}
    BY DEF Inv, TypeInv, RequestsOK, TmuxOK
  <2>2. /\ n \in RequestLocals /\ n.pc = "off" /\ n.pane = request[r].pane
        /\ n.savedTitles = request[r].savedTitles /\ n.savedFormat = format
        /\ n.client = request[r].client /\ n.moved = request[r].moved /\ n.ok = request[r].ok
    BY <2>1, SaveFields
  <2> HIDE DEF n
  <2>3. Steps(r, "off") /\ request'[r] = n
    BY <1>3, <2>2, SetsStep DEF Inv, TypeInv, n
  <2>4. SameTmux /\ Onward
    BY <1>3, HistoryStep DEF Inv, TypeInv
  <2>5. TmuxOK' /\ Ready(request[r])'
    BY <1>1, <2>1, <2>2, <2>3, <2>4, SameTmuxOK
       DEF Inv, TypeInv, RequestsOK, Ready, Running, HasTitles, HasFormat
  <2>6. ASSUME KeepsTitles(request[r]) PROVE KeepsTitles(request[r])'
    <3>1. UsersTitles /\ request[r].savedTitles = UserTitles
      BY <1>1, <2>6 DEF KeepsTitles, Untouched, HasTitles
    <3> QED
      BY <2>2, <2>3, <2>4, <3>1
         DEF KeepsTitles, UsersTitles, SameTmux, HasTitles, HasFormat
  <2>7. SameTour(r) /\ request'[r].ok = request[r].ok /\ on' = on
    BY <2>2, <2>3, <2>4 DEF SameTour, SameTmux
  <2> QED
    BY <1>1, <2>3, <2>4, <2>5, <2>6, <2>7, OptionsMove DEF Labels, Touring
<1> QED
  BY <1>2, <1>3 DEF SaveFormat

LEMMA TitlesOffInv ==
    ASSUME FocusAssumption, Inv, NEW r \in Requests, TitlesOff(r)
    PROVE  Inv'
<1>1. request[r].pc = "off" /\ Running(r)
  BY DEF TitlesOff, At, Running
<1>2. CASE Goto(r, "format") /\ Fails
  <2>1. SameTmux /\ Onward
    BY <1>2, HistoryStep DEF Fails, Inv, TypeInv, SameTmux, tmuxVars
  <2> QED
    BY <1>1, <1>2, <2>1, GoesOn DEF Labels, Untouched, HasTitles, HasFormat, Touring
<1>3. ASSUME Goto(r, "format"), SetTitles("off"), Works PROVE Inv'
  <2>1. /\ Steps(r, "format") /\ SameSaved(r) /\ SameTour(r)
        /\ request'[r].ok = request[r].ok
    BY <1>3, GotoStep DEF Labels, Inv, TypeInv
  <2>2. TmuxOK' /\ on' = on
    BY <1>3, OptionsTmux DEF Inv, TypeInv
  <2>3. Onward
    BY <1>3, HistoryStep DEF Inv, TypeInv
  <2>4. Ready(request[r])'
    BY <1>1, <2>1 DEF Inv, TypeInv, RequestsOK, Ready, Steps, SameSaved, Running,
                      HasTitles, HasFormat
  <2>5. ASSUME KeepsTitles(request[r]) PROVE KeepsTitles(request[r])'
    BY <1>1, <2>1, <2>5
       DEF KeepsTitles, Steps, SameSaved, Untouched, HasTitles, HasFormat
  <2> QED
    BY <1>1, <2>1, <2>2, <2>3, <2>4, <2>5, OptionsMove DEF Labels, Touring
<1> QED
  BY <1>2, <1>3 DEF TitlesOff

LEMMA SetOurFormatInv ==
    ASSUME FocusAssumption, Inv, NEW r \in Requests, SetOurFormat(r)
    PROVE  Inv'
<1>1. request[r].pc = "format" /\ Running(r)
  BY DEF SetOurFormat, At, Running
<1>2. CASE Goto(r, "restoreTitles") /\ Fails
  <2>1. SameTmux /\ Onward
    BY <1>2, HistoryStep DEF Fails, Inv, TypeInv, SameTmux, tmuxVars
  <2> QED
    BY <1>1, <1>2, <2>1, GoesOn DEF Labels, Untouched, HasTitles, HasFormat, Touring
<1>3. ASSUME Goto(r, "on"), SetFormat("#S:#W"), Works PROVE Inv'
  <2>1. /\ Steps(r, "on") /\ SameSaved(r) /\ SameTour(r)
        /\ request'[r].ok = request[r].ok
    BY <1>3, GotoStep DEF Labels, Inv, TypeInv
  <2>2. TmuxOK' /\ on' = on
    BY <1>3, OptionsTmux DEF Inv, TypeInv
  <2>3. Onward
    BY <1>3, HistoryStep DEF Inv, TypeInv
  <2>4. Ready(request[r])'
    BY <1>1, <2>1 DEF Inv, TypeInv, RequestsOK, Ready, Steps, SameSaved, Running,
                      HasTitles, HasFormat
  <2>5. ASSUME KeepsTitles(request[r]) PROVE KeepsTitles(request[r])'
    BY <1>1, <2>1, <2>5
       DEF KeepsTitles, Steps, SameSaved, Untouched, HasTitles, HasFormat
  <2> QED
    BY <1>1, <2>1, <2>2, <2>3, <2>4, <2>5, OptionsMove DEF Labels, Touring
<1> QED
  BY <1>2, <1>3 DEF SetOurFormat

LEMMA TitlesOnInv ==
    ASSUME FocusAssumption, Inv, NEW r \in Requests, TitlesOn(r)
    PROVE  Inv'
<1>1. request[r].pc = "on" /\ Running(r)
  BY DEF TitlesOn, At, Running
<1>2. CASE Goto(r, "restoreTitles") /\ Fails
  <2>1. SameTmux /\ Onward
    BY <1>2, HistoryStep DEF Fails, Inv, TypeInv, SameTmux, tmuxVars
  <2> QED
    BY <1>1, <1>2, <2>1, GoesOn DEF Labels, Untouched, HasTitles, HasFormat, Touring
<1>3. ASSUME Goto(r, "clients"), SetTitles("on"), Works PROVE Inv'
  <2>1. /\ Steps(r, "clients") /\ SameSaved(r) /\ SameTour(r)
        /\ request'[r].ok = request[r].ok
    BY <1>3, GotoStep DEF Labels, Inv, TypeInv
  <2>2. TmuxOK' /\ on' = on
    BY <1>3, OptionsTmux DEF Inv, TypeInv
  <2>3. Onward
    BY <1>3, HistoryStep DEF Inv, TypeInv
  <2>4. Ready(request[r])'
    BY <1>1, <2>1 DEF Inv, TypeInv, RequestsOK, Ready, Steps, SameSaved, Running,
                      HasTitles, HasFormat
  <2>5. ASSUME KeepsTitles(request[r]) PROVE KeepsTitles(request[r])'
    BY <1>1, <2>1, <2>5
       DEF KeepsTitles, Steps, SameSaved, Untouched, HasTitles, HasFormat
  <2> QED
    BY <1>1, <2>1, <2>2, <2>3, <2>4, <2>5, OptionsMove DEF Labels, Touring
<1> QED
  BY <1>2, <1>3 DEF TitlesOn

LEMMA ListClientsInv ==
    ASSUME FocusAssumption, Inv, NEW r \in Requests, ListClients(r)
    PROVE  Inv'
<1>1. request[r].pc = "clients" /\ Running(r)
  BY DEF ListClients, At, Running
<1>2. CASE GiveUp(r) /\ Fails
  <2>1. SameTmux /\ Onward
    BY <1>2, HistoryStep DEF Fails, Inv, TypeInv, SameTmux, tmuxVars
  <2>2. Goto(r, "restoreTitles")
    BY <1>2 DEF GiveUp
  <2> QED
    BY <1>1, <2>1, <2>2, GoesOn DEF Labels, Untouched, HasTitles, HasFormat, Touring
<1>3. ASSUME Sets(r, [request[r] EXCEPT !.pc = "try", !.todo = TmuxClients]), Query, Works
      PROVE  Inv'
  <2> DEFINE n == [request[r] EXCEPT !.pc = "try", !.todo = TmuxClients]
  <2>1. request[r] \in RequestLocals /\ TmuxClients \in Seq(Clients)
    BY DEF Inv, TypeInv, RequestsOK, FocusAssumption, Clients
  <2>2. /\ n \in RequestLocals /\ n.pc = "try" /\ n.pane = request[r].pane
        /\ n.savedTitles = request[r].savedTitles /\ n.savedFormat = request[r].savedFormat
        /\ n.client = request[r].client /\ n.moved = request[r].moved /\ n.ok = request[r].ok
    BY <2>1, ListFields
  <2> HIDE DEF n
  <2>3. Steps(r, "try") /\ request'[r] = n
    BY <1>3, <2>2, SetsStep DEF Inv, TypeInv, n
  <2>4. SameTmux /\ Onward
    BY <1>3, HistoryStep DEF Inv, TypeInv
  <2>5. TmuxOK' /\ Ready(request[r])'
    BY <1>1, <2>1, <2>2, <2>3, <2>4, SameTmuxOK
       DEF Inv, TypeInv, RequestsOK, Ready, Running, HasTitles, HasFormat
  <2>6. ASSUME KeepsTitles(request[r]) PROVE KeepsTitles(request[r])'
    BY <1>1, <2>2, <2>3, <2>6 DEF KeepsTitles, Untouched, HasTitles, HasFormat
  <2>7. SameTour(r) /\ request'[r].ok = request[r].ok /\ on' = on
    BY <2>2, <2>3, <2>4 DEF SameTour, SameTmux
  <2> QED
    BY <1>1, <2>3, <2>4, <2>5, <2>6, <2>7, OptionsMove DEF Labels, Touring
<1> QED
  BY <1>2, <1>3 DEF ListClients

LEMMA RestoreTitlesInv ==
    ASSUME FocusAssumption, Inv, NEW r \in Requests, RestoreTitles(r)
    PROVE  Inv'
<1>1. request[r].pc = "restoreTitles" /\ Running(r)
  BY DEF RestoreTitles, At, Running
<1>2. request[r].savedTitles \in {"on", "off"}
  BY <1>1 DEF Inv, TypeInv, RequestsOK, Ready, HasTitles
<1>3. /\ Steps(r, "restoreFormat") /\ SameSaved(r) /\ SameTour(r)
      /\ request'[r].ok = request[r].ok
  BY GotoStep DEF RestoreTitles, Labels, Inv, TypeInv
<1>4. Ready(request[r])'
  BY <1>1, <1>3 DEF Inv, TypeInv, RequestsOK, Ready, Steps, SameSaved, Running,
                    HasTitles, HasFormat
<1>5. CASE SetTitles(request[r].savedTitles) /\ Works
  <2>1. TmuxOK' /\ titles' = request[r].savedTitles /\ on' = on
    BY <1>2, <1>5, OptionsTmux DEF Inv, TypeInv
  <2>2. Onward
    BY <1>5, HistoryStep DEF Inv, TypeInv
  <2>3. ASSUME KeepsTitles(request[r]) PROVE KeepsTitles(request[r])'
    BY <1>1, <1>3, <2>1, <2>3
       DEF KeepsTitles, Steps, SameSaved, Untouched, HasTitles, HasFormat
  <2> QED
    BY <1>1, <1>3, <1>4, <2>1, <2>2, <2>3, OptionsMove DEF Labels, Touring
<1>6. CASE RestoreFails
  <2>1. Onward /\ SameTmux /\ unrestored' /\ TmuxOK' /\ on' = on
    BY <1>6, HistoryStep, SameTmuxOK DEF Inv, TypeInv, SameTmux
  <2>2. ~Calm'
    BY <2>1 DEF Calm
  <2> QED
    BY <1>1, <1>3, <1>4, <2>1, <2>2, OptionsMove DEF Labels, Touring
<1> QED
  BY <1>5, <1>6 DEF RestoreTitles

LEMMA RestoreFormatInv ==
    ASSUME FocusAssumption, Inv, NEW r \in Requests, RestoreFormat(r)
    PROVE  Inv'
<1>1. request[r].pc = "restoreFormat" /\ Running(r)
  BY DEF RestoreFormat, At, Running
<1>2. request[r].savedFormat \in {"own", "#S:#W"}
  BY <1>1 DEF Inv, TypeInv, RequestsOK, Ready, HasFormat
<1>3. /\ Steps(r, "end") /\ SameSaved(r) /\ SameTour(r)
      /\ request'[r].ok = request[r].ok
  BY GotoStep DEF RestoreFormat, Labels, Inv, TypeInv
<1>4. Ready(request[r])'
  BY <1>3 DEF Ready, Steps, HasTitles, HasFormat
<1>5. CASE SetFormat(request[r].savedFormat) /\ Works
  <2>1. TmuxOK' /\ titles' = titles /\ format' = request[r].savedFormat /\ on' = on
    BY <1>2, <1>5, OptionsTmux DEF Inv, TypeInv
  <2>2. Onward
    BY <1>5, HistoryStep DEF Inv, TypeInv
  <2>3. ASSUME KeepsTitles(request[r]) PROVE KeepsTitles(request[r])' /\ UsersTitles'
    BY <1>1, <1>3, <2>1, <2>3
       DEF KeepsTitles, UsersTitles, Steps, Untouched, HasTitles, HasFormat
  <2> QED
    BY <1>1, <1>3, <1>4, <2>1, <2>2, <2>3, OptionsMove DEF Labels, Touring
<1>6. CASE RestoreFails
  <2>1. Onward /\ SameTmux /\ unrestored' /\ TmuxOK' /\ on' = on
    BY <1>6, HistoryStep, SameTmuxOK DEF Inv, TypeInv, SameTmux
  <2>2. ~Calm'
    BY <2>1 DEF Calm
  <2> QED
    BY <1>1, <1>3, <1>4, <2>1, <2>2, OptionsMove DEF Labels, Touring
<1> QED
  BY <1>5, <1>6 DEF RestoreFormat

-----------------------------------------------------------------------------
(* The tour of the clients and their return.                               *)

\* The tour goes on with another client, and none has moved yet.
LEMMA TurnMove ==
    ASSUME FocusAssumption, Inv, NEW r \in Requests, request[r].pc = "try",
           NEW l \in {"try", "switch", "look"}, Steps(r, l), SameSaved(r), Onward, SameTmux,
           Ready(request[r])', request'[r].moved = request[r].moved,
           request'[r].ok = request[r].ok,
           l = "look" => on[request'[r].client] = request[r].pane.session,
           l = "switch" => /\ request'[r].was = on[request'[r].client]
                           /\ on[request'[r].client] # request[r].pane.session
    PROVE  Inv'
<1>1. Running(r) /\ TmuxOK'
  BY SameTmuxOK DEF Running, Inv, TypeInv
<1>2. ASSUME Calm, Calm', Well(r) PROVE Well(r)'
  <2>1. ~request[r].ok
    BY <1>2 DEF Well, KeepsClients
  <2>2. Explained(request[r])'
    BY <1>2, <2>1
       DEF Well, Explained, Taken, ToReturn, Raised, Steps, SameTmux, Onward
  <2>3. l = "switch" => request'[r].client \in Clients
    BY DEF Ready, Steps
  <2>4. l = "switch" => on[request'[r].client] = home[request'[r].client]
    BY <1>2, <2>1, <2>3 DEF Well, Explained, Taken, ToReturn, Raised
  <2>5. KeepsClients(request[r])'
    BY <1>2, <2>1, <2>2, <2>4 DEF Well, KeepsClients, Steps, SameTmux, Onward, Touring
  <2>6. KeepsTitles(request[r])'
    BY <1>2 DEF Well, KeepsTitles, Steps, SameSaved, Untouched, HasTitles, HasFormat
  <2> QED
    BY <2>2, <2>5, <2>6 DEF Well, At, Steps
<1> QED
  BY <1>1, <1>2, OneMoved DEF Labels

LEMMA TryClientInv ==
    ASSUME FocusAssumption, Inv, NEW r \in Requests, TryClient(r)
    PROVE  Inv'
<1> DEFINE q == request[r]
           c == Head(q.todo)
           turn == [q EXCEPT !.todo = Tail(@), !.client = c]
<1>1. q.pc = "try" /\ Running(r) /\ q \in RequestLocals /\ Ready(q)
  BY DEF TryClient, At, Running, Inv, TypeInv, RequestsOK
<1>2. CASE q.todo = <<>>
  <2>1. Goto(r, "return") /\ Query /\ Works
    BY <1>2 DEF TryClient
  <2>2. SameTmux /\ Onward
    BY <2>1, HistoryStep DEF Inv, TypeInv
  <2> QED
    BY <1>1, <2>1, <2>2, GoesOn DEF Labels, Untouched, HasTitles, HasFormat, Touring
<1>3. CASE q.todo # <<>>
  <2>1. /\ turn \in RequestLocals /\ c \in Clients
        /\ turn.pc = q.pc /\ turn.pane = q.pane /\ turn.client = c
        /\ turn.savedTitles = q.savedTitles /\ turn.savedFormat = q.savedFormat
        /\ turn.moved = q.moved /\ turn.ok = q.ok
    BY <1>1, <1>3, TurnFields
  <2>2. \/ on[c] = q.pane.session /\ Sets(r, [turn EXCEPT !.pc = "look"]) /\ Query /\ Works
        \/ /\ on[c] # q.pane.session
           /\ Sets(r, [turn EXCEPT !.pc = "switch", !.was = on[c]]) /\ Query /\ Works
        \/ Sets(r, turn) /\ Fails
    BY <1>3 DEF TryClient
  <2>3. on[c] \in TmuxSessions
    BY <2>1 DEF Inv, TypeInv, TmuxOK
  <2> HIDE DEF turn, c
  <2>4. SameTmux /\ Onward
    BY <2>2, HistoryStep DEF Fails, Inv, TypeInv, SameTmux, tmuxVars
  <2>5. ASSUME on[c] = q.pane.session, Sets(r, [turn EXCEPT !.pc = "look"]) PROVE Inv'
    <3> DEFINE n == [turn EXCEPT !.pc = "look"]
    <3>1. /\ n \in RequestLocals /\ n.pc = "look" /\ n.pane = turn.pane
          /\ n.savedTitles = turn.savedTitles /\ n.savedFormat = turn.savedFormat
          /\ n.client = turn.client /\ n.moved = turn.moved /\ n.ok = turn.ok
      BY <2>1, GotoFields DEF Labels
    <3> HIDE DEF n
    <3>2. Steps(r, "look") /\ request'[r] = n
      BY <2>1, <2>5, <3>1, SetsStep, ZenonT(40) DEF Inv, TypeInv, n
    <3>3. SameSaved(r) /\ request'[r].moved = q.moved /\ request'[r].ok = q.ok
      BY <2>1, <3>1, <3>2 DEF SameSaved
    <3>4. Ready(request[r])'
      BY <1>1, <2>1, <3>1, <3>2 DEF Ready, HasTitles, HasFormat
    <3> QED
      BY <1>1, <2>1, <2>4, <2>5, <3>1, <3>2, <3>3, <3>4, TurnMove
  <2>6. ASSUME on[c] # q.pane.session, Sets(r, [turn EXCEPT !.pc = "switch", !.was = on[c]])
        PROVE  Inv'
    <3> DEFINE n == [turn EXCEPT !.pc = "switch", !.was = on[c]]
    <3>1. /\ n \in RequestLocals /\ n.pc = "switch" /\ n.pane = turn.pane
          /\ n.savedTitles = turn.savedTitles /\ n.savedFormat = turn.savedFormat
          /\ n.client = turn.client /\ n.was = on[c] /\ n.moved = turn.moved
          /\ n.ok = turn.ok
      BY <2>1, <2>3, SwitchFields
    <3>2. Sets(r, n)
      BY <2>6
    <3> HIDE DEF n
    <3>3. Steps(r, "switch") /\ request'[r] = n
      BY <2>1, <3>1, <3>2, SetsStep DEF Inv, TypeInv
    <3>4. SameSaved(r) /\ request'[r].moved = q.moved /\ request'[r].ok = q.ok
      BY <2>1, <3>1, <3>3 DEF SameSaved
    <3>5. Ready(request[r])'
      BY <1>1, <2>1, <2>3, <3>1, <3>3 DEF Ready, HasTitles, HasFormat
    <3> QED
      BY <1>1, <2>1, <2>4, <2>6, <3>1, <3>3, <3>4, <3>5, TurnMove
  <2>7. ASSUME Sets(r, turn) PROVE Inv'
    <3>1. Steps(r, "try") /\ request'[r] = turn
      BY <1>1, <2>1, <2>7, SetsStep DEF Inv, TypeInv
    <3>2. SameSaved(r) /\ request'[r].moved = q.moved /\ request'[r].ok = q.ok
      BY <2>1, <3>1 DEF SameSaved
    <3>3. Ready(request[r])'
      BY <1>1, <2>1, <3>1 DEF Ready, HasTitles, HasFormat
    <3> QED
      BY <1>1, <2>4, <3>1, <3>2, <3>3, TurnMove
  <2> QED
    BY <2>2, <2>5, <2>6, <2>7
<1> QED
  BY <1>2, <1>3

LEMMA SwitchTriedInv ==
    ASSUME FocusAssumption, Inv, NEW r \in Requests, SwitchTried(r)
    PROVE  Inv'
<1> DEFINE q == request[r]
           m == [client |-> q.client, to |-> q.was]
           n == [q EXCEPT !.pc = "look", !.moved = Append(@, m)]
<1>1. q.pc = "switch" /\ Running(r) /\ q \in RequestLocals /\ Ready(q)
  BY DEF SwitchTried, At, Running, Inv, TypeInv, RequestsOK
<1>2. CASE Goto(r, "try") /\ Fails
  <2>1. SameTmux /\ Onward
    BY <1>2, HistoryStep DEF Fails, Inv, TypeInv, SameTmux, tmuxVars
  <2> QED
    BY <1>1, <1>2, <2>1, GoesOn DEF Labels, Untouched, HasTitles, HasFormat, Touring
<1>3. ASSUME SwitchClient(q.client, q.pane.session), Sets(r, n), Works PROVE Inv'
  <2>1. /\ q.client \in Clients /\ q.was \in TmuxSessions
        /\ q.pane \in Panes /\ q.pane.session \in TmuxSessions
    BY <1>1 DEF Ready, TmuxSessions
  <2>2. m \in Moves /\ m.client = q.client /\ m.to = q.was /\ q.moved \in Seq(Moves)
    BY <1>1, <2>1 DEF Moves, RequestLocals
  <2> HIDE DEF m
  <2>3. /\ n \in RequestLocals /\ n.pc = "look" /\ n.pane = q.pane
        /\ n.savedTitles = q.savedTitles /\ n.savedFormat = q.savedFormat
        /\ n.client = q.client /\ n.moved = Append(q.moved, m) /\ n.ok = q.ok
    BY <1>1, <2>2, SwitchedFields
  <2> HIDE DEF n
  <2>4. Steps(r, "look") /\ request'[r] = n
    BY <1>3, <2>3, SetsStep DEF Inv, TypeInv
  <2>5. /\ TmuxOK' /\ titles' = titles /\ format' = format
        /\ on'[q.client] = q.pane.session
        /\ \A d \in Clients : d # q.client => on'[d] = on[d]
    BY <1>3, <2>1, SwitchTmux DEF Inv, TypeInv
  <2>6. Onward
    BY <1>3, HistoryStep DEF Inv, TypeInv
  <2>7. Ready(request[r])'
    BY <1>1, <2>1, <2>3, <2>4 DEF Ready, HasTitles, HasFormat
  <2>8. /\ Len(n.moved) = Len(q.moved) + 1 /\ Len(q.moved) \in Nat
        /\ n.moved[Len(q.moved) + 1] = m
        /\ \A i \in 1..Len(q.moved) : n.moved[i] = q.moved[i]
    BY <2>2, <2>3
  <2>9. ASSUME Calm, Calm', Well(r) PROVE Well(r)'
    <3>1. ~q.ok /\ q.was = home[q.client]
      BY <1>1, <2>9 DEF Well, KeepsClients
    <3>2. \A i \in 1..Len(n.moved) : n.moved[i].to = home'[n.moved[i].client]
      <4>1. \A i \in 1..Len(q.moved) : q.moved[i].to = home[q.moved[i].client]
        BY <2>9 DEF Well, KeepsClients
      <4>2. \A i \in 1..Len(n.moved) : i \in 1..Len(q.moved) \/ i = Len(q.moved) + 1
        BY <2>8
      <4> QED
        BY <2>2, <2>6, <2>8, <3>1, <4>1, <4>2 DEF Onward
    <3>3. ASSUME NEW d \in Clients, on'[d] # home'[d]
          PROVE  (Taken(request[r], d) \/ ToReturn(request[r], d))'
      <4>1. CASE d = q.client
        <5>1. Len(q.moved) + 1 \in 1..Len(n.moved)
          BY <2>8
        <5>2. ToReturn(request[r], d)'
          BY <2>2, <2>3, <2>4, <2>5, <2>8, <4>1, <5>1 DEF ToReturn
        <5> QED
          BY <5>2
      <4>2. CASE d # q.client
        <5>1. on'[d] = on[d] /\ home' = home
          BY <2>5, <2>6, <4>2 DEF Onward
        <5>2. Taken(q, d) \/ ToReturn(q, d)
          BY <2>9, <3>1, <3>3, <5>1 DEF Well, Explained, Raised
        <5>3. ToReturn(q, d) => ToReturn(request[r], d)'
          BY <2>3, <2>4, <2>8, <5>1 DEF ToReturn
        <5>4. Taken(q, d) => Taken(request[r], d)'
          BY <2>3, <2>4, <5>1 DEF Taken
        <5> QED
          BY <5>2, <5>3, <5>4
      <4> QED
        BY <4>1, <4>2
    <3>4. Explained(request[r])'
      BY <3>3 DEF Explained
    <3>5. KeepsClients(request[r])'
      BY <2>3, <2>4, <2>5, <3>1, <3>2, <3>4 DEF KeepsClients, Touring
    <3>6. KeepsTitles(request[r])'
      BY <1>1, <2>3, <2>4, <2>9 DEF Well, KeepsTitles, Untouched, HasTitles, HasFormat
    <3> QED
      BY <2>3, <2>4, <3>4, <3>5, <3>6 DEF Well, At
  <2> QED
    BY <1>1, <2>4, <2>5, <2>6, <2>7, <2>9, OneMoved DEF Labels
<1> QED
  BY <1>2, <1>3 DEF SwitchTried

LEMMA LookInv ==
    ASSUME FocusAssumption, Inv, NEW r \in Requests, Look(r)
    PROVE  Inv'
<1> DEFINE q == request[r]
           n == [Stays(q) EXCEPT !.pc = "return", !.ok = TRUE]
<1>1. q.pc = "look" /\ Running(r) /\ q \in RequestLocals /\ Ready(q)
  BY DEF Look, At, Running, Inv, TypeInv, RequestsOK
<1>2. SameTmux /\ Onward
  BY HistoryStep DEF Look, Inv, TypeInv
<1>3. CASE Sets(r, [GoesBack(q) EXCEPT !.pc = "try"])
  <2>1. Goto(r, "try")
    BY <1>3 DEF Goto, GoesBack
  <2> QED
    BY <1>1, <1>2, <2>1, GoesOn DEF Labels, Untouched, HasTitles, HasFormat, Touring
<1>4. ASSUME Sets(r, n) PROVE Inv'
  <2> DEFINE last == Len(q.moved)
  <2>1. /\ n \in RequestLocals /\ n.pc = "return" /\ n.pane = q.pane
        /\ n.savedTitles = q.savedTitles /\ n.savedFormat = q.savedFormat
        /\ n.client = q.client /\ n.ok
        /\ n.moved = IF Switched(q) THEN SubSeq(q.moved, 1, last - 1) ELSE q.moved
    BY <1>1, StaysFields
  <2> HIDE DEF n
  <2>2. q.moved \in Seq(Moves) /\ last \in Nat
    BY <1>1 DEF RequestLocals
  <2>3. Switched(q) => last >= 1 /\ q.moved[last].client = q.client
    BY <2>2 DEF Switched
  <2>4. /\ Len(n.moved) = IF Switched(q) THEN last - 1 ELSE last
        /\ \A i \in 1..Len(n.moved) : i \in 1..last /\ n.moved[i] = q.moved[i]
    <3>1. CASE Switched(q)
      BY <2>1, <2>2, <2>3, <3>1
    <3>2. CASE ~Switched(q)
      BY <2>1, <2>2, <3>2
    <3> QED
      BY <3>1, <3>2
  <2>5. Steps(r, "return") /\ request'[r] = n
    BY <1>4, <2>1, SetsStep DEF Inv, TypeInv
  <2>6. TmuxOK' /\ Ready(request[r])'
    BY <1>1, <1>2, <2>1, <2>5, SameTmuxOK DEF Inv, TypeInv, Ready, HasTitles, HasFormat
  <2>7. ASSUME Calm, Calm', Well(r) PROVE Well(r)'
    <3>1. ~q.ok /\ on[q.client] = q.pane.session
      BY <1>1, <2>7 DEF Well, KeepsClients
    <3>2. on' = on /\ home' = home
      BY <1>2 DEF SameTmux, Onward
    <3>3. \A i \in 1..Len(n.moved) : n.moved[i].to = home[n.moved[i].client]
      BY <2>4, <2>7 DEF Well, KeepsClients
    <3>4. ASSUME NEW d \in Clients, on[d] # home[d]
          PROVE  (Taken(request[r], d) \/ ToReturn(request[r], d) \/ Raised(request[r], d))'
      <4>1. Taken(q, d) \/ ToReturn(q, d)
        BY <2>7, <3>1, <3>4 DEF Well, Explained, Raised
      <4>2. CASE Taken(q, d)
        BY <2>1, <2>5, <3>2, <4>2 DEF Taken
      <4>3. ASSUME ToReturn(q, d) PROVE (ToReturn(request[r], d) \/ Raised(request[r], d))'
        <5>1. PICK i \in 1..last : q.moved[i].client = d
          BY <4>3 DEF ToReturn
        <5>2. CASE i \in 1..Len(n.moved)
          BY <2>1, <2>4, <2>5, <3>2, <4>3, <5>1, <5>2 DEF ToReturn
        <5>3. CASE i \notin 1..Len(n.moved)
          <6>1. Switched(q) /\ i = last
            BY <2>2, <2>4, <5>1, <5>3
          <6>2. d = q.client
            BY <2>3, <5>1, <6>1
          <6> QED
            BY <2>1, <2>5, <3>1, <3>2, <6>2 DEF Raised
        <5> QED
          BY <5>2, <5>3
      <4> QED
        BY <4>1, <4>2, <4>3
    <3>5. Explained(request[r])'
      BY <3>2, <3>4 DEF Explained
    <3>6. KeepsClients(request[r])'
      BY <2>1, <2>5, <3>2, <3>3, <3>5 DEF KeepsClients, Touring
    <3>7. KeepsTitles(request[r])'
      BY <1>1, <2>1, <2>5, <2>7 DEF Well, KeepsTitles, Untouched, HasTitles, HasFormat
    <3> QED
      BY <2>1, <2>5, <3>5, <3>6, <3>7 DEF Well, At
  <2> QED
    BY <1>1, <1>2, <2>5, <2>6, <2>7, OneMoved DEF Labels
<1> QED
  BY <1>3, <1>4 DEF Look

LEMMA ReturnClientInv ==
    ASSUME FocusAssumption, Inv, NEW r \in Requests, ReturnClient(r)
    PROVE  Inv'
<1> DEFINE q == request[r]
           n == [q EXCEPT !.moved = Tail(@)]
           m == q.moved[1]
<1>1. q.pc = "return" /\ Running(r) /\ q \in RequestLocals /\ Ready(q)
  BY DEF ReturnClient, At, Running, Inv, TypeInv, RequestsOK
<1>2. CASE q.moved = <<>>
  <2>1. Goto(r, "restoreTitles") /\ Query /\ Works
    BY <1>2 DEF ReturnClient
  <2>2. SameTmux /\ Onward
    BY <2>1, HistoryStep DEF Inv, TypeInv
  <2> QED
    BY <1>1, <1>2, <2>1, <2>2, GoesOn DEF Labels, Untouched, HasTitles, HasFormat, Touring
<1>3. CASE q.moved # <<>>
  <2>1. Sets(r, n) /\ ((SwitchClient(m.client, m.to) /\ Works) \/ RestoreFails)
    BY <1>3 DEF ReturnClient
  <2>2. /\ n \in RequestLocals /\ n.pc = q.pc /\ n.pane = q.pane
        /\ n.savedTitles = q.savedTitles /\ n.savedFormat = q.savedFormat
        /\ n.client = q.client /\ n.moved = Tail(q.moved) /\ n.ok = q.ok
    BY <1>1, <1>3, ReturnFields
  <2> HIDE DEF n
  <2>3. q.moved \in Seq(Moves) /\ Len(q.moved) \in Nat /\ Len(q.moved) >= 1
    BY <1>1, <1>3 DEF RequestLocals
  <2>4. m.client \in Clients /\ m.to \in TmuxSessions
    <3>1. m \in Moves
      BY <2>3
    <3> QED
      BY <3>1 DEF Moves
  <2>5. /\ Len(n.moved) = Len(q.moved) - 1
        /\ \A i \in 1..Len(n.moved) : n.moved[i] = q.moved[i + 1] /\ i + 1 \in 1..Len(q.moved)
    BY <2>2, <2>3
  <2>6. Steps(r, "return") /\ request'[r] = n
    BY <1>1, <2>1, <2>2, SetsStep DEF Inv, TypeInv
  <2>7. Ready(request[r])'
    BY <1>1, <2>2, <2>6 DEF Ready, HasTitles, HasFormat
  <2>8. CASE RestoreFails
    <3>1. Onward /\ unrestored' /\ TmuxOK'
      BY <2>8, HistoryStep, SameTmuxOK DEF Inv, TypeInv
    <3>2. ~Calm'
      BY <3>1 DEF Calm
    <3> QED
      BY <1>1, <2>6, <2>7, <3>1, <3>2, OneMoved DEF Labels
  <2>9. ASSUME SwitchClient(m.client, m.to), Works PROVE Inv'
    <3>1. /\ TmuxOK' /\ titles' = titles /\ format' = format
          /\ on'[m.client] = m.to /\ \A d \in Clients : d # m.client => on'[d] = on[d]
      BY <2>4, <2>9, SwitchTmux DEF Inv, TypeInv
    <3>2. Onward
      BY <2>9, HistoryStep DEF Inv, TypeInv
    <3>3. ASSUME Calm, Calm', Well(r) PROVE Well(r)'
      <4>1. \A i \in 1..Len(q.moved) : q.moved[i].to = home[q.moved[i].client]
        BY <3>3 DEF Well, KeepsClients
      <4>2. home' = home /\ on'[m.client] = home[m.client]
        BY <2>3, <3>1, <3>2, <4>1 DEF Onward
      <4>3. \A i \in 1..Len(n.moved) : n.moved[i].to = home'[n.moved[i].client]
        BY <2>5, <4>1, <4>2
      <4>4. ASSUME NEW d \in Clients, on'[d] # home'[d]
            PROVE  (Taken(request[r], d) \/ ToReturn(request[r], d) \/ Raised(request[r], d))'
        <5>1. d # m.client /\ on'[d] = on[d]
          BY <3>1, <4>2, <4>4
        <5>2. Taken(q, d) \/ ToReturn(q, d) \/ Raised(q, d)
          BY <3>3, <4>2, <4>4, <5>1 DEF Well, Explained
        <5>3. Taken(q, d) => Taken(request[r], d)'
          BY <2>2, <2>6, <4>2, <5>1 DEF Taken
        <5>4. Raised(q, d) => Raised(request[r], d)'
          BY <2>2, <2>6, <5>1 DEF Raised
        <5>5. ASSUME ToReturn(q, d) PROVE ToReturn(request[r], d)'
          <6>1. PICK i \in 1..Len(q.moved) : q.moved[i].client = d
            BY <5>5 DEF ToReturn
          <6>2. i # 1
            BY <5>1, <6>1
          <6>3. i - 1 \in 1..Len(n.moved) /\ n.moved[i - 1] = q.moved[i]
            BY <2>3, <2>5, <6>1, <6>2
          <6> QED
            BY <2>2, <2>6, <5>1, <5>5, <6>1, <6>3 DEF ToReturn
        <5> QED
          BY <5>2, <5>3, <5>4, <5>5
      <4>5. Explained(request[r])'
        BY <4>4 DEF Explained
      <4>6. KeepsClients(request[r])'
        BY <1>1, <2>2, <2>6, <4>3, <4>5 DEF KeepsClients, Touring
      <4>7. KeepsTitles(request[r])'
        BY <1>1, <2>2, <2>6, <3>3 DEF Well, KeepsTitles, Untouched, HasTitles, HasFormat
      <4> QED
        BY <1>1, <2>2, <2>6, <4>5, <4>6, <4>7 DEF Well, At
    <3> QED
      BY <1>1, <2>6, <2>7, <3>1, <3>2, <3>3, OneMoved DEF Labels
  <2> QED
    BY <2>1, <2>8, <2>9
<1> QED
  BY <1>2, <1>3

-----------------------------------------------------------------------------
(* The theorems.                                                           *)

\* None of the program's steps breaks the invariant.
LEMMA NextInv == FocusAssumption /\ Inv /\ [Next]_vars => Inv'
<1> SUFFICES ASSUME FocusAssumption, Inv, [Next]_vars PROVE Inv'
  OBVIOUS
<1>1. ASSUME UNCHANGED vars PROVE Inv'
  <2>1. /\ TmuxOK' /\ HistoryOK' /\ request' = request /\ on' = on /\ home' = home
        /\ titles' = titles /\ format' = format
        /\ overlapped' = overlapped /\ unrestored' = unrestored
    BY <1>1 DEF vars, tmuxVars, Inv, TypeInv, TmuxOK, HistoryOK
  <2> QED
    BY <2>1 DEF Inv, TypeInv, RequestsOK, Ready, Alone, Running, TitlesInv, Quiet, UsersTitles,
                KeepsTitles, ClientsInv, KeepsClients, Returned, Explained, Taken, ToReturn,
                Raised
<1>2. CASE Next
  <2>1. PICK r \in Requests :
            \/ (\E p \in Panes : Begin(r, p)) \/ NotFound(r)
            \/ Attached(r) \/ Attach(r) \/ Select(r) \/ Raise(r)
            \/ SaveTitles(r) \/ SaveFormat(r) \/ TitlesOff(r) \/ SetOurFormat(r)
            \/ TitlesOn(r) \/ ListClients(r) \/ TryClient(r) \/ SwitchTried(r)
            \/ Look(r) \/ ReturnClient(r) \/ RestoreTitles(r) \/ RestoreFormat(r)
    BY <1>2 DEF Next
  <2>2. CASE (\E p \in Panes : Begin(r, p)) \/ NotFound(r)
    BY <2>2, BeginInv, NotFoundInv
  <2>3. CASE Attached(r) \/ Attach(r) \/ Select(r) \/ Raise(r)
    BY <2>3, AttachedInv, AttachInv, SelectInv, RaiseInv
  <2>4. CASE SaveTitles(r) \/ SaveFormat(r) \/ TitlesOff(r) \/ SetOurFormat(r) \/ TitlesOn(r)
    BY <2>4, SaveTitlesInv, SaveFormatInv, TitlesOffInv, SetOurFormatInv, TitlesOnInv
  <2>5. CASE ListClients(r) \/ TryClient(r) \/ SwitchTried(r) \/ Look(r) \/ ReturnClient(r)
    BY <2>5, ListClientsInv, TryClientInv, SwitchTriedInv, LookInv, ReturnClientInv
  <2>6. CASE RestoreTitles(r) \/ RestoreFormat(r)
    BY <2>6, RestoreTitlesInv, RestoreFormatInv
  <2> QED
    BY <2>1, <2>2, <2>3, <2>4, <2>5, <2>6
<1> QED
  BY <1>1, <1>2

LEMMA InitInv == FocusAssumption /\ Init => Inv
<1> SUFFICES ASSUME FocusAssumption, Init PROVE Inv
  OBVIOUS
<1>1. /\ Fresh \in RequestLocals /\ Fresh.pc = "new" /\ Fresh.pane = None
      /\ Fresh.moved = <<>> /\ ~Fresh.ok
  BY DEF Fresh, RequestLocals, Labels
<1>2. \A r \in Requests : request[r] = Fresh
  BY DEF Init
<1>3. TypeInv
  <2>1. TmuxOK /\ HistoryOK
    <3>1. 0 \in 0..MaxFailures
      BY DEF FocusAssumption
    <3>2. HistoryOK
      BY <3>1 DEF Init, HistoryOK
    <3>3. TmuxOK
      BY DEF Init, FocusAssumption, TmuxOK
    <3> QED
      BY <3>2, <3>3
  <2>2. Ready(Fresh)
    BY <1>1 DEF Ready, HasTitles, HasFormat
  <2>3. RequestsOK
    BY <1>1, <1>2, <2>2 DEF Init, RequestsOK
  <2> QED
    BY <2>1, <2>3 DEF TypeInv
<1>4. Alone
  BY <1>1, <1>2 DEF Alone, Running
<1>5. KeepsTitles(Fresh)
  BY <1>1 DEF KeepsTitles, Untouched, HasTitles, HasFormat
<1>6. KeepsClients(Fresh)
  <2>1. Len(Fresh.moved) = 0
    BY <1>1
  <2> QED
    BY <1>1, <2>1 DEF KeepsClients, Touring
<1>7. UsersTitles /\ Returned
  BY DEF Init, UsersTitles, Returned
<1> QED
  BY <1>2, <1>3, <1>4, <1>5, <1>6, <1>7 DEF Inv, TitlesInv, ClientsInv

LEMMA InvAlways == FocusAssumption => (Spec => []Inv)
<1> SUFFICES ASSUME FocusAssumption PROVE Spec => []Inv
  OBVIOUS
<1>1. Init => Inv
  BY InitInv
<1>2. Inv /\ [Next]_vars => Inv'
  BY NextInv
<1> QED
  BY <1>1, <1>2, PTL DEF Spec

\* The options, the clients and the locals of every request keep their ranges
\* (focus.go, tmux.go).
THEOREM TypeCorrect == FocusAssumption => (Spec => []TypeOK)
<1>1. Inv => TypeOK
  <2> SUFFICES ASSUME Inv, NEW r \in Requests
               PROVE  /\ TmuxOK /\ HistoryOK
                      /\ DOMAIN request[r] = DOMAIN Fresh
                      /\ request[r].pane \in Panes \cup {None}
                      /\ ToSet(request[r].todo) \subseteq Clients
    BY DEF Inv, TypeInv, TypeOK, TmuxOK, HistoryOK
  <2>1. request[r] \in RequestLocals
    BY DEF Inv, TypeInv, RequestsOK
  <2>2. DOMAIN request[r] = DOMAIN Fresh
    BY <2>1 DEF RequestLocals, Fresh
  <2>3. request[r].todo \in Seq(Clients) /\ request[r].pane \in Panes \cup {None}
    BY <2>1 DEF RequestLocals
  <2>4. ToSet(request[r].todo) \subseteq Clients
    BY <2>3 DEF ToSet
  <2> QED
    BY <2>2, <2>3, <2>4 DEF Inv, TypeInv
<1> QED
  BY <1>1, InvAlways, PTL

\* A request that runs alone leaves set-titles and set-titles-string as the user had
\* them, on whichever path it returns (focus.go, retryFocusWithTmuxTitles and
\* restoreTmuxTitles).
THEOREM OptionsRestored == FocusAssumption => (Spec => []TitlesRestored)
<1>1. Inv => TitlesRestored
  BY DEF Inv, TitlesInv, TitlesRestored
<1> QED
  BY <1>1, InvAlways, PTL

\* A request that runs alone sends every client back that it has switched, but for
\* the one whose terminal it raised (focus.go, the deferred function of
\* retryFocusWithTmuxTitles).
THEOREM ClientsComeBack == FocusAssumption => (Spec => []ClientsReturned)
<1>1. Inv => ClientsReturned
  <2> SUFFICES ASSUME Inv, Quiet, ~overlapped, ~unrestored,
                      NEW c \in Clients, on[c] # home[c]
               PROVE  \E r \in Requests :
                         /\ request[r].pane # None /\ on[c] = request[r].pane.session
                         /\ \/ request[r].ok /\ c = request[r].client
                            \/ c = TmuxClients[1] /\ \A d \in Clients : home[d] # on[c]
    BY DEF ClientsReturned
  <2>1. Returned
    BY DEF Inv, ClientsInv
  <2> QED
    BY <2>1 DEF Returned, Taken, Raised
<1> QED
  BY <1>1, InvAlways, PTL
=============================================================================
