---------------------------- MODULE FocusRequests ---------------------------
(***************************************************************************)
(* Requests to bring the terminal of a session to the front (focus.go,     *)
(* tmux.go), each in a goroutine of its own, on one tmux server.  Every    *)
(* tmux command is a step.  A tmux client runs in a terminal window, whose *)
(* title follows tmux while set-titles is on and stays as it was when it   *)
(* is off.  A pane is a tmux session and a window of it.                   *)
(***************************************************************************)
EXTENDS Naturals, FiniteSets, SequencesExt

CONSTANTS
    Requests,
    Panes,         \* pane of a session id: [session, window], both naturals
    TmuxClients,   \* the clients, in the order of list-clients
    ForeignSets,   \* which clients may run in a terminal that the program does not know
    UserTitles,    \* the user's set-titles, "on" or "off"
    SetTitlesEnabled,  \* focus.tmux_set_titles of config.json
    MaxFailures,   \* bound: tmux commands that fail
    None

\* What is assumed of the constants.
FocusAssumption ==
    /\ UserTitles \in {"on", "off"} /\ SetTitlesEnabled \in BOOLEAN
    /\ \A p \in Panes : p # None /\ p.session \in Nat /\ p.window \in Nat
    /\ TmuxClients \in Seq(ToSet(TmuxClients)) /\ MaxFailures \in Nat

VARIABLES
    titles, format,    \* set-titles and set-titles-string
    on,                \* the session each client shows
    window,            \* the current window of each session
    shown,             \* the title of each client's terminal
    foreign,           \* the clients that run in an unknown terminal
    request,           \* the local variables of each goroutine
    failures,          \* commands that have failed
    overlapped,        \* history: two requests ran at once
    unrestored,        \* history: a command that restores has failed
    home               \* history: what the clients showed when a request began

tmuxVars == <<titles, format, on, window, shown, foreign>>
vars == <<tmuxVars, request, failures, overlapped, unrestored, home>>

TL == INSTANCE Toplevels WITH AppID <- "Alacritty", MaxDepth <- 0

Clients == ToSet(TmuxClients)
TmuxSessions == {p.session : p \in Panes}

Fresh == [pc |-> "new", pane |-> None, savedTitles |-> None, savedFormat |-> None,
          todo |-> <<>>, client |-> None, was |-> None, moved |-> <<>>, ok |-> FALSE]

Init ==
    /\ titles = UserTitles /\ format = "own"
    /\ on \in [Clients -> TmuxSessions]
    /\ window = [s \in TmuxSessions |-> 0]
    /\ shown = [c \in Clients |-> <<>>] /\ foreign \in ForeignSets
    /\ request = [r \in Requests |-> Fresh]
    /\ failures = 0 /\ overlapped = FALSE /\ unrestored = FALSE /\ home = on

-----------------------------------------------------------------------------
(* tmux.                                                                   *)

\* What tmux writes to a terminal: "#S:#W", or the user's format, which names
\* neither the session nor the window.
Title(f, s, w) == IF f = "own" THEN <<>> ELSE <<s, w>>

\* A command takes effect; the terminals whose title tmux sets follow it.
Tmux(t, f, o, w) ==
    /\ titles' = t /\ format' = f /\ on' = o /\ window' = w
    /\ shown' = [c \in Clients |-> IF t = "on" THEN Title(f, o[c], w[o[c]]) ELSE shown[c]]
    /\ UNCHANGED foreign

Query == UNCHANGED tmuxVars
SetTitles(t) == Tmux(t, format, on, window)
SetFormat(f) == Tmux(titles, f, on, window)
SwitchClient(c, s) == Tmux(titles, format, [on EXCEPT ![c] = s], window)
SelectWindow(p) == Tmux(titles, format, on, [window EXCEPT ![p.session] = p.window])

-----------------------------------------------------------------------------
(* The request.                                                            *)

At(r, label) == request[r].pc = label
Sets(r, q) == request' = [request EXCEPT ![r] = q]
Goto(r, label) == Sets(r, [request[r] EXCEPT !.pc = label])
Ends(r, success) == Sets(r, [request[r] EXCEPT !.pc = "end", !.ok = success])

Works == UNCHANGED <<failures, overlapped, unrestored, home>>
Failed ==
    /\ failures < MaxFailures /\ failures' = failures + 1
    /\ UNCHANGED <<overlapped, unrestored, home>>
Fails == Failed /\ UNCHANGED tmuxVars

Running(r) == request[r].pc \notin {"new", "end"}

\* Focus finds the session's agent and the pane it runs in.
Begin(r, p) ==
    /\ At(r, "new")
    /\ Sets(r, [request[r] EXCEPT !.pc = "attached", !.pane = p])
    /\ overlapped' = (overlapped \/ \E q \in Requests : Running(q))
    /\ home' = on
    /\ UNCHANGED <<tmuxVars, failures, unrestored>>

\* No pane; genericTTYFocuser looks for a window that is named after the agent's tty.
NotFound(r) == At(r, "new") /\ (\E found \in BOOLEAN : Ends(r, found)) /\ Query /\ Works

\* ensureTmuxClientAttached asks who shows the session, then takes a client.
Attached(r) ==
    /\ At(r, "attached")
    /\ \/ /\ Goto(r, IF \E c \in Clients : on[c] = request[r].pane.session
                     THEN "select" ELSE "attach")
          /\ Query /\ Works
       \/ Ends(r, FALSE) /\ Fails

Attach(r) ==
    /\ At(r, "attach")
    /\ \/ /\ TmuxClients # <<>>
          /\ SwitchClient(TmuxClients[1], request[r].pane.session)
          /\ Goto(r, "select") /\ Works
       \/ TmuxClients = <<>> /\ Ends(r, FALSE) /\ Query /\ Works
       \/ Ends(r, FALSE) /\ Fails

\* select-window, then select-pane.
Select(r) ==
    /\ At(r, "select")
    /\ \/ SelectWindow(request[r].pane) /\ Goto(r, "raise") /\ Works
       \/ Ends(r, FALSE) /\ Fails
       \/ SelectWindow(request[r].pane) /\ Ends(r, FALSE) /\ Failed

\* focusWindow: whether some terminal is found for "session:window".
Requested(r) == <<request[r].pane.session, request[r].pane.window>>
Terminals ==
    [i \in DOMAIN TmuxClients |->
        [title |-> shown[TmuxClients[i]],
         appID |-> IF TmuxClients[i] \in foreign THEN "other" ELSE "Alacritty",
         initialized |-> TRUE, closed |-> FALSE]]
Found(r) == TL!FindToplevel(Terminals, Requested(r)) # None

Raise(r) ==
    /\ At(r, "raise")
    /\ \/ Found(r) /\ Ends(r, TRUE)
       \/ ~Found(r) /\ SetTitlesEnabled /\ Goto(r, "saveTitles")
       \/ ~Found(r) /\ ~SetTitlesEnabled /\ Ends(r, FALSE)
       \/ Ends(r, FALSE)   \* the compositor cannot be asked
    /\ Query /\ Works

\* retryFocusWithTmuxTitles, and a mutant that forgets what set-titles was.
NotSaved(q) == q
Saved(q) == [q EXCEPT !.savedTitles = titles]
SaveTitles(r) ==
    /\ At(r, "saveTitles")
    /\ \/ /\ Sets(r, [Saved(request[r]) EXCEPT !.pc = "saveFormat"])
          /\ Query /\ Works
       \/ Ends(r, FALSE) /\ Fails

SaveFormat(r) ==
    /\ At(r, "saveFormat")
    /\ \/ /\ Sets(r, [request[r] EXCEPT !.pc = "off", !.savedFormat = format])
          /\ Query /\ Works
       \/ Ends(r, FALSE) /\ Fails

TitlesOff(r) ==
    /\ At(r, "off")
    /\ Goto(r, "format")
    /\ (SetTitles("off") /\ Works) \/ Fails

SetOurFormat(r) ==
    /\ At(r, "format")
    /\ \/ SetFormat("#S:#W") /\ Goto(r, "on") /\ Works
       \/ Goto(r, "restoreTitles") /\ Fails

TitlesOn(r) ==
    /\ At(r, "on")
    /\ \/ SetTitles("on") /\ Goto(r, "clients") /\ Works
       \/ Goto(r, "restoreTitles") /\ Fails

\* Mutant: the return between list-clients and the defer restores nothing.
GiveUpAtOnce(r) == Ends(r, FALSE)
GiveUp(r) == Goto(r, "restoreTitles")

ListClients(r) ==
    /\ At(r, "clients")
    /\ \/ /\ Sets(r, [request[r] EXCEPT !.pc = "try", !.todo = TmuxClients])
          /\ Query /\ Works
       \/ GiveUp(r) /\ Fails

\* The client whose turn it is: where is it?
TryClient(r) ==
    /\ At(r, "try")
    /\ LET q == request[r]
           c == Head(q.todo)
           turn == [q EXCEPT !.todo = Tail(@), !.client = c]
       IN IF q.todo = <<>> THEN Goto(r, "return") /\ Query /\ Works
          ELSE \/ /\ on[c] = q.pane.session
                  /\ Sets(r, [turn EXCEPT !.pc = "look"]) /\ Query /\ Works
               \/ /\ on[c] # q.pane.session
                  /\ Sets(r, [turn EXCEPT !.pc = "switch", !.was = on[c]]) /\ Query /\ Works
               \/ Sets(r, turn) /\ Fails

SwitchTried(r) ==
    /\ At(r, "switch")
    /\ LET q == request[r]
           entry == [client |-> q.client, to |-> q.was]
       IN \/ /\ SwitchClient(q.client, q.pane.session)
             /\ Sets(r, [q EXCEPT !.pc = "look", !.moved = Append(@, entry)]) /\ Works
          \/ Goto(r, "try") /\ Fails

\* The client that shows the terminal stays where it is: if it was switched, it was
\* the last.  In the mutant every client stays.
Switched(q) == q.moved # <<>> /\ q.moved[Len(q.moved)].client = q.client
Stays(q) == IF Switched(q) THEN [q EXCEPT !.moved = SubSeq(@, 1, Len(@) - 1)] ELSE q
GoesBack(q) == q

Look(r) ==
    /\ At(r, "look")
    /\ \/ Found(r) /\ Sets(r, [Stays(request[r]) EXCEPT !.pc = "return", !.ok = TRUE])
       \/ Sets(r, [GoesBack(request[r]) EXCEPT !.pc = "try"])
    /\ Query /\ Works

RestoreFails ==
    /\ failures < MaxFailures /\ failures' = failures + 1 /\ unrestored' = TRUE
    /\ UNCHANGED <<tmuxVars, overlapped, home>>

\* The deferred function: the clients in turn, then the options.
ReturnClient(r) ==
    /\ At(r, "return")
    /\ LET q == request[r]
       IN IF q.moved = <<>> THEN Goto(r, "restoreTitles") /\ Query /\ Works
          ELSE /\ Sets(r, [q EXCEPT !.moved = Tail(@)])
               /\ (SwitchClient(q.moved[1].client, q.moved[1].to) /\ Works) \/ RestoreFails

RestoreTitles(r) ==
    /\ At(r, "restoreTitles")
    /\ Goto(r, "restoreFormat")
    /\ (SetTitles(request[r].savedTitles) /\ Works) \/ RestoreFails

RestoreFormat(r) ==
    /\ At(r, "restoreFormat")
    /\ Goto(r, "end")
    /\ (SetFormat(request[r].savedFormat) /\ Works) \/ RestoreFails

Next ==
    \E r \in Requests :
        \/ (\E p \in Panes : Begin(r, p)) \/ NotFound(r)
        \/ Attached(r) \/ Attach(r) \/ Select(r) \/ Raise(r)
        \/ SaveTitles(r) \/ SaveFormat(r) \/ TitlesOff(r) \/ SetOurFormat(r)
        \/ TitlesOn(r) \/ ListClients(r) \/ TryClient(r) \/ SwitchTried(r)
        \/ Look(r) \/ ReturnClient(r) \/ RestoreTitles(r) \/ RestoreFormat(r)

Spec == Init /\ [][Next]_vars

-----------------------------------------------------------------------------
(* Properties.                                                             *)

\* Options, clients and the labels of the goroutines keep their ranges.
TypeOK ==
    /\ titles \in {"on", "off"} /\ format \in {"own", "#S:#W"}
    /\ on \in [Clients -> TmuxSessions] /\ failures \in 0..MaxFailures
    /\ foreign \in ForeignSets
    /\ \A r \in Requests : /\ DOMAIN request[r] = DOMAIN Fresh
                           /\ request[r].pane \in Panes \cup {None}
                           /\ ToSet(request[r].todo) \subseteq Clients

Quiet == \A r \in Requests : ~Running(r)
UsersTitles == titles = UserTitles /\ format = "own"

\* A request that runs alone leaves set-titles and set-titles-string as the user
\* had them, on whichever path it returns, unless tmux refuses to restore them.
TitlesRestored == Quiet /\ ~overlapped /\ ~unrestored => UsersTitles

\* A request that runs alone leaves every client on the session it showed, but for
\* the one whose terminal it raised and the first one when none showed the session.
ClientsReturned ==
    Quiet /\ ~overlapped /\ ~unrestored =>
        \A c \in Clients : on[c] # home[c] =>
            \E r \in Requests :
                LET q == request[r]
                IN /\ q.pane # None /\ on[c] = q.pane.session
                   /\ \/ q.ok /\ c = q.client
                      \/ c = TmuxClients[1] /\ \A d \in Clients : home[d] # on[c]

\* "The original set-titles and set-titles-string values are always restored."
AlwaysRestored == Quiet /\ ~unrestored => UsersTitles
=============================================================================
