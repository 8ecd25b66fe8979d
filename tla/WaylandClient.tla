---------------------------- MODULE WaylandClient ----------------------------
(***************************************************************************)
(* One wayland connection that raises a window (wayctl.go, from            *)
(* focusTerminalWindow).  The client's requests and the compositor's       *)
(* events are two FIFO streams.  The compositor is external: it lists the  *)
(* windows when the manager is bound, then reports what happens to them,   *)
(* and answers a sync when it has done all that was asked before.  Encoding *)
(* is left out; title and application id come in one event.                *)
(***************************************************************************)
EXTENDS Naturals, SequencesExt

CONSTANTS
    Windows,     \* toplevel handles
    Titles,      \* sequences of parts, as in Toplevels
    Requested,   \* the title asked for
    MaxWindowChanges,  \* bound: how often windows open, close or change their title
    Nil

\* A handle and what its events have told of it.
Toplevel == [title : Titles \cup {<<>>}, appID : {"", "Alacritty"},
             initialized : BOOLEAN, closed : BOOLEAN]

\* What is assumed of the constants: a handle is told apart from the other objects.
WaylandAssumption ==
    /\ MaxWindowChanges \in Nat /\ Requested \in Titles /\ IsFiniteSet(Windows)
    /\ Windows \cap {"registry", "sync", "bind", "seat"} = {}
    /\ Nil \notin Windows \cup Toplevel

VARIABLES
    phase,     \* what the client waits for, or how focusTerminalWindow returned
    globals,   \* the interfaces whose name the client has
    toplevels, \* the client's map, Nil where it has no entry
    target,    \* the toplevel it activates
    requests, incoming,   \* the two streams
    life, title, \* each window of the compositor
    offered,   \* the interfaces that the compositor has
    bound,     \* the client has bound the manager
    raised,    \* the windows that have been activated
    changed,   \* how often windows have changed
    listed     \* history: the windows that were open when the manager was bound

client == <<phase, globals, toplevels, target>>
compositor == <<life, title, offered, bound, raised, changed, listed>>
waylandVars == <<client, requests, incoming, compositor>>

TL == INSTANCE Toplevels WITH AppID <- "Alacritty", MaxDepth <- 0, None <- Nil

Interfaces == {"manager", "seat"}
Final == {"ok", "failed", "unsupported", "noSeat", "notFound"}
IsOpen(w) == life[w] = "open"

WaylandInit ==
    /\ phase = "dial" /\ globals = {} /\ target = Nil
    /\ toplevels = [w \in Windows |-> Nil]
    /\ requests = <<>> /\ incoming = <<>>
    /\ life = [w \in Windows |-> "unborn"] /\ title = [w \in Windows |-> Requested]
    /\ offered = Interfaces
    /\ bound = FALSE /\ raised = {} /\ changed = 0 /\ listed = {}

-----------------------------------------------------------------------------
(* The client.                                                             *)

Returns(result) == phase' = result /\ UNCHANGED <<globals, toplevels, target, requests>>

\* newWaylandFocusClientFromEnv connects and asks for the globals.
DialDisplay ==
    /\ phase = "dial"
    /\ \/ phase' = "globals" /\ requests' = <<"registry", "sync">>
          /\ UNCHANGED <<globals, toplevels, target>>
       \/ Returns("failed")
    /\ UNCHANGED <<incoming, compositor>>

\* roundTrip, and a mutant that does not wait for the callback.
RoundTrip(asked, next) == requests' = requests \o asked \o <<"sync">> /\ phase' = next
NoRoundTrip(asked, next) ==
    /\ requests' = requests \o asked
    /\ phase' = IF next = "windows" THEN "choose" ELSE "ok"
AfterBind(asked, next) == RoundTrip(asked, next)
AfterActivate(asked, next) == RoundTrip(asked, next)

\* The callback of the round trip that the client waits for.
CallbackDone ==
    CASE phase = "globals" /\ "manager" \notin globals -> Returns("unsupported")
      [] phase = "globals" /\ "manager" \in globals /\ "seat" \notin globals -> Returns("noSeat")
      [] phase = "globals" /\ Interfaces \subseteq globals ->
            /\ AfterBind(<<"bind", "seat">>, "windows")
            /\ UNCHANGED <<globals, toplevels, target>>
      [] phase = "windows" -> Returns("choose")
      [] phase = "activated" -> Returns("ok")

\* Focus, with the windows in some order of iteration.
Choose ==
    /\ phase = "choose"
    /\ LET known == {w \in Windows : toplevels[w] # Nil}
       IN \E order \in SetToSeqs(known) :
            LET list == [i \in DOMAIN order |-> toplevels[order[i]]]
                found == TL!FindToplevel(list, Requested)
            IN IF found = Nil THEN Returns("notFound")
               ELSE \E w \in known :
                       /\ toplevels[w] = found /\ target' = w
                       /\ AfterActivate(<<w>>, "activated")
                       /\ UNCHANGED <<globals, toplevels>>
    /\ UNCHANGED <<incoming, compositor>>

NewToplevel == [title |-> <<>>, appID |-> "", initialized |-> FALSE, closed |-> FALSE]
Updates(w, t) == toplevels' = [toplevels EXCEPT ![w] = t]

\* handleToplevelEvent; a toplevel that has closed has no handler any more.
ToplevelEvent(e) ==
    LET t == toplevels[e.w]
    IN IF t = Nil \/ t.closed THEN UNCHANGED toplevels
       ELSE CASE e.kind = "details" ->
                    Updates(e.w, [t EXCEPT !.title = e.title, !.appID = "Alacritty"])
              [] e.kind = "done" -> Updates(e.w, [t EXCEPT !.initialized = TRUE])
              [] e.kind = "closed" -> Updates(e.w, [t EXCEPT !.closed = TRUE])

\* dispatchNextMessage
Dispatch ==
    /\ phase \in {"globals", "windows", "activated"} /\ incoming # <<>>
    /\ LET e == Head(incoming)
       IN \/ e.kind = "callback" /\ CallbackDone
          \/ e.kind = "finished" /\ Returns("unsupported")
          \/ /\ e.kind = "global" /\ globals' = globals \cup {e.w}
             /\ UNCHANGED <<phase, toplevels, target, requests>>
          \/ /\ e.kind = "toplevel" /\ Updates(e.w, NewToplevel)
             /\ UNCHANGED <<phase, globals, target, requests>>
          \/ /\ e.kind \in {"details", "done", "closed"} /\ ToplevelEvent(e)
             /\ UNCHANGED <<phase, globals, target, requests>>
    /\ incoming' = Tail(incoming) /\ UNCHANGED compositor

\* No event within two seconds, or the compositor hangs up; the mutant sets no deadline.
NoDeadline == FALSE
ReadFails ==
    /\ phase \in {"globals", "windows", "activated"} /\ incoming = <<>>
    /\ Returns("failed") /\ UNCHANGED <<incoming, compositor>>

-----------------------------------------------------------------------------
(* The compositor.                                                         *)

Talking == phase \notin Final \cup {"dial"}
Event(kind, w, t) == [kind |-> kind, w |-> w, title |-> t]
Emits(es) == incoming' = incoming \o es
Details(w) ==
    <<Event("toplevel", w, Nil), Event("details", w, title[w]), Event("done", w, Nil)>>
Listing(order) ==
    [i \in 1..3 * Len(order) |-> Details(order[(i + 2) \div 3])[((i - 1) % 3) + 1]]

ServeRequest ==
    /\ Talking /\ requests # <<>>
    /\ requests' = Tail(requests)
    /\ LET r == Head(requests)
           still == UNCHANGED <<bound, raised, listed>>
           open == {w \in Windows : IsOpen(w)}
       IN \/ /\ r = "registry" /\ still
             /\ \E order \in SetToSeqs(offered) :
                    Emits([i \in DOMAIN order |-> Event("global", order[i], Nil)])
          \/ r = "sync" /\ Emits(<<Event("callback", Nil, Nil)>>) /\ still
          \/ r = "seat" /\ Emits(<<>>) /\ still
          \/ /\ r = "bind" /\ bound' = TRUE /\ listed' = open
             /\ \E order \in SetToSeqs(open) : Emits(Listing(order))
             /\ UNCHANGED raised
          \/ /\ r \in Windows /\ Emits(<<>>) /\ UNCHANGED <<bound, listed>>
             /\ raised' = IF IsOpen(r) THEN raised \cup {r} ELSE raised
    /\ UNCHANGED <<client, life, title, offered, changed>>

Change(w, l, t, es) ==
    /\ changed < MaxWindowChanges /\ changed' = changed + 1
    /\ life' = [life EXCEPT ![w] = l] /\ title' = [title EXCEPT ![w] = t]
    /\ Emits(IF bound /\ Talking THEN es ELSE <<>>)
    /\ UNCHANGED <<client, requests, offered, bound, raised, listed>>

\* The done of a new or changed window comes when the compositor is idle.
Opens(w, t) ==
    /\ life[w] = "unborn"
    /\ Change(w, "open", t, <<Event("toplevel", w, Nil), Event("details", w, t)>>)
Retitles(w, t) ==
    /\ IsOpen(w) /\ t # title[w]
    /\ Change(w, "open", t, <<Event("details", w, t)>>)
Idle(w) ==
    /\ IsOpen(w) /\ bound /\ Talking /\ changed < MaxWindowChanges
    /\ Emits(<<Event("done", w, Nil)>>) /\ changed' = changed + 1
    /\ UNCHANGED <<client, requests, life, title, offered, bound, raised, listed>>
Closes(w) == IsOpen(w) /\ Change(w, "closed", title[w], <<Event("closed", w, Nil)>>)

\* A compositor without the manager or a seat; one that withdraws the manager.
Lacks(i) ==
    /\ phase = "dial" /\ offered' = offered \ {i}
    /\ UNCHANGED <<client, requests, incoming, life, title, bound, raised, changed, listed>>
Finishes ==
    /\ Talking /\ bound /\ changed < MaxWindowChanges /\ changed' = MaxWindowChanges
    /\ Emits(<<Event("finished", Nil, Nil)>>)
    /\ UNCHANGED <<client, requests, life, title, offered, bound, raised, listed>>

Client == DialDisplay \/ Choose \/ Dispatch \/ ReadFails
WaylandNext ==
    \/ Client \/ ServeRequest \/ Finishes
    \/ \E w \in Windows : Idle(w) \/ Closes(w) \/ \E t \in Titles : Opens(w, t) \/ Retitles(w, t)
    \/ \E i \in Interfaces : Lacks(i)

WaylandSpec == WaylandInit /\ [][WaylandNext]_waylandVars

\* The goroutine of the request runs, and its reads end at their deadline.
WaylandFairSpec == WaylandSpec /\ WF_waylandVars(Client)

-----------------------------------------------------------------------------
(* Properties.                                                             *)

\* The streams and the map keep their shapes.
WaylandTypeOK ==
    /\ phase \in Final \cup {"dial", "globals", "windows", "choose", "activated"}
    /\ globals \subseteq Interfaces /\ target \in Windows \cup {Nil}
    /\ toplevels \in [Windows -> Toplevel \cup {Nil}]
    /\ life \in [Windows -> {"unborn", "open", "closed"}] /\ title \in [Windows -> Titles]
    /\ raised \subseteq Windows /\ changed \in 0..MaxWindowChanges

\* When the client chooses, it knows every window that was open when it bound the
\* manager, complete with a title, unless the window has closed (initialize).
ChoosesAmongAll ==
    phase = "choose" =>
        \A w \in listed : IsOpen(w) =>
            toplevels[w] # Nil /\ toplevels[w].initialized /\ toplevels[w].title \in Titles

\* A focus that reports success has been carried out, unless the window closed
\* before the compositor came to it (Focus waits for the callback).
OkMeansRaised == phase = "ok" => target \in raised \/ life[target] = "closed"

\* A focus comes to an end whether or not the compositor answers, as long as
\* events do not keep arriving for ever.
Returned == phase \in Final
FocusEnds == <>Returned
=============================================================================
