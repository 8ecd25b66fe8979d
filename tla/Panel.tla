------------------------------- MODULE Panel --------------------------------
(***************************************************************************)
(* The overlay panel (app_gtk.go): what gtkUI does with pointer events,    *)
(* clicks, payloads, idle callbacks and animation timers, all of them on   *)
(* the GTK thread.  Idle callbacks have the priority of every other source *)
(* and run in the order they were added; a timer or an input may come      *)
(* between any two of them.  The ticks of an animation before its last     *)
(* change only pixels and are left out, so a running animation is a flag   *)
(* and its last tick an action.  A width is named by the view it fits.     *)
(***************************************************************************)
EXTENDS Naturals, SequencesExt

CONSTANTS
    Sessions,      \* session ids
    Payloads,      \* lists of sessions the forwarder may hand over
    None,
    DetailRetries, \* how often the height waits for an empty detail page
    MaxIdles       \* bound: callbacks that wait when a payload is delivered

ASSUME PanelAssumption ==
    /\ None \notin Sessions \cup {"closed", "list", "detail"}
    /\ \A p \in Payloads : p \in Seq(Sessions)
    /\ DetailRetries \in Nat /\ MaxIdles \in Nat \ {0}

VARIABLES
    ui,        \* the fields of gtkUI, its widgets and its idle callbacks
    inside     \* whether the pointer is over the panel

vars == <<ui, inside>>

Views == {"closed", "list", "detail"}
Idle == [kind : {"panel"}, view : Views]
        \cup [kind : {"height"}, animate : BOOLEAN, attempt : 0..DetailRetries]
        \cup [kind : {"frozenOpen", "openDone", "closeDone"}]

\* newGTKUI, and the widgets as buildShellWidget leaves them.
InitialUI ==
    [running |-> TRUE, idles |-> <<>>, payload |-> <<>>,
     selected |-> None,          \* selectedSessionID
     panelView |-> "closed", stackView |-> "list",
     pending |-> None,           \* pendingPanelView
     hover |-> FALSE,            \* hoverCloseSource is armed
     pinned |-> FALSE, wasExpanded |-> FALSE,
     closingActive |-> FALSE, mode |-> "none",
     width |-> "closed",         \* the last width applied, "between" two of them
     widthAnim |-> "none",       \* what widthAnimSource animates
     widthTo |-> "closed",
     slide |-> FALSE, listDetailAnimating |-> FALSE,
     heightAnim |-> FALSE,       \* detailAnimSource
     live |-> FALSE,             \* detailHost is visible
     clip |-> "zero",            \* its height: zero, a fixed one, or its own
     frozen |-> FALSE,           \* closingHost is visible
     rows |-> <<>>, shown |-> None,   \* what listPage and detailPage display
     backdrop |-> FALSE,         \* backdropTargetActive
     backdropAnim |-> "none", backdropShown |-> FALSE,
     listMeasured |-> FALSE,     \* cachedListHeight > 0
     crossed |-> FALSE]          \* history: the view changed while the list moved

\* onActivate: presenting the hidden backdrop window shows it.
Init == ui = [InitialUI EXCEPT !.backdropShown = TRUE] /\ inside = FALSE

-----------------------------------------------------------------------------
(* Sources.                                                                *)

Posted(u, idle) == [u EXCEPT !.idles = Append(@, idle)]

\* SourceRemove of the source that a field of gtkUI holds: the one callback of its kind.
Without(u, kind) ==
    IF \A i \in DOMAIN u.idles : u.idles[i].kind # kind THEN u
    ELSE [u EXCEPT !.idles = RemoveAt(@, CHOOSE i \in DOMAIN @ : @[i].kind = kind)]

CancelHoverClose(u) == [u EXCEPT !.hover = FALSE]
StopSlide(u) == [u EXCEPT !.slide = FALSE, !.width = IF u.slide THEN "between" ELSE @]
StopWidth(u) ==
    [u EXCEPT !.widthAnim = "none",
              !.width = IF u.widthAnim = "none" THEN @ ELSE "between"]

\* A request replaces the one that waits.
SchedulePanelView(u, view) ==
    IF u.pending = view THEN u
    ELSE Posted([Without(u, "panel") EXCEPT !.pending = view],
                [kind |-> "panel", view |-> view])

OpenDetail(u, s) == SchedulePanelView([CancelHoverClose(u) EXCEPT !.selected = s], "detail")
OpenList(u) ==
    IF u.payload = <<>> THEN u ELSE SchedulePanelView(CancelHoverClose(u), "list")
ClosePanel(u) ==
    SchedulePanelView([CancelHoverClose(u) EXCEPT !.pinned = FALSE], "closed")
PinPanel(u) ==
    IF u.panelView = "closed" THEN u ELSE [CancelHoverClose(u) EXCEPT !.pinned = TRUE]

-----------------------------------------------------------------------------
(* Building the panel.                                                     *)

\* What GTK may measure during a rebuild: whether the shell has to move to the
\* page it slides to, already has its width, and whether the live list has a height.
Measures == [moves : BOOLEAN, still : BOOLEAN, tall : BOOLEAN]

\* The opacity moves to where it should be; a backdrop that faded out is hidden.
AnimateBackdrop(u, to) == [u EXCEPT !.backdropAnim = to, !.backdropShown = TRUE]

SyncBackdropAtRest(u, active) ==   \* mutant: leaves it alone while the list moves
    IF active = u.backdrop \/ u.closingActive THEN u
    ELSE AnimateBackdrop([u EXCEPT !.backdrop = active], IF active THEN "in" ELSE "out")
SyncBackdrop(u, active) ==
    IF active = u.backdrop THEN u
    ELSE AnimateBackdrop([u EXCEPT !.backdrop = active], IF active THEN "in" ELSE "out")

\* The clip is released when a callback has measured the page.
SyncDetailHeight(u, animate) ==
    Posted([Without(u, "height") EXCEPT
                !.heightAnim = FALSE, !.live = TRUE,
                !.clip = IF u.live /\ @ # "zero" THEN "fixed" ELSE "zero"],
           [kind |-> "height", animate |-> animate, attempt |-> 0])

TargetWidth(u) == IF u.payload = <<>> THEN "closed" ELSE u.panelView

UpdateShellWidth(u, immediate) ==
    LET s == StopWidth(u)
        w == [s EXCEPT !.width = TargetWidth(u)]
    IN IF ~immediate
       THEN [s EXCEPT !.widthAnim = "shell", !.widthTo = TargetWidth(u)]
       ELSE IF u.panelView = "detail" THEN SyncDetailHeight(w, FALSE) ELSE w

SetStackView(u, view, m) ==
    IF u.stackView = view
    THEN [StopSlide(u) EXCEPT !.listDetailAnimating = FALSE]
    ELSE [StopWidth(StopSlide(u)) EXCEPT
            !.slide = TRUE, !.listDetailAnimating = m.moves,
            !.widthTo = view, !.stackView = view]

ResetLiveSlideToList(u) ==
    [StopSlide(u) EXCEPT !.listDetailAnimating = FALSE, !.stackView = "list"]

\* Every row keeps the id it was built with.
RebuildList(u) == [u EXCEPT !.rows = u.payload]
RebuildSelectedDetail(u) == [u EXCEPT !.shown = u.selected]

\* A selected session that is gone gives way to the first one.
KeepSelected(u) == u   \* mutant
ListedSelected(u) ==
    IF u.selected \in ToSet(u.payload) THEN u ELSE OpenDetail(u, u.payload[1])

RebuildDetail(u, m) ==
    IF u.panelView = "detail"
    THEN SetStackView(RebuildSelectedDetail(ListedSelected(RebuildList(u))), "detail", m)
    ELSE SetStackView(RebuildList(u), "list", m)

KeepFrozen(u) == u   \* mutant
HideFrozen(u) == [u EXCEPT !.frozen = FALSE]

FrozenTransition(u, kind, to) ==
    [StopWidth(Without(u, "height")) EXCEPT
        !.heightAnim = FALSE, !.widthAnim = kind, !.widthTo = to,
        !.frozen = TRUE, !.closingActive = TRUE]

StartFrozenListOpen(u) ==
    Posted([u EXCEPT !.mode = "opening", !.live = FALSE, !.clip = "zero",
                     !.frozen = TRUE],
           [kind |-> "frozenOpen"])

StartFrozenListClose(u) ==
    LET hidden == [ResetLiveSlideToList(u) EXCEPT
                      !.mode = "closing", !.live = FALSE, !.clip = "zero"]
    IN FrozenTransition(hidden, "close", "closed")

ForgetSessionsNotRequest(u) ==   \* mutant: pendingPanelView stays
    [ResetLiveSlideToList(CancelHoverClose(Without(u, "panel"))) EXCEPT
        !.panelView = "closed", !.pinned = FALSE, !.selected = None]

\* What rebuildUI does first when no session is left.
ForgetSessions(u) ==
    [ResetLiveSlideToList(CancelHoverClose(Without(u, "panel"))) EXCEPT
        !.panelView = "closed", !.pending = None, !.pinned = FALSE,
        !.selected = None]

RebuildOpen(u, m) ==
    LET open == HideFrozen([u EXCEPT !.wasExpanded = TRUE, !.mode = "none"])
        built == SyncDetailHeight(RebuildDetail(open, m), TRUE)
    IN IF u.panelView = "list" /\ ~u.wasExpanded THEN StartFrozenListOpen(u)
       ELSE IF built.listDetailAnimating THEN built
       ELSE UpdateShellWidth(built, m.still)

RebuildClosed(u, m) ==
    LET left == [u EXCEPT !.wasExpanded = FALSE]
    IN IF ~u.wasExpanded
       THEN HideFrozen([u EXCEPT !.live = FALSE, !.clip = "zero",
                                 !.mode = "none", !.width = "closed"])
       ELSE IF (u.live /\ m.tall) \/ u.listMeasured THEN StartFrozenListClose(left)
       ELSE left

BackdropActive(u) == u.pinned /\ u.payload # <<>> /\ u.panelView # "closed"

\* rebuildUI: while the frozen list moves only a detail may interrupt it.
RebuildUI(u, m) ==
    LET known == SyncBackdrop(IF u.payload = <<>> THEN ForgetSessions(u) ELSE u,
                              BackdropActive(u))
        free == IF known.closingActive
                THEN HideFrozen([known EXCEPT !.closingActive = FALSE, !.mode = "none"])
                ELSE known
    IN IF known.closingActive /\ known.panelView # "detail" THEN known
       ELSE IF known.panelView = "closed" THEN RebuildClosed(free, m)
       ELSE RebuildOpen(free, m)

\* The frozen list is moving, about to move or about to be put away, or the live
\* list was never measured.
ListMoves(u) ==
    \/ u.closingActive \/ u.mode # "none"
    \/ \E i \in ToSet(u.idles) : i.kind \in {"frozenOpen", "openDone", "closeDone"}
    \/ u.panelView # "closed" /\ ~u.listMeasured

-----------------------------------------------------------------------------
(* Inputs.                                                                 *)

OnScreen(page) ==
    ui.running /\ inside /\ ui.live /\ ui.clip # "zero" /\ (ui.stackView = page \/ ui.slide)

HoverEnter ==
    /\ ui.running /\ ~inside
    /\ inside' = TRUE
    /\ LET u == CancelHoverClose(ui)
       IN ui' = IF ui.panelView = "closed" THEN OpenList(u) ELSE u

HoverLeave ==
    /\ ui.running /\ inside
    /\ inside' = FALSE
    /\ ui' = IF ui.panelView = "closed" \/ ui.pinned THEN ui
             ELSE [ui EXCEPT !.hover = TRUE]

\* openPrimaryDetail; the pill can be clicked while there are sessions.
ClickPill ==
    /\ ui.running /\ inside /\ ui.payload # <<>>
    /\ ui' = OpenDetail(ui, ui.payload[1])
    /\ UNCHANGED inside

ClickRow(s) ==
    /\ OnScreen("list") /\ s \in ToSet(ui.rows)
    /\ ui' = OpenDetail(PinPanel(ui), s)
    /\ UNCHANGED inside

ClickPage ==
    /\ OnScreen("list") \/ OnScreen("detail")
    /\ ui' = PinPanel(ui)
    /\ UNCHANGED inside

ClickBack ==
    /\ OnScreen("detail") /\ ui.shown # None
    /\ ui' = SchedulePanelView(PinPanel(ui), "list")
    /\ UNCHANGED inside

\* "Open session", or a long press on a row.  The focus goes on in a goroutine.
FocusSession ==
    /\ (OnScreen("list") /\ ui.rows # <<>>) \/ (OnScreen("detail") /\ ui.shown # None)
    /\ ui' = ClosePanel(ui)
    /\ UNCHANGED inside

ClickBackdrop ==
    /\ ui.running /\ ~inside /\ ui.backdropShown
    /\ ui' = ClosePanel(ui)
    /\ UNCHANGED inside

\* The callbacks of scheduleSessionsPayloadUpdate and scheduleApplicationQuit
\* were added by goroutines, so they may run between any two others.
DeliverPayload(p) ==
    /\ ui.running /\ Len(ui.idles) < MaxIdles
    /\ LET u == [ui EXCEPT !.payload = p,
                           !.crossed = @ \/ (ListMoves(ui) /\ p = <<>>)]
       IN \E m \in Measures : ui' = RebuildUI(u, m)
    /\ UNCHANGED inside

\* run() drops the widgets; what it does not reset is not read again.
Quit ==
    /\ ui.running
    /\ ui' = [InitialUI EXCEPT !.running = FALSE]
    /\ UNCHANGED inside

Input ==
    \/ HoverEnter \/ HoverLeave \/ ClickPill \/ (\E s \in Sessions : ClickRow(s))
    \/ ClickPage \/ ClickBack \/ FocusSession \/ ClickBackdrop
    \/ (\E p \in Payloads : DeliverPayload(p)) \/ Quit

-----------------------------------------------------------------------------
(* Callbacks and timers.                                                   *)

Due(kind) == ui.running /\ ui.idles # <<>> /\ ui.idles[1].kind = kind
Taken == [ui EXCEPT !.idles = Tail(@)]

RunPanel ==
    /\ Due("panel")
    /\ LET view == ui.idles[1].view
           u == [Taken EXCEPT !.pending = None]
       IN IF ui.panelView = view THEN ui' = u
          ELSE \E m \in Measures :
                  ui' = RebuildUI([u EXCEPT !.panelView = view,
                                            !.crossed = @ \/ ListMoves(ui)], m)
    /\ UNCHANGED inside

\* Mutants: one attempt too many, and attempts that are not counted.
MayRetryOnceMore(i) == ui.panelView = "detail" /\ i.attempt <= DetailRetries
MayRetry(i) == ui.panelView = "detail" /\ i.attempt < DetailRetries
SameAttempt(i) == i
NextAttempt(i) == [i EXCEPT !.attempt = @ + 1]

\* An empty detail page is measured again later.  animateDetailHeight shows the
\* live host and releases its height, at once or when the animation ends.
RunHeight ==
    /\ Due("height")
    /\ LET i == ui.idles[1]
           u == [Taken EXCEPT !.live = TRUE, !.listMeasured = @ \/ ui.panelView = "list"]
       IN IF ui.panelView = "closed" THEN ui' = Taken
          ELSE \/ MayRetry(i) /\ ui' = Posted(Taken, NextAttempt(i))
               \/ ui' = [u EXCEPT !.clip = "own"]
               \/ i.animate /\ ui' = [u EXCEPT !.clip = "fixed", !.heightAnim = TRUE]
    /\ UNCHANGED inside

RunFrozenOpen ==
    /\ Due("frozenOpen")
    /\ ui' = [FrozenTransition(Taken, "open", "list") EXCEPT !.listMeasured = TRUE]
    /\ UNCHANGED inside

\* completeFrozenListOpen
RunOpenDone ==
    /\ Due("openDone")
    /\ LET open == HideFrozen([Taken EXCEPT !.mode = "none", !.closingActive = FALSE,
                                            !.wasExpanded = TRUE])
       IN IF ui.panelView # "list" THEN ui' = Taken
          ELSE \E m \in Measures :
                 ui' = UpdateShellWidth(SyncDetailHeight(RebuildDetail(open, m), FALSE), TRUE)
    /\ UNCHANGED inside

RunCloseDone ==
    /\ Due("closeDone")
    /\ ui' = HideFrozen([Taken EXCEPT !.mode = "none"])
    /\ UNCHANGED inside

HoverTimeout ==
    /\ ui.running /\ ui.hover
    /\ ui' = ClosePanel(ui)
    /\ UNCHANGED inside

WidthDone ==
    /\ ui.running /\ ui.widthAnim = "shell"
    /\ LET u == [ui EXCEPT !.widthAnim = "none", !.width = ui.widthTo]
       IN ui' = IF ui.panelView = "detail" THEN SyncDetailHeight(u, FALSE) ELSE u
    /\ UNCHANGED inside

FrozenDone ==
    /\ ui.running /\ ui.widthAnim \in {"open", "close"}
    /\ LET opening == ui.widthAnim = "open"
           u == [ui EXCEPT !.widthAnim = "none", !.closingActive = FALSE,
                           !.width = IF opening THEN "list" ELSE "closed"]
       IN ui' = Posted(u, [kind |-> IF opening THEN "openDone" ELSE "closeDone"])
    /\ UNCHANGED inside

SlideDone ==
    /\ ui.running /\ ui.slide
    /\ LET u == [ui EXCEPT !.slide = FALSE, !.listDetailAnimating = FALSE,
                           !.width = ui.widthTo]
       IN ui' = IF ui.stackView = "detail" /\ ui.panelView = "detail"
                THEN SyncDetailHeight(u, FALSE) ELSE u
    /\ UNCHANGED inside

HeightDone ==
    /\ ui.running /\ ui.heightAnim
    /\ ui' = [ui EXCEPT !.heightAnim = FALSE, !.clip = "own"]
    /\ UNCHANGED inside

BackdropDone ==
    /\ ui.running /\ ui.backdropAnim # "none"
    /\ ui' = [ui EXCEPT !.backdropAnim = "none", !.backdropShown = (ui.backdropAnim = "in")]
    /\ UNCHANGED inside

Callback ==
    \/ RunPanel \/ RunHeight \/ RunFrozenOpen \/ RunOpenDone \/ RunCloseDone
    \/ HoverTimeout \/ WidthDone \/ FrozenDone \/ SlideDone \/ HeightDone \/ BackdropDone

Next == Input \/ Callback

Spec == Init /\ [][Next]_vars

-----------------------------------------------------------------------------
(* Properties.                                                             *)

\* The fields the code switches on keep their ranges, and so do waiting callbacks.
TypeOK ==
    /\ inside \in BOOLEAN
    /\ DOMAIN ui = DOMAIN InitialUI
    /\ ToSet(ui.idles) \subseteq Idle
    /\ ui.payload \in Payloads \cup {<<>>}
    /\ ui.panelView \in Views /\ ui.stackView \in {"list", "detail"}
    /\ ui.pending \in Views \cup {None}
    /\ {ui.selected, ui.shown} \subseteq Sessions \cup {None}
    /\ ui.width \in Views \cup {"between"}

\* The detail page never shows a session that the panel no longer lists, so
\* "Open session" acts on one that was there at the last payload: a session that
\* ends while its detail is open gives way to the first one (rebuildDetail).
DetailIsListed == ui.panelView = "detail" => ui.shown \in ToSet(ui.payload)

\* The backdrop, which takes every click on the screen, is raised only while the
\* panel is open, also when the rebuild that closes it stops early (rebuildUI).
BackdropBehindPanel == ui.backdrop => ui.panelView # "closed"

\* The view that was asked for last is the one that a waiting callback will show,
\* so a request that schedulePanelView takes for a repetition is not lost, whatever
\* requests, rebuilds and payloads without sessions came before.
RequestWaits ==
    \A v \in Views :
        ui.pending = v <=> [kind |-> "panel", view |-> v] \in ToSet(ui.idles)

AtRest ==
    /\ ui.running /\ ui.idles = <<>>
    /\ ~ui.hover /\ ~ui.slide /\ ~ui.heightAnim
    /\ ui.widthAnim = "none" /\ ui.backdropAnim = "none"

\* The panel shows its view at its width and its full height, and nothing else.
SurfaceMatches ==
    /\ ~ui.frozen /\ ui.width = ui.panelView
    /\ IF ui.panelView = "closed" THEN ~ui.live
       ELSE ui.live /\ ui.stackView = ui.panelView /\ ui.clip = "own"

\* When nothing is left to run, the panel shows what panelView says, whatever
\* slides, width and height animations and payloads overlapped - as long as the
\* view did not change while the frozen list moved (rebuildUI gives way then).
UncrossedSettles == AtRest /\ ~ui.crossed => SurfaceMatches

\* The work that callbacks and timers stand for: a height callback may try again,
\* the end of a width animation or a slide posts one, the frozen list passes
\* through three callbacks, and a rebuild may start any of them.  Of the callbacks
\* of a height and of a view at most one waits; a request for the view that is shown
\* only takes itself away.
HeightWork == DetailRetries + 2
Waiting(u, kind) == {i \in DOMAIN u.idles : u.idles[i].kind = kind}
Attempt(u) == u.idles[CHOOSE i \in Waiting(u, "height") : TRUE].attempt
Flag(b, n) == IF b THEN n ELSE 0

FrozenWork(u) ==
    Cardinality(Waiting(u, "frozenOpen")) * (2 * HeightWork + 4)
    + Cardinality(Waiting(u, "openDone")) * (2 * HeightWork + 2)
    + Cardinality(Waiting(u, "closeDone"))
HeightLeft(u) == IF Waiting(u, "height") = {} THEN 0 ELSE HeightWork - Attempt(u)
RequestWork(u) ==
    IF u.pending = None THEN 0
    ELSE IF u.pending = u.panelView THEN 1 ELSE 3 * HeightWork + 6
TimerWork(u) ==
    Flag(u.hover, 3 * HeightWork + 7)
    + Flag(u.widthAnim = "shell", HeightWork + 1)
    + Flag(u.widthAnim \in {"open", "close"}, 2 * HeightWork + 3)
    + Flag(u.slide, HeightWork + 1)
    + Flag(u.heightAnim, 1) + Flag(u.backdropAnim # "none", 1)
Work(u) == FrozenWork(u) + HeightLeft(u) + RequestWork(u) + TimerWork(u)

\* Every callback and timer leaves less work than it found: none starts itself or
\* another over and over, so the panel comes to rest once inputs stop.
CallbacksDrain == [][Work(ui') >= Work(ui) => ~Callback]_vars
=============================================================================
