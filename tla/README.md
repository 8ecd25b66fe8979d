# A TLA+ model of way-island

way-island shows the coding agents that run on a desktop. Each agent (Claude
Code, Codex and others) calls `way-island hook` at the events of its life; the
hook sends one JSON message over a Unix socket to the daemon, which keeps a table
of sessions, notices when an agent goes away, and feeds a GTK panel. This
directory models the daemon, its panel and its commands in TLA+, checks them with
TLC and proves with TLAPS every safety property that the passing runs check. Source
paths are relative to the repository.

## Inventory

| Component (source) | State | Operations | What makes it correct |
|---|---|---|---|
| session manager (`internal/socket/session_manager.go`) | maps `sessions`, `monitors`; channel `updates` (32) | `HandleMessage`, `removeSession`, `ensureSessionMonitor`, `clearSessionMonitor`, `handleSessionProcessExit`, `deferredReadLastAssistantMessage`, `pruneExpired` | a live agent keeps its session, a dead one loses it; only a hook moves a stamp or names the agent anew; each pidfd has one owner |
| process monitor (`process_monitor_linux.go`) | one pidfd and one goroutine per monitored agent | `newSessionProcessMonitor`, `wait`, `Close` | reports an exit at most once and not after `Close` |
| host PID resolver (`host_pid_resolver.go`) | none | `Resolve`, `matches`, `findByNamespace` | names the agent's process or none |
| metadata readers (`claude_session_metadata.go`, `codex_session_metadata.go`, `internal/jsonl/parser.go`) | none | read transcripts and session files | states derived from a log agree with the log |
| overlay store (`overlay_model.go`) | `sessions`, `order`, `suppressedIDs` | `Apply`, `SetSuppressed`, `Payload` | lists each session once, never prefers the record of an earlier event |
| UI forwarder (`ui_updates.go`) | last flush, timer, cached tty of the active pane | one `select` loop | the panel ends with what the store has, at most one flush per interval |
| approval detector (`approval_detector.go`) | one goroutine per observed tool run, channel of 8 | `Observe`, `detect` | a prompt belongs to the run that was observed |
| socket server and client (`server.go`, `client.go`) | listener, socket file | `Start`, `handleConn`, `Close`, `cleanup` | one daemon owns the path, a stale file is replaced |
| command line (`cli.go`) | none | `runDaemon`, `runHook`, `runInspect`, `runFocus` | start and stop of the parts in the right order |
| hook installation (`cli_init.go`) | agents' configuration files | merge of hook entries and of a TOML setting | idempotent, keeps the commands of others and the other lines |
| focus and tmux (`focus.go`, `tmux.go`, `proc.go`) | tmux's global title options | `Focus`, `retryFocusWithTmuxTitles`, `capturePaneText` | titles are as before afterwards |
| Wayland client (`wayctl.go`) | toplevels known so far | roundtrips, `findToplevel` | activates the window that was asked for |
| GTK panel (`app_gtk.go`) | view, pinned, selection, running transitions | hover, click, payloads, animation callbacks | view and transitions agree |
| style reload (`app_gtk.go`, `config.go`) | watched directories, debounce timer, last style | `watchCSSChanges` | the panel has the style that the files say |
| view model (`ui_view_model.go`, `ui_render.go`, `ui_width.go`) | none | payload to rows | every row of the payload is shown |
| not of interest: `internal/gtkmini` (cgo bindings), `ui_snapshot_*.go` (test tools), `debug.go` | | | |

How they interact:

    hook -> socket server -> HandleMessage -> updates -> forwardUIUpdates -> overlayModel
                             |    ^                       |        ^           |
                             v    | exit callback         v        |           v
                          pidfd monitors            approval detectors     GTK panel
    ticker -> pruneExpired        deferred transcript reads

Every connection, pidfd, deferred read and detector is a goroutine of its own.
They share the manager's maps (under `m.mu`), the store (under its own lock) and
the channels. No lock is held while a goroutine notifies, opens or closes a
descriptor, sleeps or runs tmux: this is where the hard behaviour is. Nothing is
persisted; a restarted daemon starts empty and learns its sessions from the next
hooks. `PROJECT.json` lists the hazards at the lines where they bite.

## Modules

**SessionManager** models the manager and its monitors. A critical section of the
code is one action; what a goroutine does after it unlocks is an action of its
own, and `pc[t]`, `job[t]` hold the control state and locals of goroutine `t`.

| Code | Actions |
|---|---|
| `HandleMessage` to its unlock | `HandleMessage`, with `Upserted` for the new record; `EndSession` for `session_end` |
| the Upsert after the unlock | `Announce` (also for deferred reads) |
| `ensureSessionMonitor` | `CheckMonitor`, `ResolvePid`, `OpenMonitor` or `OpenFails`, `InstallMonitor`, `CloseMonitor`; `ClearMonitor` when there is no agent or no descriptor |
| `removeSession` | `Remove`, then `CloseRemoved`, `AnnounceRemoval` |
| `wait`, `handleSessionProcessExit` | `MonitorWakes` or `PollFails`, `CheckExit`, `RemoveExited` |
| `deferredReadLastAssistantMessage` | `ReadTranscript`, `StoreReply`, `Announce` |
| `Start`, `pruneExpired` | `PruneTick`, `PruneExpired`, `AnnounceExpired` |

Of a session the model keeps the state, the subagent flag, the agent's identity
(pid and start time; a pid stands for the pid with its namespace), the stamp
`lastEventAt` and the last reply, a number that grows with the transcript. Names,
tools and messages for display are left out. The agents are processes with a pid,
a start time and a life (unborn, running, exited), so that a pid can be reused; a
hook may say all, part or nothing about its agent (`Claims`). `Contained` and
`Hidden` are the pids in a small namespace or jail for which the code refuses to
guess, and those of them no scan of `/proc` finds.

**SessionRegistry** is the abstract specification of the manager: a table of records,
a clock and the number of hooks that have come. `Refresh` and `End` are a hook's and
count it; only they write a stamp or an identity, field by field (`Reported`).
`Annotate` is a late reply, which changes the reply and nothing else, and `Drop`
removes sessions; neither may be taken for a hook. `ImplementsRegistry` in
SessionManager is its instance. A pid kept from one hook beside the start time of
another is permitted, because the code keeps each field for itself.

**OverlayModel** has the store's methods as operators, **SessionPipeline** composes
the manager with a store fed by its channel, and **UIUpdates** models the forwarder
with the throttle, the suppression of the active pane's session and the approval
detectors, with the manager as an environment that sends updates of any order. A
branch of the `select` loop that leaves the loop's own state (a tmux command, a
detector that reads the store) is split into steps. Time is kept as ages and
remaining times, which need no bound, because nothing in the code tells two
instants apart once both are older than the interval.

**Panel** models `gtkUI`: its fields, the visibility and sizes of its widgets as far
as the code sets them, and the queue of its idle callbacks. Each function of the
code that other functions call is an operator from one such state to the next
(`SetStackView`, `RebuildUI`, `SyncDetailHeight` ...); each handler, idle callback
and timer is an action:

| Code | Actions |
|---|---|
| pointer and click handlers | `HoverEnter`, `HoverLeave`, `ClickPill`, `ClickRow`, `ClickPage`, `ClickBack`, `FocusSession`, `ClickBackdrop` |
| `scheduleSessionsPayloadUpdate`, `scheduleApplicationQuit` | `DeliverPayload`, `Quit` |
| idle callbacks | `RunPanel`, `RunHeight`, `RunFrozenOpen`, `RunOpenDone`, `RunCloseDone` |
| timers | `HoverTimeout`, `WidthDone`, `FrozenDone`, `SlideDone`, `HeightDone`, `BackdropDone` |

GTK runs idle callbacks of one priority in the order they were added, and a timer or
an input between any two. The callbacks that goroutines add (payload and quit) are
delivered directly, since they come at any moment. Ticks of an animation before its
last change only pixels; a width is named by the view that it fits, or "between".
What the code measures is a nondeterministic choice (`Measures`). `crossed` is a
history variable: the view changed while the frozen list moved.

**ViewModel** has the functions from a payload to pill, rows and detail,
**Toplevels** the choice of a terminal window and of a tmux pane, both as operators
with a reference to compare with. **Questions** asks them one question: its initial
states are the inputs, and nothing happens after that. **Lists** has the filter that
these modules and HookFiles share, written as a recursive function so that it can be
proved about.

**SocketServer** models runs of the daemon on one socket path and the commands that
connect to it. `prepareSocketPath` is three steps (`Stat`, `Probe`, `ClearPath`),
`net.Listen` two (`Bind`, `Listen`), and the end of a daemon `Stop`, `Unlink` (by Go's
listener), `CloseListener` and `Cleanup`; `Crash` may come between any two. The
socket file is named by the daemon that bound it, so that a remove can hit a
successor's. `alone` and `disturbed` are history variables.

**FocusRequests** models concurrent `Focus` calls: every tmux command of `focusTmux`
and `retryFocusWithTmuxTitles` is an action, and nearly all may fail. The
state of tmux (its two options, the session of each client, the window of each
session) is shared; a title reaches a terminal only while `set-titles` is on.
**WaylandClient** is the conversation of one `focusTerminalWindow` with a compositor
whose windows open, close and change their titles at any moment: a queue of requests
and one of events, with the client's roundtrips, handlers and deadlines. The windows of
a list and the interfaces of a registry come in any order.

**StyleWatch** models `watchCSSChanges` with the first load before it: the
configuration directory, the style directory, the two files, links to another
directory, the watches on each of them, the debounce timer and the two reads of a
reload. **HookFiles** models runs of `way-island init` as reads and writes of three
files, around the merges `EnsureHookEntry` and `MergeFeature`; `doing` is the step that
is due, and `first` and `touched` are history variables. A hook is its command, and the
commands and the lines of `config.toml` are members of a set `Texts` of which the code
tells a few apart. A hook file is a record: its matchers, and flags for what the structs
of the code have no place for: other fields of a hook (`extras`), an entry of
another shape beside the matchers (`odd`), and other keys of the file (`keys`). Decoding
is what the code makes of them: `ClaudeHeld` drops the fields, keeps the keys and holds
no matcher at all when one entry is odd; `CodexHeld` drops fields and keys, and an odd
entry is an error. Lines are read twice: `Header` and `Assigns` are the code's tests on a
trimmed line, `TomlHeader`, `TomlSetting` and `FeaturesHeaders` what TOML says of it. They
differ on headers with a comment, lines of an array, quoted keys and keys that
`codex_hooks` begins (`Misread`).

**MCParts** extends SocketServer, StyleWatch, WaylandClient, HookFiles and Questions and
composes them as alternatives: `part` says which of them a behaviour is about. They share
no state, so a product would only multiply their states; a behaviour of the sum is a
behaviour of one part, while the variables of the others stay as they began.

The other **MC\*** modules give the constants values for TLC.

**SessionProofs** (for SessionManager and SessionPipeline), **OverlayModelProofs**,
**UIUpdatesProofs**, **DaemonProofs** (for SocketServer and StyleWatch),
**FocusRequestsProofs**, **WaylandClientProofs**, **FunctionProofs** (for HookFiles and
Questions) and **PanelProofs** hold the proofs.

## What the runs check

| Run | Instance | Shows |
|---|---|---|
| manager_safety | 1 session, 3 agents two of which use one pid in turn, claims in full or without a start time, 2 handlers, 2 pidfds, 2 messages, channel of 1, clock and timeout of 1 | `TypeOK`; `MonitorOwnership`: every open pidfd has exactly one owner; `LiveSessionKept`: only a hook ends the session of a running agent |
| manager_agent | 1 session, 1 contained agent with full, partial and empty claims, 1 handler, 2 pidfds, 1 deferred read, 2 messages, fairness | `ImplementsRegistry`: only a hook stamps a record or names its agent, a late reply changes the reply alone; `ExitedAgentLeaves`: a session whose agent is gone leaves, also when Poll failed or no pidfd could be opened |
| pipeline_order | 2 sessions (a Claude one, a Codex one that may be a subagent), 2 handlers, 1 deferred read, 3 messages, channel of 2 that does drop updates | `StoreListsOnce`; `StoreShowsLastEvent`: once nothing is in flight, the store shows, of every session that was never removed and lost no update, a record that its last event left in the manager |
| ui_safety | 2 sessions, 2 detectors, interval 2, cache of 1, channels of 1, 2 updates of the manager, fairness | store consistency, `NoForgottenFlush`, `FlushesSpaced`, `FlushNotPostponed`, `PanelCatchesUp` |
| panel_safety | 2 sessions, payloads of 0, 1 and 2 of them, 1 retry of a height, 2 waiting callbacks when a payload comes | `DetailIsListed`: the detail shown is of a listed session; `BackdropBehindPanel`; `RequestWaits`: the view asked for last is the one a callback will show; `UncrossedSettles`: at rest the panel shows its view at its width and height; `CallbacksDrain`: callbacks do not start each other for ever |
| focus_safety | 2 requests for panes of 2 sessions, 2 clients of which one or both are foreign, 2 failures | `TitlesRestored`: after requests one at a time, none of whose restoring commands failed, the options are the user's; `ClientsReturned`: no client is left on another session than it showed but the one raised, and the first when none showed the session |
| parts | see below | the properties of the other modules |

The properties of **parts**, with the instance each is checked on:

| Part | Instance | Properties |
|---|---|---|
| question: window, pane | up to 3 windows of 8 kinds, titles of 2 parts; process trees of 3 with cycles and unreadable parents, climbs of 4 | `ChosenByTitle`: any order of the map gives the same title, the one the reference accepts; `NearestPane` |
| question: view | payloads of up to 2 sessions and an unreadable line, with and without subagents of their own, waiting or idle | `SubagentsAgree`: list, heading and rows of the detail tell the same subagents |
| socket | 2 daemons, 1 client, crashes, failing Accept, fairness of the server | `OneDaemonReachable`; `StaleFileNoObstacle`; `CommandsEnd`: a command that has connected ends |
| wayland | 2 windows, 2 titles, 3 changes, fairness of the client | `ChoosesAmongAll`: the choice is made among all windows there were; `OkMeansRaised`: a focus that reports success has raised its window; `RaisingEnds` |
| style | 2 files, 4 changes of the disk | `StyleFollowsFiles`: with no event waiting and no timer running, the panel has the files' style |
| hooks | hook files of up to 2 matchers with every combination of flags, configurations of up to 3 lines of 10 kinds, half of them misread; 2 runs of init, crashes and edits | `OneHookBesideOthers`: one hook of way-island beside the commands of others, and Claude's other settings; `CodexHooksOn`: in a file that TOML accepts, with every other line |

Five runs expect a violation; each is a disagreement between the code and what the
repository says of it.

- **manager_stale_exit**: `handleSessionProcessExit` compares identities under one
  lock and removes under another, so a hook that names a new agent in between loses
  its session. The test of the stale exit expects the session "to remain".
- **pipeline_mirror**: updates are sent after the unlock. An Upsert that follows the
  Timeout of its session into the channel leaves a session in the store that the
  manager does not have, and no later tick removes it.
- **ui_stale_detection**: the detector reads the session before it runs
  `tmux capture-pane` and stamps what it read with the time after, so a newer state is
  overwritten by "waiting".
- **focus_restore**: two focus requests overlap, the second saves the options the
  first has set and restores those after it. The comment on the function says that
  the original values "are always restored". With requests one at a time this is so
  (`TitlesRestored`).
- **ui_stale_suppression**: a session stays suppressed after its pane is left, until its
  own next hook; the comment on the field says it holds the active pane's sessions.

Bounds. `MaxMessages`, `MaxClock`, `MaxTime`, `MaxReplies` and `MaxUpdates` end
the runs; the sets of handlers, monitors and readers are the bound on goroutines (a
hook that would need a further reader waits). One session is enough where the
property is about one session's monitors, because entries of different ids never
touch. Two messages are enough to replace an agent by one that has its pid, and two
handlers to do it from both ends at once; two pidfds allow one in the table and one
being closed or installed. What a third message, handler or pidfd could add is covered
by the proofs, which hold for any number. The pipeline's channel of two drops updates, so the history
variable `disturbed` is needed and used. The pruner always can tick, so no run
switches the deadlock check off: goroutines that wait on each other would be found.

The bounds of the other runs: two daemons are enough for a predecessor and a
successor, one client because connections do not meet; two requests and two failures
show every overlap of two, every early return and a failing repair; in Wayland three changes allow a
window to open, change and close around the two roundtrips; four changes of the disk
make and remove the directory with a file or a link in it, and change it again; two
runs of init are enough to find what the first left. `MaxIdles` bounds only the
moment of a payload, never the callbacks that the panel posts itself. Panel and the
parts end (a program quits, a request is answered), so their runs switch the deadlock
check off; that they do not end too early is what `UncrossedSettles`, `CommandsEnd` and
`RaisingEnds` say.

Some properties exclude a state that the code does not handle, by a history variable
or a condition with a name: `disturbed` of SocketServer (two daemons that start or stop
at the same time may remove each other's file, and Accept may fail for good), a focus
request before `SetFocuser` in `Released`, `crossed` of Panel (`rebuildUI` returns early
while the frozen list moves), `early` and `unread` of StyleWatch (a change between the
first load and the watch; a file that cannot be read), `touched` of HookFiles (a write
cut short, an edit at the same time), `HasOdd` of a Claude event (all its matchers are
lost, those of others too) and `Misread` lines of `config.toml` (the merge then writes a
table or key a second time, or in the wrong place), `overlapped` and `unrestored` of FocusRequests.
PROJECT.json lists them as hazards at their lines. `HasOdd` and every kind of `Misread`
line have been taken out of the exclusions in turn: TLC then finds the property violated,
so neither is wider than the code demands. And two properties promise less than one might
wish, because the code does: `StoreShowsLastEvent` does not say which of several records
of one stamp the store ends with (a late reply keeps the stamp, so the copy of the handler
before it may overwrite it), and `OneHookBesideOthers` speaks of commands, not of a hook's
other fields, nor of the other keys of Codex's file.

Fairness. The Go scheduler runs every goroutine that can run (weak fairness for each
handler's pending work, each monitor, reader and detector and for the forwarder), the
ticker ticks (`Prune`) and time passes (`Tick`). Nothing makes a hook arrive, an agent
exit, Poll fail or the daemon stop. In SocketServer the accept loop and the goroutines
of its connections are scheduled (`Serve`), but no daemon need start or stop. In
WaylandClient only the client is fair, not the compositor: each of its reads has a
deadline. Panel states no fairness: `CallbacksDrain` is a ranking argument, an action
property by which every callback lessens the work that is left, so nothing but an input
keeps the panel from coming to rest.

## What is proved

The proofs hold for every value of the constants that satisfies the assumptions named
in the modules. Goroutines are of one kind each; `None` is no value; pids are positive;
bounds, capacities and intervals are natural numbers; a payload is a list of sessions;
a roundtrip's callback is no window. SessionManager, UIUpdates and Panel state theirs
with ASSUME. `SocketAssumption`, `StyleAssumption`, `FocusAssumption`,
`WaylandAssumption`, `HookAssumption` and `QuestionAssumption` are hypotheses of the
theorems, and the MC modules assume them of their instances, so TLC has evaluated each.
The last two say only that lists are lists, of any length and of anything, and that a
process has a parent or one that cannot be read.

SessionProofs, about the manager:

- `TypeCorrect`: `TypeOK` is not inductive, because a goroutine's locals are typed only
  where it has them. `TypeInv` adds `Ready`, which says for each control state which
  locals are set. One step per action.
- `OwnershipCorrect`: every open pidfd has exactly one owner. The strengthening `Linked`
  says that a handler about to install a monitor holds the one started for its own
  session and agent, and that a monitor that was never opened is not running. Most
  actions move no descriptor (`UndisturbedOwnership`); opening, installing, taking out
  and closing one have a lemma each.
- `LiveSessionStays`: `LiveSessionKept` as an action property, under two hypotheses that
  MCSessionManager assumes of its instance: a hook names the process it runs under as far
  as it names one (`HooksNameTheirAgent`, what `attachAgentMetadata` does), and no process
  has the pid of one agent and the start time of another (`AgentsToldApart`). Without the
  second a record pieced together from two hooks could name a third process. The
  invariant, `LifeInv`: records name processes that have been born, at most one process
  runs under a pid, and no process but the one a monitor watches can still be its agent.
- `RegistryImplemented`: the refinement of SessionRegistry. A hook that is handled is a
  `Refresh` (`HandleMessageRefreshes`) or an `End`, each counted; a stored reply is an
  `Annotate`, which must leave stamp, state and identity as they are; the removal by an exit
  and a prune are a `Drop`; everything else leaves table, clock and count alone.

And about the manager with the store (SessionPipeline), for any number of handlers:

- `StoreListsEachOnce`, from the lemmas of OverlayModelProofs and the types of the
  updates under way.
- `StoreHasLastEvent`: whatever the order in which handlers and readers send, the store
  ends with a record of the last event of a session that was never removed and lost no
  update. It needs that stamps are not in the future (`StampsPast`), that a Timeout under
  way is about a session that was removed (`TimeoutsOfRemoved`), that nothing under way or
  stored is newer than the manager's record (`NoneNewer`), that a record with the manager's
  stamp is somewhere: in the store, in the channel or with the goroutine that will send it
  (`NewestHeld`), and that all of those are records that the manager has had (`HeldIsMade`).

OverlayModelProofs: `ApplyConsistent` and `SetSuppressedConsistent`, the store's methods
keep any consistent store consistent, from the lemma that `Without` takes one id out of
a list without duplicates.

UIUpdatesProofs, for every interval, channel capacity and number of detectors:
`StoreListsEachOnce` and `TypeCorrect`, by a strengthening that types the queues and
the goroutines' locals and says that the session whose suppression is being decided
is still in the store (`JustApplied`); `FlushesAreSpaced`, `FlushIsNotPostponed` and
`NothingForgotten`, from `TimerInv`: a timer that runs is due exactly one interval
after the last flush.

PanelProofs, for any payloads and any number of waiting callbacks: `TypeCorrect`,
`DetailListed`, `BackdropBehind`, `LastRequestWaits`, `Settles` and `Drains`. The functions of the
code call each other, so there is one lemma for each operator, which says what fields it
changes (`Only`) and what it establishes; the actions follow from those. `Orderly` says
that of panel and height callbacks one each is queued, and that the panel's is for the view asked
for last. `Settling` lists every way in which the surface may differ from
`panelView` with the timer or callback under way that ends it; `rebuildUI`
takes a panel that is only `Ready`, where nothing moves to another view, back to it.

`Drains` proves `CallbacksDrain` by the measure `Work`: a weight for each callback of the
frozen list that waits, what is left of the one height callback, a weight for the one
request, and one for each timer. `Shifted` and `Appended` say what taking a callback out
of a queue and adding one do to the number of each kind. `Costs` bounds what each function
adds, up to `RebuildUICosts`: a rebuild adds less than the request that led to it stood
for. Then each callback and timer has a lemma of its own: what it was weighed as is more
than what it starts. The measure is a natural number (`WorkOrderly`), so from any state
at most that many callbacks run before the next input.

DaemonProofs, about SocketServer for any number of daemons and clients:
`SocketTypeCorrect`, `ServerReachable` (`OneDaemonReachable`) and `StaleFileCleared`
(`StaleFileNoObstacle`). While nothing is disturbed, `PathInv` says that at most one daemon
is starting or stopping (`OneBusy`), that nobody serves once a daemon has gone to take
the path, which is its own from `Bind` on (`PathTaken`), and that for a daemon that started
alone still nobody listens (`AloneStill`).

And about StyleWatch, for any number of changes: `StyleTypeCorrect` and `StyleUpToDate`
(`StyleFollowsFiles`). Whatever the watches do not cover, or the panel does not wear yet,
has an event or a timer waiting that will renew and reload (`Covered`), and before there
are watches nothing has changed unseen (`Unwatched`).

FocusRequestsProofs, for any number of requests, clients and failures: `TypeCorrect`,
`OptionsRestored` (`TitlesRestored`) and `ClientsComeBack` (`ClientsReturned`). Without an
overlap one request runs at a time (`Alone`). At each label, `KeepsTitles` says whether
the options are untouched and that what has been saved is the user's, and `KeepsClients`
why a client may show another session than before: it was taken there to show
the session at all, it is in the list to be sent back, or its terminal was raised.

WaylandClientProofs, for any windows and titles: `TypeCorrect`, `SuccessMeansRaised`
(`OkMeansRaised`) and `ChoosesAmongEvery` (`ChoosesAmongAll`). The invariant says which
requests of a roundtrip are left (`Asking`), that one answer at most is on its way and only after
the compositor has served them (`Answer`), that a handle comes once and before anything
else about its window (`OneHandle`, `InOrder`), that an open window is known or on
its way (`Reported`), and that, when the answer comes, its title and its `done` will have
been read (`Complete`).

FunctionProofs, about functions on lists of any length: `HookTypeCorrect`, `HooksKept`
(`OneHookBesideOthers`), `CodexTurnedOn` (`CodexHooksOn`), `WindowChosenByTitle`
(`ChosenByTitle`), `PaneIsNearest` (`NearestPane`) and `ViewSubagentsAgree`
(`SubagentsAgree`).

- The provers cannot instantiate an induction principle over predicates, so the induction
  is over sets: `Smallest` (a set of numbers has a least element) comes from the library's
  theorem that `<` is well founded, and `SetInduction` and `ListInduction` from that. `Recursion`
  says that a recursive function on `0..n` has the values its definition gives, and
  `KeepDef` and `FlattenDef` say it of the two that are used; the lemmas after them
  (`KeepAppend`, `KeepConcat`, `KeepFlatten`, `KeepCount` ...) are the ones that the other proofs
  cite.
- Hook files. `EnsureEnsures` says what one merge makes of a hook file and `MakesTableMerges`
  and its neighbours what one makes of `config.toml`, by the way that it took: a new
  table, a line in an empty one, before the next header, or in place of another. `HookTypes`
  types the files and says that every write is of what was read and decoded
  (`ClaudeIsHeld`, `CodexIsHeld`). `HookInv` says, unless `touched`, that each file is what it
  was at first or keeps and installs what it should (`Written`, `Turned`), and that what a run has read and is to write back is still
  what the file holds, decoded (`HeldInv`). The proofs about lines go by the code's tests; on
  lines of which none is `Misread` these are TOML's (`ClearMeans`), which is all that is needed
  to read the result as TOML does (`ValidMeans`).
- Questions. `WindowRight`: the choice goes by a score and a prefix order that is total
  (`PrecedesTotal`), so the best of any list leads all others (`BestLeads`). `PaneRight`: the
  climb along the parents finds what the least distance would (`AncestorsClimb`,
  `NearestNears`), also with cycles and numbers used again. `ViewRight`: list, heading and rows
  count the same filtered lists.

Only model-checked:

- `ExitedAgentLeaves`, `PanelCatchesUp`, `CommandsEnd` and `RaisingEnds`, because fairness is
  out of the prover's reach.
- `PartsTypeOK` as one formula. Its four conjuncts are `SocketTypeCorrect`, `StyleTypeCorrect`,
  WaylandClient's `TypeCorrect` and `HookTypeCorrect`; of the composition, which only leaves
  the other parts' variables alone, nothing is proved.
- The five violations, each a behaviour that TLC shows.

## Not modelled

- Contents that no property is about: display names, tool details, message texts, the
  TSV encoding, labels, the serialisation of views that the snapshot tests compare.
- `Resolve` is what it promises, the processes that match; its scan of `/proc` is not.
  Whether a process lives is read in one step with the lock that `pruneExpired` holds
  anyway. The states that metadata readers derive from transcripts are inputs.
- How a hook's JSON is recognised and normalised (`cli.go`, from `attachAgentMetadata`
  on), a long case analysis without state.
- Of the panel: pixels, the ticks of an animation before the last, `hideWhenDone` of
  `animateDetailHeight`, which no caller sets, a shell without a width.
- Of Wayland: the byte encoding, object ids, and `Close`, whose messages change
  nothing that anybody reads. A window without a name is never offered.
- Of the style: links that lead nowhere, renames of the directory, and a watch that cannot
  be added when the watches are renewed (`app_gtk.go:1866`).
- Of focus requests: `Focus` succeeds early when its target names no window
  (`focus.go:147`). `Attach` and `Select` each stand for two tmux commands that follow each
  other, the first of which may fail.
- Of the hook files: which of the hooks has other fields, and of `config.toml` spellings
  beyond the ten kinds of lines; one line of each kind that the code misreads stands for
  the others (an inline table or a header with blanks for `[features] #`).
- `internal/gtkmini` (cgo bindings) and the snapshot tools, which keep no state of
  their own.

## Plan

All the modules of the plan are written. Every safety property that a passing run
checks is a theorem, but for the conjunction `PartsTypeOK`; what remains to be checked
by TLC alone is liveness.
