------------------------------ MODULE StyleWatch ------------------------------
(***************************************************************************)
(* The style sheets that are reloaded while the panel runs (app_gtk.go     *)
(* from runUI, config.go): the program's own directory and the two files   *)
(* in it may appear, change and go away, and a file may be a symbolic link  *)
(* into another directory.  A directory is told apart from an earlier one  *)
(* of the same name by its number.  inotify and fsnotify are external: one *)
(* queue of events, and a list of watches that is corrected when the event  *)
(* of a removed directory is read.                                         *)
(***************************************************************************)
EXTENDS Naturals, SequencesExt

CONSTANT MaxChanges    \* bound: changes to the directory and the files, with the first state

\* What is assumed of the constants.
StyleAssumption == MaxChanges \in Nat \ {0}

VARIABLES
    dir,         \* the number of the directory, 0 when there is none
    content,     \* the version of each file, 0 when there is none
    linked,      \* the files that are links into the other directory
    changes,     \* changes so far, which number the versions and directories
    events,      \* what inotify has reported and the loop has not read
    watcher,     \* where the program is
    watchConfig, watchDir, watchOther,  \* inotify's watches; watchDir is a number
    listedDir,   \* fsnotify lists the directory as watched
    watchPaths,  \* the files that were links when cssWatchPaths last looked
    timer,       \* reloadTimer: "none", "running", "ticked" or "spent"
    last,        \* lastCSS, as the versions it was read from
    half,        \* the version of style.css that a reload has read
    unread,      \* history: the last attempt to read the files failed
    early        \* history: something changed between the first load and the watch

disk == <<dir, content, linked, changes>>
watches == <<watchConfig, watchDir, watchOther, listedDir, watchPaths>>
styleVars == <<disk, events, watcher, watches, timer, last, half, unread, early>>

Files == {"style", "user"}

StyleInit ==
    /\ dir \in {0, 1} /\ changes = 1
    /\ \E present \in SUBSET Files :
          /\ content = [f \in Files |-> IF f \in present /\ dir = 1 THEN 1 ELSE 0]
          /\ linked \in SUBSET {f \in present : dir = 1}
    /\ events = <<>> /\ watcher = "load"
    /\ watchConfig = FALSE /\ watchDir = 0 /\ watchOther = FALSE
    /\ listedDir = FALSE /\ watchPaths = {} /\ timer = "none"
    /\ last = [f \in Files |-> 0] /\ half = 0 /\ unread = FALSE /\ early = FALSE

-----------------------------------------------------------------------------
(* What the user does, and what inotify reports of it.                     *)

Reports(kind, what) ==
    events' = IF events # <<>> /\ Last(events) = <<kind, what>> THEN events
              ELSE Append(events, <<kind, what>>)

Changes ==
    /\ changes < MaxChanges /\ changes' = changes + 1
    /\ early' = (early \/ watcher \in {"add", "ensure"})
    /\ UNCHANGED <<watcher, watchConfig, watchOther, listedDir, watchPaths>>
    /\ UNCHANGED <<timer, last, half, unread>>

\* The directory is watched under the number it has now.
Watched == dir # 0 /\ watchDir = dir
InDir(f) == IF Watched THEN Reports("entry", f) ELSE UNCHANGED events

MakeDir ==
    /\ dir = 0 /\ Changes /\ dir' = changes'
    /\ IF watchConfig THEN Reports("dir", "made") ELSE UNCHANGED events
    /\ UNCHANGED <<content, linked, watchDir>>

\* rm -r; the kernel drops the watch of a directory that is gone.
RemoveDir ==
    /\ dir # 0 /\ \A f \in Files : content[f] = 0
    /\ Changes /\ dir' = 0 /\ watchDir' = 0
    /\ IF Watched \/ watchConfig THEN Reports("dir", "gone") ELSE UNCHANGED events
    /\ UNCHANGED <<content, linked>>

\* A file is written, or replaced by a link or by a file.
WriteFile(f, link) ==
    /\ dir # 0 /\ (f \in linked => ~link) /\ Changes
    /\ content' = [content EXCEPT ![f] = changes']
    /\ linked' = IF link THEN linked \cup {f} ELSE linked \ {f}
    /\ InDir(f)
    /\ UNCHANGED <<dir, watchDir>>

RemoveFile(f) ==
    /\ content[f] # 0 /\ Changes
    /\ content' = [content EXCEPT ![f] = 0] /\ linked' = linked \ {f}
    /\ InDir(f)
    /\ UNCHANGED <<dir, watchDir>>

\* The file behind a link is written, in the other directory.
WriteTarget(f) ==
    /\ f \in linked /\ Changes
    /\ content' = [content EXCEPT ![f] = changes']
    /\ IF watchOther THEN Reports("target", f) ELSE UNCHANGED events
    /\ UNCHANGED <<dir, linked, watchDir>>

User ==
    \/ MakeDir \/ RemoveDir
    \/ \E f \in Files : RemoveFile(f) \/ WriteTarget(f) \/ \E link \in BOOLEAN : WriteFile(f, link)

-----------------------------------------------------------------------------
(* The program.                                                            *)

\* runUI calls loadAppCSSFromPaths; nothing is known to have changed before it.
FirstLoad ==
    /\ watcher = "load" /\ watcher' = "add"
    /\ \/ last' = content /\ unread' = FALSE
       \/ (\E f \in Files : content[f] # 0) /\ unread' = TRUE /\ UNCHANGED last
    /\ UNCHANGED <<disk, events, watches, timer, half, early>>

\* ensureCSSDirWatch for the directory itself and for the one that links lead to.
EnsureWatches(listed, paths) ==
    /\ watchPaths' = paths
    /\ watchDir' = IF dir # 0 /\ ~listed THEN dir ELSE watchDir
    /\ listedDir' = (listed \/ dir # 0)
    /\ watchOther' = (watchOther \/ paths # {})

\* watchCSSChanges: the paths and the configuration directory, then the others.
AddConfig ==
    /\ watcher = "add"
    /\ watcher' = "ensure" /\ watchConfig' = TRUE /\ watchPaths' = linked
    /\ UNCHANGED <<disk, events, watchDir, watchOther, listedDir, timer, last, half, unread, early>>

AddOthers ==
    /\ watcher = "ensure" /\ watcher' = "loop" /\ EnsureWatches(FALSE, watchPaths)
    /\ UNCHANGED <<disk, events, watchConfig, timer, last, half, unread, early>>

\* inotify fails, and changes go unnoticed.
NoWatch ==
    /\ watcher = "add" /\ watcher' = "blind"
    /\ UNCHANGED <<disk, events, watches, timer, last, half, unread, early>>

\* resetReloadTimer, and a mutant that does not reset a timer that has been used.
StartOnce == timer' = IF timer = "none" THEN "running" ELSE timer
StartTimer == timer' = "running"

\* Mutant: links are resolved when the watch starts, and not again.
ResolvedAtStart == watchPaths
Resolved == linked

\* One event of the watcher.
NextEvent ==
    /\ watcher = "loop" /\ events # <<>>
    /\ LET kind == Head(events)[1]
           what == Head(events)[2]
           listed == listedDir /\ what # "gone"
       IN IF kind = "target" /\ what \notin watchPaths
          THEN UNCHANGED <<watches, timer>>
          ELSE EnsureWatches(listed, Resolved) /\ StartTimer /\ UNCHANGED watchConfig
    /\ events' = Tail(events)
    /\ UNCHANGED <<disk, watcher, last, half, unread, early>>

Ticks ==
    /\ timer = "running" /\ timer' = "ticked"
    /\ UNCHANGED <<disk, events, watcher, watches, last, half, unread, early>>

\* The loop reads one file, then the other; it applies what differs from the last
\* style.  An error leaves the style as it is.
Reload ==
    /\ watcher = "loop" /\ timer = "ticked" /\ timer' = "spent"
    /\ watcher' = "reading" /\ half' = content["style"]
    /\ UNCHANGED <<disk, events, watches, last, unread, early>>

ReadOther ==
    /\ watcher = "reading" /\ watcher' = "loop"
    /\ \/ last' = [style |-> half, user |-> content["user"]] /\ unread' = FALSE
       \/ (\E f \in Files : content[f] # 0) /\ unread' = TRUE /\ UNCHANGED last
    /\ UNCHANGED <<disk, events, watches, timer, half, early>>

Program ==
    FirstLoad \/ AddConfig \/ AddOthers \/ NoWatch \/ NextEvent \/ Ticks \/ Reload \/ ReadOther

StyleNext == User \/ Program

StyleSpec == StyleInit /\ [][StyleNext]_styleVars

-----------------------------------------------------------------------------
(* Properties.                                                             *)

\* Versions, watches and the timer keep their ranges.
StyleTypeOK ==
    /\ dir \in 0..MaxChanges /\ content \in [Files -> 0..MaxChanges]
    /\ linked \subseteq Files /\ changes \in 1..MaxChanges
    /\ watcher \in {"load", "add", "ensure", "loop", "reading", "blind"}
    /\ watchDir \in 0..MaxChanges
    /\ timer \in {"none", "running", "ticked", "spent"}
    /\ last \in [Files -> 0..MaxChanges]

AtRest == watcher = "loop" /\ events = <<>> /\ timer \in {"none", "spent"}

\* When the watcher has nothing left to do, the panel wears the style sheets that
\* are on disk: through directories that come and go, links and their targets, and
\* changes during a reload - but not changes that came before the watches
\* (app_gtk.go:1742 loads, 1786 watches), nor files that could not be read.
StyleFollowsFiles == AtRest /\ ~early /\ ~unread => last = content
=============================================================================
