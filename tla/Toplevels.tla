----------------------------- MODULE Toplevels ------------------------------
(***************************************************************************)
(* Which terminal window a focus request raises (wayctl.go) and which tmux *)
(* pane runs an agent (tmux.go): pure functions, with the reference that   *)
(* they are checked against.  A title is the sequence of its parts, which  *)
(* separators set off and natural numbers stand for; the windows come in   *)
(* the order in which a Go map happens to be iterated.                     *)
(***************************************************************************)
EXTENDS Lists

CONSTANTS
    AppID,      \* the application id of the terminal
    MaxDepth    \* how far collectAncestorPIDs climbs

\* What is assumed of the constants.
ToplevelAssumption == MaxDepth \in Nat

\* What the functions may be asked about: windows have titles, and of the processes
\* each has a parent, one of the two where a climb ends, or one that cannot be read.
AreWindows(W) == None \notin W /\ \A w \in W : w.title \in Seq(Nat)
AreProcesses(P, parent) ==
    /\ 0 \notin P /\ 1 \notin P /\ None \notin P
    /\ parent \in [P -> P \cup {0, 1, None}]

-----------------------------------------------------------------------------
(* The window.                                                             *)

\* strings.Contains
Within(part, title) ==
    \E i \in 0..Len(title) :
        i + Len(part) <= Len(title) /\ SubSeq(title, i + 1, i + Len(part)) = part

\* The parts of the requested title that the candidate has, and ten for all of it.
Score(title, requested) ==
    IF requested = <<>> THEN 0
    ELSE Cardinality({i \in DOMAIN requested : Within(<<requested[i]>>, title)})
         + (IF Within(requested, title) THEN 10 ELSE 0)

\* The order of titles as strings.
Precedes(s, t) ==
    \/ IsStrictPrefix(s, t)
    \/ \E i \in DOMAIN s \cap DOMAIN t :
          s[i] < t[i] /\ SubSeq(s, 1, i - 1) = SubSeq(t, 1, i - 1)

\* One turn of bestToplevelCandidate's loop; the mutant keeps the first of equals.
BetterFirst(requested, best, w) ==
    LET score == Score(w.title, requested)
    IN IF score > 0 /\ (best = None \/ score > Score(best.title, requested))
       THEN w ELSE best
Better(requested, best, w) ==
    LET score == Score(w.title, requested)
        old == Score(best.title, requested)
    IN IF score > 0 /\ (\/ best = None \/ score > old
                        \/ score = old /\ Precedes(w.title, best.title))
       THEN w ELSE best

BestCandidate(candidates, requested) ==
    LET best[i \in 0..Len(candidates)] ==
          IF i = 0 THEN None ELSE Better(requested, best[i - 1], candidates[i])
    IN best[Len(candidates)]

Usable(w) == ~w.closed /\ w.initialized /\ w.appID = AppID

FindToplevel(windows, requested) ==
    LET candidates == Keep(windows, {w \in ToSet(windows) : Usable(w)})
        exact == Keep(candidates, {w \in ToSet(windows) : w.title = requested})
        containing == Keep(candidates, {w \in ToSet(windows) : Within(requested, w.title)})
    IN CASE requested # <<>> /\ exact # <<>> -> exact[1]
         [] requested # <<>> /\ exact = <<>> /\ Len(containing) = 1 -> containing[1]
         [] requested = <<>> /\ Len(candidates) = 1 -> candidates[1]
         [] OTHER -> BestCandidate(candidates, requested)

\* What it should be: the title itself, else the only one that contains it, else
\* the first in order of those with the most parts in common.
Acceptable(windows, requested) ==
    LET usable == {w \in ToSet(windows) : Usable(w)}
        points(w) == Score(w.title, requested)
        holding == {i \in DOMAIN windows : Usable(windows[i]) /\ Within(requested, windows[i].title)}
        likely == {w \in usable : /\ points(w) > 0
                                  /\ \A v \in usable : points(v) <= points(w)}
    IN IF requested # <<>> /\ \E w \in usable : w.title = requested
       THEN {w \in usable : w.title = requested}
       ELSE IF Cardinality(holding) = 1 THEN {windows[i] : i \in holding}
       ELSE {w \in likely : \A v \in likely : ~Precedes(v.title, w.title)}

-----------------------------------------------------------------------------
(* The pane.                                                               *)

\* collectAncestorPIDs; parent[p] is None when p can no longer be read.
Climb(parent, walk) ==
    LET p == walk.at
        up == parent[p]
    IN IF p \in {0, 1} \/ p \in ToSet(walk.seen) \/ walk.failed THEN walk
       ELSE [seen |-> Append(walk.seen, p), failed |-> up = None,
             at |-> IF up \in {p, None} THEN 0 ELSE up]

Ancestors(pid, parent) ==
    LET walk[i \in 0..MaxDepth] ==
          IF i = 0 THEN [seen |-> <<>>, at |-> pid, failed |-> FALSE]
          ELSE Climb(parent, walk[i - 1])
    IN walk[MaxDepth]

Depth(seen, pane) == SelectInSeq(seen, LAMBDA p : p = pane.pid)

\* One turn of resolvePane's loop; the mutant lets a later pane win.
NearerLast(seen, best, pane) == IF pane.pid \in ToSet(seen) THEN pane ELSE best
Nearer(seen, best, pane) ==
    IF /\ pane.pid \in ToSet(seen)
       /\ best = None \/ Depth(seen, pane) < Depth(seen, best)
    THEN pane ELSE best
Nearest(seen, panes) ==
    LET best[i \in 0..Len(panes)] ==
          IF i = 0 THEN None ELSE Nearer(seen, best[i - 1], panes[i])
    IN best[Len(panes)]
ResolvePane(pid, parent, panes) ==
    LET walk == Ancestors(pid, parent)
    IN IF walk.failed THEN None ELSE Nearest(walk.seen, panes)

\* The terminal of the agent counts more than the one of the hook.
ResolvePaneByTTY(ttys, panes) ==
    LET on(tty) == Keep(panes, {pane \in ToSet(panes) : tty # None /\ pane.tty = tty})
        found == Keep(ttys, {tty \in ToSet(ttys) : on(tty) # <<>>})
    IN IF found = <<>> THEN None ELSE on(found[1])[1]

ResolvePaneForSession(pid, parent, ttys, panes) ==
    LET pane == ResolvePane(pid, parent, panes)
    IN IF pane # None THEN pane ELSE ResolvePaneByTTY(ttys, panes)

\* In how many generations pid descends from p, below the first process.
Generations(pid, parent, p) ==
    {n \in 1..MaxDepth :
        \E path \in [1..n -> DOMAIN parent] :
            /\ path[1] = pid /\ path[n] = p
            /\ \A i \in 1..n - 1 : path[i + 1] = parent[path[i]]}

-----------------------------------------------------------------------------
(* Properties of a choice.                                                 *)

\* Whatever the order in which the map is iterated, the window that is raised has
\* the title it should have, and there is none only if none will do.
RightWindow(windows, requested) ==
    LET chosen == FindToplevel(windows, requested)
        acceptable == Acceptable(windows, requested)
    IN /\ chosen = None <=> acceptable = {}
       /\ chosen # None => chosen \in acceptable
       /\ \A v, w \in acceptable : v.title = w.title

\* The pane is that of the nearest ancestor that runs in one, whatever the order of
\* list-panes; an ancestor that cannot be read leaves the question open.
RightPane(pid, parent, panes) ==
    LET pane == ResolvePane(pid, parent, panes)
        distances == UNION {Generations(pid, parent, q.pid) : q \in ToSet(panes)}
    IN IF Ancestors(pid, parent).failed \/ distances = {} THEN pane = None
       ELSE pane # None /\ Min(distances) \in Generations(pid, parent, pane.pid)
=============================================================================
