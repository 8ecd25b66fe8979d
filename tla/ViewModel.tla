------------------------------ MODULE ViewModel ------------------------------
(***************************************************************************)
(* What the panel shows for a payload (ui_view_model.go): pure functions   *)
(* of the sessions, the panel's state and the selection.  The encoding of  *)
(* the payload and the wording of the labels are left out; a line is a     *)
(* session or, when one of its first three fields does not decode, None.   *)
(* A session's subagents come with it, or are sessions that name a parent. *)
(***************************************************************************)
EXTENDS Lists

\* parsePayloadSessions
Parse(payload) == Keep(payload, ToSet(payload) \ {None})

SubagentsOf(s, sessions) == Keep(sessions, {t \in ToSet(sessions) : t.parent = s.id})

StatusClass(state) == IF state \in {"working", "tool_running", "waiting"} THEN state ELSE "idle"

Group(state) == CASE state = "waiting" -> "waiting"
                  [] state \in {"working", "tool_running"} -> "working"
                  [] OTHER -> "other"

\* The badge does not count sessions that the user is looking at.
Count(sessions, group) ==
    Len(Keep(sessions, {s \in ToSet(sessions) : ~s.suppressed /\ Group(s.state) = group}))

\* countDirectSubagents; the mutant does not know of subagents that come with a session.
CountByParent(s, sessions) == Len(SubagentsOf(s, sessions))
CountDirectSubagents(s, sessions) ==
    IF s.subagents # <<>> THEN Len(s.subagents) ELSE Len(SubagentsOf(s, sessions))

Row(s, count) ==
    [id |-> s.id, class |-> StatusClass(s.state), detail |-> <<s.action, count>>]

ListRows(sessions) ==
    [i \in DOMAIN sessions |->
        Row(sessions[i], CountDirectSubagents(sessions[i], sessions))]

\* A subagent that comes with its session may have no state.
SubagentRows(s, sessions) ==
    IF s.subagents # <<>>
    THEN [i \in DOMAIN s.subagents |->
            [id |-> s.subagents[i].id, class |-> StatusClass(s.subagents[i].state)]]
    ELSE LET subs == SubagentsOf(s, sessions)
         IN [i \in DOMAIN subs |-> [id |-> subs[i].id, class |-> StatusClass(subs[i].state)]]

Pill(sessions) ==
    IF sessions = <<>>
    THEN [title |-> None, class |-> "idle", clickable |-> FALSE, badge |-> 0,
          waiting |-> 0, working |-> 0, other |-> 0]
    ELSE [title |-> sessions[1].id, class |-> StatusClass(sessions[1].state),
          clickable |-> TRUE, badge |-> Len(sessions),
          waiting |-> Count(sessions, "waiting"), working |-> Count(sessions, "working"),
          other |-> Count(sessions, "other")]

\* detailBodyText: the question of a session that waits comes first.
BodyText(s) == IF s.state = "waiting" /\ s.answer # None THEN <<s.answer>> ELSE <<s.action, s.asked>>

\* buildDetailViewModel; the first session of that id.
Detail(sessions, id) ==
    LET i == SelectInSeq(sessions, LAMBDA s : s.id = id)
    IN IF i = 0 THEN None
       ELSE [id |-> id, class |-> StatusClass(sessions[i].state), body |-> BodyText(sessions[i]),
             count |-> CountDirectSubagents(sessions[i], sessions),
             rows |-> SubagentRows(sessions[i], sessions)]

\* buildOverlayViewModel; a selection that is not listed falls back to the first session.
View(payload, panelView, selected, pinned) ==
    LET sessions == Parse(payload)
        found == Detail(sessions, selected)
        shown == sessions # <<>> /\ panelView # "closed"
        detail == IF ~shown \/ panelView # "detail" THEN None
                  ELSE IF found # None THEN found ELSE Detail(sessions, sessions[1].id)
    IN [pill |-> Pill(sessions), rows |-> ListRows(sessions), expanded |-> shown,
        stack |-> IF ~shown THEN "closed" ELSE IF detail = None THEN "list" ELSE "detail",
        detail |-> detail, backdrop |-> pinned /\ shown]

-----------------------------------------------------------------------------
(* Properties of a view.                                                   *)

\* The list, the detail's heading and the detail's rows tell the same subagents.
SameSubagents(view) ==
    LET d == view.detail
    IN d # None =>
          /\ d.count = Len(d.rows)
          /\ \E i \in DOMAIN view.rows :
                view.rows[i].id = d.id /\ view.rows[i].detail[2] = Len(d.rows)
=============================================================================
