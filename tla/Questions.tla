----------------------------- MODULE Questions ------------------------------
(***************************************************************************)
(* The pure functions of Toplevels and ViewModel, asked one question: which *)
(* window or pane to raise, or what to show.  Nothing happens after that;  *)
(* the questions are the initial states.                                   *)
(***************************************************************************)
EXTENDS Toplevels, ViewModel

CONSTANTS
    WindowQuestions,  \* the windows there are, in the map's order, and the title requested
    PaneQuestions,    \* a process, the parents of processes, and tmux's panes
    ViewQuestions     \* a payload, and what the panel shows

VARIABLES
    about,     \* which kind of question
    question

questionVars == <<about, question>>

\* A list of some values or others.
IsList(s) == s \in Seq(ToSet(s))

\* What is assumed of the constants: titles are lists of parts, every process has a
\* parent, one of the first two, or one that cannot be read, and None is nothing.
QuestionAssumption ==
    /\ ToplevelAssumption
    /\ \A q \in WindowQuestions :
          IsList(q.windows) /\ AreWindows(ToSet(q.windows)) /\ q.requested \in Seq(Nat)
    /\ \A q \in PaneQuestions :
          /\ AreProcesses(DOMAIN q.parent, q.parent) /\ q.pid \in DOMAIN q.parent
          /\ IsList(q.panes) /\ None \notin ToSet(q.panes)
    /\ \A q \in ViewQuestions :
          /\ IsList(q.payload)
          /\ \A s \in ToSet(q.payload) \ {None} : IsList(s.subagents)

NoQuestion == about = None /\ question = None

QuestionInit ==
    \/ about = "window" /\ question \in WindowQuestions
    \/ about = "pane" /\ question \in PaneQuestions
    \/ about = "view" /\ question \in ViewQuestions

QuestionSpec == QuestionInit /\ [][UNCHANGED questionVars]_questionVars

-----------------------------------------------------------------------------
(* Properties.                                                             *)

\* Whatever the map's order, the window raised has the title it should (findToplevel).
ChosenByTitle == about = "window" => RightWindow(question.windows, question.requested)

\* The pane found is that of the nearest ancestor that runs in one (resolvePane).
NearestPane == about = "pane" => RightPane(question.pid, question.parent, question.panes)

\* List, heading and rows of the detail tell the same subagents (countDirectSubagents).
SubagentsAgree ==
    about = "view" =>
        \A pinned \in BOOLEAN :
            SameSubagents(View(question.payload, question.panelView, question.selected, pinned))
=============================================================================
