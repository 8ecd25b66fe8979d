------------------------------- MODULE MCParts -------------------------------
(***************************************************************************)
(* The parts of the program that share no state with one another, checked  *)
(* in one run: a behaviour is one of one part, and leaves the variables of  *)
(* the others as they are.                                                 *)
(***************************************************************************)
EXTENDS SocketServer, StyleWatch, WaylandClient, HookFiles, Questions

CONSTANTS w1, w2

VARIABLE part

partsVars == <<part, vars, styleVars, waylandVars, hookVars, questionVars>>

ASSUME PartsAssumption ==
    /\ SocketAssumption /\ StyleAssumption /\ WaylandAssumption
    /\ HookAssumption /\ QuestionAssumption

TwoTitles == {<<1>>, <<2>>}
FirstTitle == <<1>>

-----------------------------------------------------------------------------
(* The hook files.                                                         *)

AnyText == STRING

\* A foreign hook, the program's own alone, twice, and after or before another.
SomeMatchers == SeqOf({"lint", "plain"}, 2) \cup {<<"debug", "lint">>}
TheHooks ==
    [matchers : SeqOf(SomeMatchers, 2), extras : BOOLEAN, odd : BOOLEAN, keys : BOOLEAN]

\* Two headers, settings and other keys, and the lines that the code misreads.
SomeLines ==
    {"[features]", "[other]", "hooks = true", "hooks = false", "key = 1",
     "[features] #", "[other] #", "[1, 2]", "hooks_x = 1", "'hooks' = false"}
TheConfigs == SeqOf(SomeLines, 3)

-----------------------------------------------------------------------------
(* The questions.                                                          *)

Window(words, app, initialized, closed) ==
    [title |-> words, appID |-> app, initialized |-> initialized, closed |-> closed]
SomeWindows ==
    {Window(t, AppID, TRUE, FALSE) : t \in {<<>>, <<1>>, <<2>>, <<1, 2>>, <<2, 1>>}}
    \cup {Window(<<1>>, "other", TRUE, FALSE), Window(<<1>>, AppID, FALSE, FALSE),
          Window(<<1, 2>>, AppID, TRUE, TRUE)}
TheWindowQuestions == [windows : SeqOf(SomeWindows, 3), requested : SeqOf({1, 2}, 2)]

\* Processes 2 to 4; the parent may be the first process, unknown, or a later one
\* that has the number of a parent that is gone.
Processes == 2..4
ThePaneQuestions ==
    [pid : Processes, parent : [Processes -> {1, 2, 3, 4, None}],
     panes : SeqOf([pid : Processes], 2)]

SomeSessions(id) ==
    [id : {id}, parent : {None, "a", "b"}, action : {None}, asked : {None},
     answer : {None, "answer"}, state : {"waiting", "idle"}, suppressed : BOOLEAN,
     subagents : {<<>>, <<[id |-> "x", state |-> "working"]>>}]
TheViewQuestions ==
    [payload : {<<>>, <<None>>} \cup {<<s>> : s \in SomeSessions("a")}
               \cup {<<s, None, t>> : s \in SomeSessions("a"), t \in SomeSessions("b")},
     panelView : {"closed", "list", "detail"}, selected : {None, "a", "b"}]

-----------------------------------------------------------------------------
(* The behaviours.                                                         *)

NoStyle == StyleInit /\ dir = 0
NoHooks == HookInit /\ claude = None /\ codex = None /\ config = None

PartsInit ==
    /\ Init /\ WaylandInit
    /\ \/ part \in {"socket", "wayland"} /\ NoStyle /\ NoHooks /\ NoQuestion
       \/ part = "style" /\ StyleInit /\ NoHooks /\ NoQuestion
       \/ part = "hooks" /\ NoStyle /\ HookInit /\ NoQuestion
       \/ part = "question" /\ NoStyle /\ NoHooks /\ QuestionInit

Sockets == part = "socket" /\ Next /\ UNCHANGED <<part, styleVars, waylandVars, hookVars, questionVars>>
Styling == part = "style" /\ StyleNext /\ UNCHANGED <<part, vars, waylandVars, hookVars, questionVars>>
Raising == part = "wayland" /\ WaylandNext /\ UNCHANGED <<part, vars, styleVars, hookVars, questionVars>>
Hooking == part = "hooks" /\ HookNext /\ UNCHANGED <<part, vars, styleVars, waylandVars, questionVars>>

PartsNext == Sockets \/ Styling \/ Raising \/ Hooking

\* The fairness of FairSpec and of WaylandFairSpec.
Serving == part = "socket" /\ Serve /\ UNCHANGED <<part, styleVars, waylandVars, hookVars, questionVars>>
Focusing == part = "wayland" /\ Client /\ UNCHANGED <<part, vars, styleVars, hookVars, questionVars>>

PartsSpec ==
    /\ PartsInit /\ [][PartsNext]_partsVars
    /\ WF_partsVars(Serving) /\ WF_partsVars(Focusing)

-----------------------------------------------------------------------------
(* The properties of the other parts are in their modules.                 *)

\* Every variable keeps its range (the TypeOK of each module).
PartsTypeOK == TypeOK /\ StyleTypeOK /\ WaylandTypeOK /\ HookTypeOK

\* A focus ends, whether or not the compositor answers (readIntoBuffer).
RaisingEnds == <>(part = "wayland" => Returned)
=============================================================================
