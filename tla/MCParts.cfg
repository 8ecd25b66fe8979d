SPECIFICATION PartsSpec
CONSTANTS
    Daemons = {d1, d2}
    Clients = {c1}
    MaxChanges = 5
    w1 = w1
    w2 = w2
    Windows = {w1, w2}
    Titles <- TwoTitles
    Requested <- FirstTitle
    MaxWindowChanges = 3
    None = None
    Nil = Nil
    Garbage = Garbage
    Texts <- AnyText
    Hooks <- TheHooks
    Configs <- TheConfigs
    MaxRuns = 2
    AppID = "Alacritty"
    MaxDepth = 4
    WindowQuestions <- TheWindowQuestions
    PaneQuestions <- ThePaneQuestions
    ViewQuestions <- TheViewQuestions
CHECK_DEADLOCK FALSE
INVARIANTS
    PartsTypeOK
    ChosenByTitle
    NearestPane
    SubagentsAgree
    OneDaemonReachable
    StaleFileNoObstacle
    ChoosesAmongAll
    OkMeansRaised
    StyleFollowsFiles
    OneHookBesideOthers
    CodexHooksOn
PROPERTIES
    CommandsEnd
    RaisingEnds
