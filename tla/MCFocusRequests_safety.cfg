SPECIFICATION Spec
CONSTANTS
    t1 = t1
    t2 = t2
    Requests = {r1, r2}
    Panes <- TwoPanes
    TmuxClients <- TwoClients
    ForeignSets <- SomeForeign
    UserTitles = "off"
    SetTitlesEnabled = TRUE
    MaxFailures = 2
    None = None
CHECK_DEADLOCK FALSE
INVARIANTS
    TypeOK
    TitlesRestored
    ClientsReturned
