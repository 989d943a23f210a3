SPECIFICATION LiveSpec
CONSTANTS
    j1 = j1
    j2 = j2
    p1 = p1
    p2 = p2
    Jobs = {j1, j2}
    Procs = {p1, p2}
    NoProc = NoProc
    Width = 1
    MaxClaims = 5
    Scenes <- AllScenes
INVARIANTS
    TypeOK
    NothingLeftBehind
PROPERTIES
    SettledIsFinal
    KeepsJobPromise
    EveryJobSettles
CHECK_DEADLOCK FALSE
