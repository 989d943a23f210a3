SPECIFICATION Spec
CONSTANTS
    e1 = e1
    e2 = e2
    p1 = p1
    p2 = p2
    Entries = {e1, e2}
    Procs = {p1, p2}
    NoProc = NoProc
    Width = 1
    Limit = 2
    MaxClaims = 5
    Scenes <- LateAnswerScene
INVARIANTS
    WakesItself
CHECK_DEADLOCK FALSE
