SPECIFICATION Spec
CONSTANTS
    j1 = j1
    j2 = j2
    p1 = p1
    p2 = p2
    Jobs = {j1, j2}
    Procs = {p1, p2}
    NoProc = NoProc
    Width = 1
    MaxClaims = 5
    Scenes <- LostAnswerScene
INVARIANT WinnersBytesStay
CHECK_DEADLOCK FALSE
