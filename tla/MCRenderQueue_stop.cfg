SPECIFICATION Spec
CONSTANTS
    Renders = {r1}
    Procs = {p1}
    NoProc = NoProc
    MaxAttempts = 2
    Concurrency = 2
    MaxOutages = 1
INVARIANT StopAbortsEveryRun
CHECK_DEADLOCK FALSE
