SPECIFICATION LiveSpec
CONSTANTS
    Renders = {r1}
    Procs = {p1, p2}
    NoProc = NoProc
    MaxAttempts = 2
    Concurrency = 1
    MaxOutages = 1
INVARIANTS
    IInv
    NoStrayBytes
    PhysicalWorkBounded
PROPERTIES
    EveryRenderSettles
    ImplementsPromise
CHECK_DEADLOCK FALSE
