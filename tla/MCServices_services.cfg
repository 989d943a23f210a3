SPECIFICATION ServicesSpec
CONSTANTS
    a1 = a1
    a2 = a2
    b1 = b1
    b2 = b2
    r1 = r1
    r2 = r2
    r3 = r3
    r4 = r4
    r5 = r5
    ana = ana
    bo = bo
    sam = sam
    Jobs = {a1, a2}
    Slots = {b1, b2}
    MaxReclaims = 1
    MaxHangUps = 1
    None = None
    Renders = {r1, r2, r3, r4, r5}
    Batches = {1, 2, 3}
    Rows <- MixedRows
    Txs = {a1, a2}
    NoTx = NoTx
    Passes = {a1, a2}
    Ticks = {b1, b2}
    ScanBatch = 2
    SiemBatch = 1
    MaxSeq = 3
    Processes = {a1, a2}
    Items = {b1, b2}
    MaxAttempts = 2
    Burst = 2
    OpsPerRequest = 1
    MaxEvents = 2
    MaxRows = 2
    MaxEnds = 1
    Ids = {"u1", "u2", "u3"}
    Parts = {b1, b2}
    Owner <- OwnerOf
    Charge <- ChargeOf
    Largest <- LargestOf
    OwnerBudget = 3
    InstanceBudget = 4
    MaxPending = 2
    Puts = {"p"}
    Finals = {"f"}
    Removals = {"x"}
    Members = {ana, bo, sam}
    Submitter = sam
    Chain <- TheChain
    Nominees = {ana}
    Handlers = {b1, b2}
    MaxVotes = 4
    Replicas = {a1, a2}
    Sweepers = {b1, b2}
    Signings = {"s1", "s2", "s3"}
    Rooms = {b1, b2}
    Edits = {a1, a2}
    Savers = {"s"}
    NoRoom = NoRoom
    MaxRevision = 4
    MaxMishaps = 1
SYMMETRY Symmetry
INVARIANTS
    ServicesTypeOK
    JobsAccountedFor
    NoIdleWorkerBesideAJob
    AnnouncedIffComplete
    BatchPhaseMoves
    OnePassKeepsTheChain
    NoItemLost
    ReadyHasAllParts
    RemovedLeavesNothing
    BudgetsHold
    VotesJustifyState
    RecordedFileStored
    RecordsAgree
    VersionsGoWithDocument
PROPERTIES
    OldestFirst
    KeepsDispatch
    KeepsLedger
    KeepsDocument
CHECK_DEADLOCK FALSE
