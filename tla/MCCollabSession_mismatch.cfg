SPECIFICATION CollabSpec
CONSTANTS
    Rooms = {b1}
    Edits = {a1}
    Savers = {}
    NoRoom = NoRoom
    MaxRevision = 2
    MaxMishaps = 1
PROPERTY MismatchMeansLeaseLost
CHECK_DEADLOCK FALSE
