SPECIFICATION BothSpec
CONSTANTS
    Jobs = {j1, j2}
    Slots = {s1}
    MaxReclaims = 1
    MaxHangUps = 1
    None = None
    Renders = {r1, r2}
    Deliveries = {d1}
    Sweepers = {w1, w2}
    MaxFaults = 2
INVARIANTS
    RetentionTypeOK
    DeliveryKeepsOutput
PROPERTIES
    MarkedOutputGoes
    EveryDispatchSettles
CHECK_DEADLOCK FALSE
