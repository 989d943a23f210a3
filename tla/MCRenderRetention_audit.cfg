SPECIFICATION RetentionSpec
CONSTANTS
    Renders = {r1}
    Deliveries = {d1}
    Sweepers = {s1}
    MaxFaults = 1
INVARIANT EveryExpiryAudited
CHECK_DEADLOCK FALSE
