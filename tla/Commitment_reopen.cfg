SPECIFICATION Spec
CONSTANTS
    b1 = b1
    k = k
    pA = pA
    pB = pB
    Brands = {b1}
    Keys = {k}
    Payloads = {pA, pB}
    BrandOf <- OneBrand
    KeyOf <- FixtureKeys
    None = None
    Tasks <- TwoTasks
    PayloadOf <- OnePayload
    ExecuteBefore <- NoDeadline
    Drains = {}
    Members = {m1}
    StaleAfter = 4
    Lifetime = 1
    Skew = 0
    Budget = 1
    MaxTime = 3
    MaxCrashes = 0
INVARIANT ReopenUnblocks
