SPECIFICATION FairSpec
CONSTANTS
    b1 = b1
    k = k
    pA = pA
    pB = pB
    Brands = {b1}
    Keys = {k}
    Payloads = {pA, pB}
    BrandOf <- OneBrand
    KeyOf <- FixtureKeys
    None = None
    Tasks <- OneTask
    PayloadOf <- OwnPayloads
    ExecuteBefore <- Deadline
    Drains = {d1, d2}
    Members = {}
    StaleAfter = 3
    Lifetime = 0
    Skew = 1
    Budget = 2
    MaxTime = 4
    MaxCrashes = 0
INVARIANTS
    IInv
    OneProviderCall
    OnlyGrantedIsExecuted
    OutcomeIsEvidence
PROPERTIES
    ImplementsEffect
    RunningSettles
