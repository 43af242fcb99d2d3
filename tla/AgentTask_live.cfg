SPECIFICATION FairSpec
CONSTANTS
    Tasks <- TwoTasks
    Brands = {b1}
    BrandOf <- OneBrand
    DueAt <- OldestLater
    Drains = {d1, d2}
    Sessions = {s1}
    Outputs = {}
    Window = 1
    ClaimLag = 0
    Budget = 1
    MaxTime = 2
    MaxCrashes = 1
    None = None
PROPERTIES
    EventuallyDelivered
