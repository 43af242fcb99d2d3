SPECIFICATION Spec
CONSTANTS
    Tasks <- OneTask
    Brands = {b1}
    BrandOf <- OneBrand
    DueAt <- AtOnce
    Drains = {d1, d2}
    Sessions = {s1, s2}
    Outputs = {o1, o2}
    Window = 2
    ClaimLag = 1
    Budget = 1
    MaxTime = 4
    MaxCrashes = 1
    None = None
SYMMETRY Interchangeable
INVARIANTS
    IInv
    AuthorityOfGeneration
    OneSessionPerGeneration
    OutputsOfAuthority
    CompletionMatchesOutputs
    SettlementIsWhole
PROPERTIES
    AuthorityIsPermanent
    GenerationsIncrease
    ImplementsOneShot
