SPECIFICATION Spec
CONSTANTS
    Imports = {i1, i2}
    Tasks = {t1, t2}
    Sessions = {s1, s2}
    Readers = {r1}
    StaleAfter = 3
    Skew = 1
    MaxTime = 4
    MaxClaims = 2
    System = System
    None = None
SYMMETRY Interchangeable
INVARIANTS
    IInv
PROPERTIES
    ClaimIsFenced
    ImplementsContextHead
    ImplementsTaskLife
CHECK_DEADLOCK FALSE
