SPECIFICATION Spec
CONSTANTS
    Keys = {key, rival}
    Decisions = {d1, d2}
    Blank = Blank
    Inputs <- AllInputs
    MaxRestrictions = 2
    key = key
    rival = rival
    d1 = d1
    d2 = d2
INVARIANTS
    AllowedIsAuthorized
PROPERTIES
    DecisionsOnlyNarrow
CHECK_DEADLOCK FALSE
