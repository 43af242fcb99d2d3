SPECIFICATION Spec
CONSTANTS
    c1 = c1
    c2 = c2
    c3 = c3
    c4 = c4
    c5 = c5
    c6 = c6
    k1 = k1
    k2 = k2
    k3 = k3
    k4 = k4
    notion = notion
    u1 = u1
    u2 = u2
    Calls = {c1, c2, c3, c4, c5, c6}
    Keys = {k1, k2, k3, k4}
    Slots = {notion}
    Users = {u1, u2}
    Ask <- Asks
    MaxCalls = 4
    None = None
SYMMETRY Twins
INVARIANTS
    IInv
PROPERTIES
    RefusalsAreTrue
    ImplementsKeyedSlots
CHECK_DEADLOCK FALSE
