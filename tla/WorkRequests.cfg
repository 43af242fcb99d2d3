SPECIFICATION Spec
CONSTANTS
    r1 = r1
    r2 = r2
    r3 = r3
    r4 = r4
    o1 = o1
    l1 = l1
    a1 = a1
    f1 = f1
    f2 = f2
    i1 = i1
    i2 = i2
    k1 = k1
    k2 = k2
    k3 = k3
    k4 = k4
    k5 = k5
    k6 = k6
    k7 = k7
    content = content
    plan = plan
    Calls = {r1, r2, r3, r4, o1, l1, a1, f1, f2}
    Keys = {k1, k2, k3, k4, k5, k6, k7}
    Intents = {i1, i2}
    Ask <- Asks
    MaxCalls = 4
    None = None
INVARIANTS
    IInv
    DeadlocksAreKnown
PROPERTIES
    ImplementsWorkLedger
CHECK_DEADLOCK FALSE
