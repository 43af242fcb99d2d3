SPECIFICATION Spec
CONSTANTS
    Ingestions = {i1, i2}
    Metas = {started, first, again, other, waiting}
    EventOf <- EventsHere
    GenerationOf <- OneGeneration
    OwnerIsTask = FALSE
    MaxSequence = 6
    MaxGeneration = 1
    MayLose = TRUE
    Roots = {R}
    Sessions = {R, C}
    Coordinates = {A, B}
    Models = {m1, m2}
    started = started
    childStarted = childStarted
    childStep = childStep
    first = first
    again = again
    other = other
    waiting = waiting
    completed = completed
    cancelled = cancelled
    rival = rival
    R = R
    R2 = R2
    C = C
    A = A
    B = B
    m1 = m1
    m2 = m2
    None = None
SYMMETRY Interchangeable
INVARIANTS
    SecondChargeUnseen
    BoundaryPaysInFull
    OnlySettlementDeadlocks
