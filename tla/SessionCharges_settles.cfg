SPECIFICATION FairSpec
CONSTANTS
    Ingestions = {i1, i2}
    Metas = {childStarted, childStep, completed, cancelled, rival}
    EventOf <- EventsHere
    GenerationOf <- TwoGenerations
    OwnerIsTask = TRUE
    MaxSequence = 7
    MaxGeneration = 2
    MayLose = FALSE
    Roots = {R, R2}
    Sessions = {R, R2, C}
    Coordinates = {A, B}
    Models = {m1, m2}
    started = started
    childStarted = childStarted
    childStep = childStep
    first = first
    again = again
    other = other
    waiting = waiting
    completed = completed
    cancelled = cancelled
    rival = rival
    R = R
    R2 = R2
    C = C
    A = A
    B = B
    m1 = m1
    m2 = m2
    None = None
INVARIANTS
    IInv
    ModelOfItsSession
PROPERTIES
    ImplementsChargeBook
    TerminalSettles
CHECK_DEADLOCK FALSE
