SPECIFICATION Spec
CONSTANTS
    v1 = v1
    v2 = v2
    s1 = s1
    s2 = s2
    s3 = s3
    f1 = f1
    x = x
    y = y
    declare = declare
    other = other
    propose = propose
    refine = refine
    retry = retry
    later = later
    adopt = adopt
    edit = edit
    abandon = abandon
    ConversationIds = {v1, v2}
    Sessions = {s1, s2, s3}
    Of <- MCOf
    None = None
    MaxPosts = 2
    MaxTurns = 2
    MaxCalls = 4
    Calls = {declare, other, propose, refine, retry, later, adopt, edit, abandon}
    Ask <- MCAsk
    Forms = {f1}
    Contents = {x, y}
SYMMETRY Symmetry
INVARIANTS
    IInv
    RetriesAreAnswered
PROPERTIES
    ImplementsIntentLine
CHECK_DEADLOCK FALSE
