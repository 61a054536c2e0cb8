SPECIFICATION FairHoverSpec
CONSTANTS
    DetailsTTL = 2
    Limit = 3
    MessageTime = 2
    Messages = {m1, m2}
    Nil = Nil
    MaxTimers = 2
INVARIANTS
    CardIsRecent
PROPERTIES
    CardSettles
    ShownInFull
    RetrySettles
