SPECIFICATION FairSpec
CONSTANTS
    e1 = e1  e2 = e2
    s1 = s1  s2 = s2
    None = None
    Ids = {e1, e2}
    First = e1
    Slots = {s1, s2}
    MaxVersion <- OnceFirst
    MaxAgain <- OnceFirst
    MaxLate <- OnceFirst
    MaxFailures = 1
    Buttons = {"refresh", "rerun", "clone"}
CHECK_DEADLOCK FALSE
INVARIANT TypeOK
INVARIANT RestShowsResult
PROPERTY TimerHeals
PROPERTY CatchesUp
