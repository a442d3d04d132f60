SPECIFICATION FairSpec
CONSTANTS
    q1 = q1  q2 = q2  q3 = q3
    k1 = k1  k2 = k2
    None = None
    Requests = {q1, q2, q3}
    Conns = {k1, k2}
    MaxJobs = 2
CHECK_DEADLOCK FALSE
INVARIANT TypeOK
INVARIANT ConnsAccounted
INVARIANT NoGridlock
PROPERTY Answered
