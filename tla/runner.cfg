SPECIFICATION Spec
CONSTANTS
    j1 = j1  j2 = j2
    e1 = e1  e2 = e2
    i1 = i1
    k1 = k1  k2 = k2
    n1 = n1  n2 = n2  n3 = n3
    None = None
    Deleted = Deleted
    Jobs = {j1, j2}
    Events = {e1, e2}
    EventOf <- Apart
    Instance = {i1}
    InstOf <- Shared
    Keys = {k1, k2}
    Copies = {n1, n2, n3}
    MaxAttempts = 2
    Budget <- OneOfEach
    Total = 2
CONSTRAINT Scope
SYMMETRY Interchangeable
CHECK_DEADLOCK FALSE
INVARIANT TypeOK
INVARIANT PinnedKeyUsed
INVARIANT VerifiedHasCheck
INVARIANT AttemptsBounded
INVARIANT JobsHaveInstances
PROPERTY PinIsForGood
PROPERTY TimelineAdvances
PROPERTY ImplementsAttempt
