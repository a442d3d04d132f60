SPECIFICATION Spec
CONSTANTS
    j1 = j1  j2 = j2  j3 = j3
    e1 = e1  e2 = e2
    c1 = c1  c2 = c2
    w1 = w1  w2 = w2
    r1 = r1  r2 = r2
    None = None
    Jobs = {j1, j2}
    Events = {e1}
    EventOf <- OneEvent
    Consumers = {c1}
    Workers = {w1}
    WorkerOf <- OneConsumer
    Requests = {r1}
    Budget <- AllButRerun
    MaxAttempts = 2
SYMMETRY Interchangeable
CHECK_DEADLOCK FALSE
INVARIANT TypeOK
INVARIANT NoSilentLoss
INVARIANT StatusDerived
