SPECIFICATION FairSpec
CONSTANTS
    j1 = j1  j2 = j2  j3 = j3
    e1 = e1  e2 = e2
    c1 = c1  c2 = c2
    w1 = w1  w2 = w2
    r1 = r1  r2 = r2
    None = None
    Jobs = {j1}
    Events = {e1}
    EventOf <- OneJob
    Consumers = {c1, c2}
    Workers = {w1, w2}
    WorkerOf <- TwoWorkers
    Requests = {r1}
    Budget <- Lively
    MaxAttempts = 2
CHECK_DEADLOCK FALSE
INVARIANT NoSilentLoss
INVARIANT SingleFlight
PROPERTY JobsSettle
PROPERTY ShutdownCompletes
PROPERTY FinalWhenAcknowledged
PROPERTY AttemptsApart
