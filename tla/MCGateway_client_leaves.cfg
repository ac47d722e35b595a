\* Can a client that leaves eject an upstream?
CONSTANTS
    u1 = u1
    u2 = u2
    t1 = t1
    t2 = t2
    r1 = r1
    r2 = r2
    Upstreams = {u1, u2}
    Targets = {t1, t2}
    UpstreamOf <- OneEntryEach
    FailFast = {}
    Requests = {r1}
    CandidatesFor <- Failover
    NoAdapter = {}
    RequireInitialProbe = TRUE
    FailureThreshold = 1
    RecoverySuccessThreshold = 1
    OpenInterval = 1
    MaxTime = 2
SPECIFICATION Spec
PROPERTIES DepartedClientsEjectNobody
CHECK_DEADLOCK FALSE
