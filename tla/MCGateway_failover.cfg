\* A primary and a fallback, each with its probe loop, and one request that may
\* fail over; its client may leave; an initial probe is required.
CONSTANTS
    u1 = u1
    u2 = u2
    t1 = t1
    t2 = t2
    r1 = r1
    r2 = r2
    Upstreams = {u1, u2}
    Targets = {t1, t2}
    UpstreamOf <- OneEntryEach
    FailFast = {}
    Requests = {r1}
    CandidatesFor <- Failover
    NoAdapter = {}
    RequireInitialProbe = TRUE
    FailureThreshold = 1
    RecoverySuccessThreshold = 1
    OpenInterval = 1
    MaxTime = 2
SPECIFICATION FairSpec
INVARIANTS GatewayTypeOK NoTrafficBeforeProbe SweepMeansProbedUnderTraffic
PROPERTIES UsesRuntimeAsSpecified DepartedRequestsEnd
CHECK_DEADLOCK FALSE
