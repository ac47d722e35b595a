\* Does user traffic reach a half-open upstream?
CONSTANTS
    u1 = u1
    u2 = u2
    t1 = t1
    t2 = t2
    r1 = r1
    r2 = r2
    Upstreams = {u1}
    Targets = {t1}
    UpstreamOf <- OneEntry
    FailFast = {}
    Requests = {r1, r2}
    CandidatesFor <- SameUpstream
    NoAdapter = {}
    RequireInitialProbe = FALSE
    FailureThreshold = 1
    RecoverySuccessThreshold = 1
    OpenInterval = 1
    MaxTime = 3
SPECIFICATION Spec
PROPERTIES HalfOpenGetsNoTraffic
CHECK_DEADLOCK FALSE
