\* Two concurrent requests and a probe loop on one upstream, seeded healthy;
\* one of them may fall through to an upstream of a family without an adapter.  Time
\* for an ejection, its cool-down and reports that come late.
CONSTANTS
    u1 = u1
    u2 = u2
    t1 = t1
    t2 = t2
    r1 = r1
    r2 = r2
    Upstreams = {u1, u2}
    Targets = {t1}
    UpstreamOf <- OneEntry
    FailFast = {}
    Requests = {r1, r2}
    CandidatesFor <- SamePrimary
    NoAdapter = {u2}
    RequireInitialProbe = FALSE
    FailureThreshold = 1
    RecoverySuccessThreshold = 1
    OpenInterval = 1
    MaxTime = 3
SPECIFICATION Spec
PROPERTIES DrainNeverReadmits
CHECK_DEADLOCK FALSE
