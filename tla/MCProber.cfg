\* Two upstreams, one of which cannot be probed for want of a key and the other
\* probed by the loops of two entries; a clock with room for an ejection, for
\* probes that end after it and for a probe begun when it is over.
CONSTANTS
    u1 = u1
    u2 = u2
    t1 = t1
    t2 = t2
    t3 = t3
    Upstreams = {u1, u2}
    Targets = {t1, t2, t3}
    UpstreamOf <- OneNameTwice
    FailFast = {t2}
    FailureThreshold = 1
    RecoverySuccessThreshold = 1
    OpenInterval = 1
    MaxTime = 2
SPECIFICATION Spec
INVARIANTS SweepMeansProbed
PROPERTIES QuietAfterReturn SweepCompletes CancelledProberReturns TrialsEndInAVerdict
CHECK_DEADLOCK FALSE
