\* Thresholds of two, so that streaks and trials can be interrupted; a clock
\* that runs through two ejections with time for late reports after each.
CONSTANTS
    Upstreams = {u1}
    FailureThreshold = 2
    RecoverySuccessThreshold = 2
    OpenInterval = 2
    MaxTime = 7
SPECIFICATION Spec
INVARIANTS TypeOK ServingIsClean OpenSinceLastReport HalfOpenAfterCooldown FailuresAreDistinct
PROPERTIES CooldownIsRespected OnlyFreshProbesReadmit ImplementsBreaker
