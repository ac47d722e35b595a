\* An interrupt at any point of a start or a run that may fail by itself, in builds
\* that do and that do not read the Service's fields again at their use; no symmetry,
\* as liveness is checked.
CONSTANTS
    Requests = {r1, r2}
    MayFail = {"listen", "admin_listen", "serve"}
    MayInterrupt = TRUE
    Rereads = {TRUE, FALSE}
SPECIFICATION Spec
INVARIANTS LifecycleTypeOK CleanExitCutsNobody ProberStopsBeforeExit
PROPERTIES ExitsAfterInterrupt FailureEndsTheProcess
CHECK_DEADLOCK FALSE
