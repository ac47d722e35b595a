\* Does Shutdown get past a prober that has stopped?
CONSTANTS
    Requests = {r1}
    MayFail = {"listen", "admin_listen", "serve"}
    MayInterrupt = TRUE
    Rereads = {TRUE}
SPECIFICATION Spec
PROPERTIES ShutdownPassesStoppedRuntime
CHECK_DEADLOCK FALSE
