SPECIFICATION Spec
CONSTANTS
    Pids = {p1, p2, p3}
    None = None
    Restarts = TRUE
    MaxFails = 10
    RemoveFails = TRUE
    SignalAfterFork = FALSE
INVARIANT PidFileNamesMaster
