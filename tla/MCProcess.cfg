SPECIFICATION FairSpec
CONSTANTS
    Pids = {p1, p2}
    None = None
    Restarts = TRUE
    MaxFails = 10
    RemoveFails = TRUE
    SignalAfterFork = FALSE
INVARIANTS NoOrphan CrashLoopEnds PidFileNotForeign
PROPERTY StopCompletes
