SPECIFICATION FairSpec
CONSTANTS
    Requests = {r1, r2}
    Workers = {w1, w2}
    Reserved = 4
    MaxWaiting = 3
    Null = Null
    None = None
INVARIANTS QueueExclusive TokensMatch 
PROPERTIES IsTaskPool DrainsWhenQuiet QuitUnlessHeld
CHECK_DEADLOCK FALSE
