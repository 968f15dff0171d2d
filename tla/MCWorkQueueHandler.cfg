SPECIFICATION FairSpec
CONSTANTS
    Requests = {r1}
    Workers = {w1, w2}
    Reserved = 4
    MaxWaiting = 1
    Null = Null
    None = None
PROPERTY QuitCompletes
CHECK_DEADLOCK FALSE
