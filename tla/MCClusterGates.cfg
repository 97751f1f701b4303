SPECIFICATION FairSpec
CONSTANTS
    Member = {o, a, b}
    Opener = o
    Mutings = {{}, {b}}
    ReplyCap = 1
    LoopCap = 4
    Nudge = 1
    CloseAfter = 2
    ByHand = {}
    MaxFree = 1
    MaxRestarts = 1
INVARIANT RowsAreGuarded
 
\* a gate may be closed with every process ended
CHECK_DEADLOCK FALSE
