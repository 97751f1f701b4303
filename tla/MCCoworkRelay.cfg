SPECIFICATION FairSpec
CONSTANTS
    Manager = m
    Coworker = {w1}
    Group = {g1}
    NoGroup = NoGroup
    MaxTurns = 3
    MaxSends = 2
    MaxCrashes = 1
INVARIANT ToldOnceAndRecorded
PROPERTIES DroppedOnlyByACrash  ClosedGroupIsQuiet OutboxesDrain
