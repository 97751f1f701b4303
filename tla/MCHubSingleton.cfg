SPECIFICATION FairSpec
CONSTANTS
    Process = {p1, p2, p3}
    NoPid = NoPid
    Serialised = TRUE
INVARIANT ServingIsRecorded
PROPERTIES RefusedOnlyByALivePid StaleFileNeverBlocks ImplementsOneHub
\* every process may have run and ended
CHECK_DEADLOCK FALSE
