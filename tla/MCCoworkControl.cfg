SPECIFICATION FairSpec
CONSTANTS
    Coworker = {w1}
    Hub = hub
    Command = {c1}
    Budget = 1
    Alone = TRUE
    MaxRequests = 2
    MaxCrashes = 1
INVARIANT AskedWithinBudget
PROPERTIES  UnreadAnswersSurvive ConsumedOnceAnswered EveryRequestHandled
CHECK_DEADLOCK FALSE
