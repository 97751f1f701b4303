SPECIFICATION Spec
CONSTANTS
    Host <- MCHost
    Critical = {"api"}
    Apex <- MCApex
    Addr = {"a1", "a2", "a3", "a4"}
    AnswersOf <- MCAnswersOf
    Block = {"edge"}
    Own = "own"
    Provider = {"cdn"}
    ProviderOf <- MCProviderOf
    Holds <- MCHolds
    Done = Done
    Std = "std"
    Port = {"std", "git"}
    Builtin <- MCBuiltin
    UserLists <- MCUserLists
    OldFiles <- MCOldFiles
    Stages = 2
    Chunk = 2
    MaxRefreshes = 1
    MaxLaunches = 2
INVARIANTS HandedOver OpensWhatWasAnswered
PROPERTIES AgentCanReachCritical  
CHECK_DEADLOCK FALSE
