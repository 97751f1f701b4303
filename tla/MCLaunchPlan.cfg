SPECIFICATION LaunchSpec
CONSTANTS
    solo = solo
    ask = ask
    crew = crew
    golem = golem
    sage = sage
    cc = cc
    gem = gem
    claude = claude
    gemini = gemini
    best = best
    top = top
    old = old
    big = big
    mid = mid
    small = small
    node = node
    write = write
    git = git
    sudo = sudo
    planMode = planMode
    freeMode = freeMode
    l1 = l1
    l2 = l2
    Launcher = {l1, l2}
    Unit = {solo, ask, crew}
    Clusters = {crew}
    Quickies = {ask}
    MembersOf <- MCMembersOf
    Builds <- MCBuilds
    Shared <- MCShared
    Trees <- MCTrees
    Extras <- MCExtras
    Startable = {cc}
    DefaultAi = claude
    DefaultEngine = best
    MuxScript = 2
    Nothing = Nothing
    MaxEdits = 1
    MaxLaunches = 2
SYMMETRY MCSymmetry
INVARIANTS NothingEvaporates  RunsAsRated
CHECK_DEADLOCK FALSE
