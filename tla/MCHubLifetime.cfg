SPECIFICATION LifetimeFairSpec
CONSTANTS
    Manager = {m1, m2}
    Grace = 3
    Boot = 2
INVARIANT StartedHubOutlastsBoot
PROPERTIES StopsOnlyAfterQuietGrace IdleHubExits
