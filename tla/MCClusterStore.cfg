SPECIFICATION Spec
CONSTANTS
    golem = golem
    sage = sage
    member = member
    dood = dood
    code = code
    Session = {s1, s2}
    Agent = {golem, sage}
    Tag = {member, dood, code}
    Locked = {member}
    NotForMembers = {dood}
    Lego <- MCLego
    Template <- MCTemplate
    Proc = {p1, p2}
    MaxPerAgent = 2
    MaxMembers = 3
    MaxFlows = 3
    MaxCrashes = 1
    None = None
SYMMETRY MCSymmetry
INVARIANTS StoreIsSound GitMatchesTheDisk
PROPERTIES SurvivorsKeepTheirBuild
CHECK_DEADLOCK FALSE
