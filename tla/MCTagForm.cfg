SPECIFICATION Spec
CONSTANTS
    EngineSeq <- MCEngineSeq
    AiSeq <- MCAiSeq
    HarnessSeq <- MCHarnessSeq
    TagSeq <- MCTagSeq
    ModelSeq <- MCModelSeq
    Levels <- MCLevels
    Rated <- MCRated
    Runs <- MCRuns
    DefaultAi = claude
    OwnHarness <- MCOwnHarness
    Requires <- MCRequires
    AlwaysOn = {nosudo}
    Forbidden <- MCForbidden
    Imposed <- MCImposed
    Stored <- MCStored
    Workspace = {"proj", "..."}
    IsDir = {"proj"}
    Bent <- MCBent
    Name = {"proj", "agent", "mine", "a.b"}
    Illegal = {"a.b"}
    Taken = {"mine"}
    AgentName = "agent"
    None = None
    PathField = PathField
    NameField = NameField
    Button = Button
    claude = claude
    gemini = gemini
    opus = opus
    haiku = haiku
    pro = pro
    thinker = thinker
    quick = quick
    code = code
    cli = cli
    open = open
    basic = basic
    dood = dood
    clstr = clstr
    nosudo = nosudo
    gone = gone
INVARIANTS FormConsistent ConfirmedBuildRuns
PROPERTIES EngineSelectsModel LookingChangesNothing
\* a form that was confirmed or cancelled is over
CHECK_DEADLOCK FALSE
