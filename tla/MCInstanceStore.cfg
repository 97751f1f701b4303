SPECIFICATION Spec
CONSTANTS
    Launcher = {l1, l2}
    Id = {i1, i2}
    Conv = {c1, c2, c3}
    Build = {lego, b1}
    Lego = lego
    Overlap = "pickers"
    Silent = {TRUE, FALSE}
    MaxCrashes = 1
    NoDir = NoDir
    NoEntry = NoEntry
    NoRow = NoRow
    Nobody = Nobody
SYMMETRY Symmetry
 
PROPERTIES ConversationsSurvive MenuSparesWhatItShowed
CHECK_DEADLOCK FALSE
