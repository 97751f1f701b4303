SPECIFICATION Spec
CONSTANTS
    Member = {a, b}
    Writer = {w1, w2, w3}
    Reader = {r1, r2}
    NoWriter = NoWriter
    Cap = 1
    TornSeq = FALSE
SYMMETRY Symmetry
INVARIANTS AppendsAreAtomic 
PROPERTY ImplementsOrderedLog
\* every process runs once
CHECK_DEADLOCK FALSE
