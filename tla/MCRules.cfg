SPECIFICATION MatchingSpec
CONSTANTS
    RuleNames = {r1, r2}
    Specs = {s1, s2, bad}
    Broken = {bad}
    Patterns <- AllPatterns
    Common <- OnePattern
    Procs = {p1}
    Execs = {e1, e2, e3}
    None = None
    MaxChanges = 3
    Begins <- MCBegins
    Ends <- MCEnds
    Within <- MCWithin
    Networks <- MCNetworks
    Index <- MCIndex
    Events <- MCEvents
SYMMETRY Sym
INVARIANTS SerialHandlesApply NoClosedPublished MatchedAsWritten
CHECK_DEADLOCK FALSE
