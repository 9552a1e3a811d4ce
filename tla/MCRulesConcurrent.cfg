SPECIFICATION MatchingSpec
CONSTANTS
    RuleNames = {r1, r2}
    Specs = {s1, s2, bad}
    Broken = {bad}
    Patterns <- FewPatterns
    Common <- OnePattern
    Procs = {p1, p2}
    Execs = {e1, e2, e3}
    None = None
    MaxChanges = 1
    Begins <- MCBegins
    Ends <- MCEnds
    Within <- MCWithin
    Networks <- MCNetworks
    Index <- MCIndex
    Events <- MCEvents
INVARIANT ConcurrentHandlesApply
CHECK_DEADLOCK FALSE
