SPECIFICATION Spec
CONSTANTS
    t1 = t1
    t2 = t2
    a = a
    b = b
    noT = noT
    noD = noD
    fine = fine
    other = other
    bad = bad
    Targets = {t1, t2}
    Contents = {a, b, noT, noD}
    NoTransformer = {noT}
    NoDispatcher = {noD}
    Patterns = {fine, other, bad}
    NoMatcher = {bad}
    RuleSet <- MCRuleSet
    Dispatchers = {d1, d2, d3, d4}
    Procs = {p1, p2}
    None = None
    MaxChanges = 2
SYMMETRY Sym
INVARIANTS TypeOK ServedAsRecorded DispatchersOwned CrashNeedsFailedBuild SettledServes
CHECK_DEADLOCK FALSE
