SPECIFICATION Spec
CONSTANTS
    b1 = b1
    b2 = b2
    r1 = r1
    on = on
    off = off
    t1 = t1
    t2 = t2
    s1 = s1
    BusNames = {b1, b2}
    RuleNames = {r1}
    Specs = {on, off}
    Targets = {t1, t2}
    Schemas = {s1}
    None = None
    NoBus = NoBus
    Reqs = {q1, q2}
    Requests <- MCRequests
SYMMETRY Sym
INVARIANTS TypeOK NoOrphans Announced
PROPERTY Atomic
