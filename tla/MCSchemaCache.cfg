SPECIFICATION Spec
CONSTANTS
    Reqs = {r1, r2}
    None = None
    Absent = Absent
    ReqTime = 1
    MinTTL = 2
    MaxTTL = 2
    LocalTTL = 1
    MaxBorn = 2
    MaxVersion = 2
SYMMETRY Sym
CHECK_DEADLOCK FALSE
INVARIANTS TypeOK BoundedStaleness AnsweredIsSeen
