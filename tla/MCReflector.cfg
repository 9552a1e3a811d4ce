SPECIFICATION FairReflectorSpec
CONSTANTS
    Names = {b1, b2}
    Vals = {on, changed, off}
    Enabled = {on, changed}
    Absent = Absent
    PageSize = 1
    MaxId = 3
    MaxWrites = 4
INVARIANTS ReflectorTypeOK CaughtUp ViewIsPreviousRead
PROPERTY EventuallyLatest
CHECK_DEADLOCK FALSE
