SPECIFICATION FairSpec
CONSTANTS
    k1 = k1
    k2 = k2
    Keys = {k1, k2}
    Workers = {w1, w2}
    NoKey = NoKey
    Done = Done
    DeltaCap = 1
    RetryCap = 1
    MaxDelay = 2
    MaxTries = 1
    IdleDelay = 3
    MaxNotes <- MCNotes
INVARIANTS TypeOK NoKeyLost ItemsInHeap TimerArmed PanicOnlyAtShutdown
PROPERTIES EventuallySettled ShutdownEnds ImplementsDispatch
