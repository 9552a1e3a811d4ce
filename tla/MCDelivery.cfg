SPECIFICATION MCSpec
CONSTANTS
    r1 = r1
    r2 = r2
    t1 = t1
    t2 = t2
    Events = {e1}
    Rules = {r1, r2}
    Targets <- TwoTargets
    Rulings <- MCRulings
    Http = {t1}
    Settings <- MCSettings
    MaxSource = 2
    MaxRetry = 1
    MaxCrashes = 1
INVARIANTS DeliveryTypeOK NoEventLost NothingRunsUnowned NeverStuck
CHECK_DEADLOCK FALSE
