SPECIFICATION FairConsumerSpec
CONSTANTS
    Msgs = {1, 2, 3}
    Strategy <- MCStrategy
    Orderly = FALSE
    Slots = {s1, s2}
    NoMsg = NoMsg
    MaxAttempts = 2
    Earlier <- MCEarlier
    HandleTime = 1
    ReqTime = 1
    Margin = 1
    BackoffLimit = 2
    DecayLimit = 2
    DecaySteps = 2
    BackoffDelays = {1, 2}
INVARIANTS ConsumerTypeOK BatchFits HandledOnce
PROPERTIES EventuallyResolved CloseEnds
CHECK_DEADLOCK FALSE
