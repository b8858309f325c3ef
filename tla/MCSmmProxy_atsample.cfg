SPECIFICATION FairSpec
CONSTANTS
    Exts <- AtsampleOnly
    MaxCommands = 3
    MaxGiveUps = 2
    EarlyHost = TRUE
    FastRil = TRUE
CHECK_DEADLOCK FALSE
PROPERTY EveryWaitEnds
