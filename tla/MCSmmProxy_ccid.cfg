SPECIFICATION Spec
CONSTANTS
    Exts <- NetconfFirst
    MaxCommands = 2
    MaxGiveUps = 1
    EarlyHost = FALSE
    FastRil = FALSE
CHECK_DEADLOCK FALSE
INVARIANT CcidOnlyForScid
