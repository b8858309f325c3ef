SPECIFICATION Spec
CONSTANTS
    Exts <- NetconfFirst
    MaxCommands = 3
    MaxGiveUps = 2
    EarlyHost = TRUE
    FastRil = TRUE
CHECK_DEADLOCK FALSE
INVARIANTS TypeOK AnswersConserved NoOrphanPending
