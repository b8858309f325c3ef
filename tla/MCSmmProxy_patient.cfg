SPECIFICATION FairSpec
CONSTANTS
    Exts <- AtsampleFirst
    MaxCommands = 3
    MaxGiveUps = 0
    EarlyHost = FALSE
    FastRil = FALSE
CHECK_DEADLOCK FALSE
INVARIANTS PendingIsAwaited AnswersBelong NeverCrashes
PROPERTY ImplementsChannel
