SPECIFICATION Spec
CONSTANTS
    Char <- SomeChars
    Cids <- OneCid
    AuthModes <- Chap
    Apns <- SomeApns
    Names <- SomeNames
    Passwords <- SomePwds
    Garbage <- StackGarbage
    MaxCommands = 3
    MaxRestarts = 1
    MaxShortWrites = 1
CHECK_DEADLOCK FALSE
INVARIANTS TypeOK PlainRecordSurvives CredentialsSurvive
PROPERTY StoresOnlyItsOwn
