SPECIFICATION Spec
CONSTANTS
    HostCids <- One
    RilCids <- One
    Apns <- Internet
    Iface = "rmnet0"
    AuthModes <- AnyMode
    MaxCommands = 3
    MaxCallChanges = 1
    MaxRegChanges = 1
    MaxRestarts = 1
    PatientHost = TRUE
    SettledHost = TRUE
    AtomicAt = TRUE
    ClientSends = TRUE
CHECK_DEADLOCK FALSE
INVARIANTS CommittedSurvives AlreadyDownIsTrue UpIsTrue
