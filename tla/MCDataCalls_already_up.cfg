SPECIFICATION Spec
CONSTANTS
    HostCids <- One
    RilCids <- One
    Apns <- Internet
    Iface = "rmnet0"
    AuthModes <- Chap
    MaxCommands = 4
    MaxCallChanges = 0
    MaxRegChanges = 1
    MaxRestarts = 0
    PatientHost = TRUE
    SettledHost = TRUE
    AtomicAt = TRUE
    ClientSends = TRUE
CHECK_DEADLOCK FALSE
INVARIANTS AlreadyUpIsTrue
