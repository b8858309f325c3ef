SPECIFICATION Spec
CONSTANTS
    HostCids <- One
    RilCids <- OneOrTwo
    Apns <- Internet
    Iface = "rmnet0"
    AuthModes <- Chap
    MaxCommands = 1
    MaxCallChanges = 1
    MaxRegChanges = 0
    MaxRestarts = 0
    PatientHost = TRUE
    SettledHost = TRUE
    AtomicAt = FALSE
    ClientSends = TRUE
CHECK_DEADLOCK FALSE
INVARIANTS CgdcontIsPersisted
