SPECIFICATION Spec
CONSTANTS
    HostCids <- One
    RilCids <- OneOrTwo
    Apns <- Internet
    Iface = "rmnet0"
    AuthModes <- Chap
    MaxCommands = 2
    MaxCallChanges = 2
    MaxRegChanges = 0
    MaxRestarts = 1
    PatientHost = FALSE
    SettledHost = TRUE
    AtomicAt = FALSE
    ClientSends = FALSE
CHECK_DEADLOCK FALSE
INVARIANTS TypeOK OneContextPerCall AuthSurvives
