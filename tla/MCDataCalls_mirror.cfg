SPECIFICATION FairSpec
CONSTANTS
    HostCids <- One
    RilCids <- One
    Apns <- Internet
    Iface = "rmnet0"
    AuthModes <- Chap
    MaxCommands = 1
    MaxCallChanges = 2
    MaxRegChanges = 1
    MaxRestarts = 0
    PatientHost = FALSE
    SettledHost = FALSE
    AtomicAt = FALSE
    ClientSends = TRUE
CHECK_DEADLOCK FALSE
INVARIANTS StaleOnlyInFlight RouteMatchesContext
PROPERTIES EventuallyMirrors StartUpEnds
