SPECIFICATION Spec
CONSTANTS
    Entries <- Directory
    Wanted <- Extensions
    LibOf <- Library
    Unfit <- Bad
CHECK_DEADLOCK FALSE
INVARIANTS TypeOK RootsAgree OthersAreLoaded NothingMissing FreedOnce 
