CONSTANTS
    MaxFaults = 2
SPECIFICATION Spec
INVARIANTS
    NeverReapsBlindly
    DropFateIsTrue
    TornDownIsReaped
PROPERTIES
    WaitsEnd
\* A child that was torn down and reaped is over.
CHECK_DEADLOCK FALSE
