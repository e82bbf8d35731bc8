CONSTANTS
    Numbers = {1, 2, 3}
    Systems = {"linux", "windows"}
    Accesses = {"open", "refuses", "hidden"}
    MaxOdd = 1
    MaxTick = 1
    MaxBirths = 4
    MaxMoves <- ThreeForTheKill
    Ops = {"hard_kill", "terminate", "children", "subtree", "parent"}
SPECIFICATION Spec
INVARIANTS FoundIsGenuine HitsTheIdentity CompleteMeansDown
\* The call returns once, and the processes it could meet are bounded.
CHECK_DEADLOCK FALSE
