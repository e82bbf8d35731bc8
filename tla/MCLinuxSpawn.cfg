CONSTANTS
    Scenes <- MCScenes
SPECIFICATION Spec
INVARIANTS
    NotStartedIsTrue
    FateIsTrue
    FrontSpared
    PlacementIsFinal
    AdoptedIdentityIsOurs
PROPERTIES
    SpawnAnswers
\* A spawn that answered is over.
CHECK_DEADLOCK FALSE
