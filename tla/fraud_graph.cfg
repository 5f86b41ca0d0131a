SPECIFICATION FairGraphSpec
CONSTANTS
    FlagAt = 75
    BlockAt = 90
    Scores <- BoundaryScores
INVARIANTS
    ReturnedIsStored
PROPERTIES
    ScoreEnds
CHECK_DEADLOCK FALSE
