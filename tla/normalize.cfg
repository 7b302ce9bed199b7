SPECIFICATION FairSpec
CONSTANT Format <- Formats
CHECK_DEADLOCK FALSE
INVARIANTS IntoHalfTurns KeepsDirection
PROPERTY LoopsEnd
