SPECIFICATION FairSpec
CONSTANTS
    UninitMetadata = {0, 7}
    Empty = Empty
    MaxEntries = 2
    MaxStops = 2
    MaxTears = 1
INVARIANTS CommittedIsKept SurvivesRestart QueueIsReplay PositionsKept
PROPERTY EventuallyWritten
CHECK_DEADLOCK FALSE
