SPECIFICATION Spec
CONSTANTS
    UninitMetadata = {0}
    Empty = Empty
    MaxEntries = 2
    MaxStops = 1
    MaxTears = 0
INVARIANT RecoversCommitted
CHECK_DEADLOCK FALSE
