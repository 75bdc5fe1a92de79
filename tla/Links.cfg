SPECIFICATION FairSpec
CONSTANTS
    Config <- MCConfig
    Starts <- MCStarts
    MaxFrames = 2
    MaxBreaks = 1
    MaxFailures = 1
INVARIANTS ConfigAsDescribed OneChain LiveIsListed ReadInOrder 
PROPERTIES EventuallyLinked
CHECK_DEADLOCK FALSE
