SPECIFICATION FairSpec
CONSTANTS
    p1 = p1
    p2 = p2
    c1 = c1
    c2 = c2
    ClientOne = ClientOne
    NoClient = NoClient
    Partition = {p1}
    Client = {c1, c2}
    Id = {1, 2}
    MaxOpen = 2
    MaxEntries = 2
    MaxTerms = 2
INVARIANTS QueuesConsistent NoOrphans DiesOnlyOfDoubleOpen
PROPERTIES CommittedNotSent Delivers OnlyOpenerAnswered
CHECK_DEADLOCK FALSE
