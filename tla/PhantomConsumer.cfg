SPECIFICATION Spec
CONSTANTS
    p1 = p1
    p2 = p2
    c1 = c1
    c2 = c2
    ClientOne = ClientOne
    NoClient = NoClient
    Partition = {p1, p2}
    Client = {c1, c2}
    Id = {1, 2}
    MaxOpen = 1
    MaxEntries = 2
    MaxTerms = 1
INVARIANT
    NoOrphans
CHECK_DEADLOCK FALSE
