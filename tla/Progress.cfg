SPECIFICATION FairSpec
CONSTANTS
    n1 = n1
    n2 = n2
    n3 = n3
    n4 = n4
    None = None
    Node = {n1, n2, n3}
    Electable = {n1}
    UninitVotes = {3}
    MaxTerm = 1
    Operation = {"ADD", "COMMIT"}
    MaxRequests = 2
    MaxLoss = 1
    MaxInFlight = 1
    MaxPending = 5
PROPERTIES EventuallyApplied
