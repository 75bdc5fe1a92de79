SPECIFICATION Spec
CONSTANTS
    n1 = n1
    n2 = n2
    n3 = n3
    n4 = n4
    None = None
    Node = {n1, n2, n3}
    Electable = {n1}
    UninitVotes = {3}
    MaxTerm = 1
    Operation = {"ADD"}
    MaxRequests = 2
    MaxLoss = 1
    MaxInFlight = 3
    MaxPending = 3
INVARIANTS CommittedOnMajority StoredInOrder
PROPERTIES CommittedStays ImplementsReplicatedQueue
SYMMETRY Symmetry
