SPECIFICATION Spec
CONSTANTS
    n1 = n1
    n2 = n2
    n3 = n3
    n4 = n4
    None = None
    Node = {n1, n2, n3, n4}
    Electable = {n1, n2}
    UninitVotes = {3}
    MaxTerm = 2
    Operation = {"ADD"}
    MaxRequests = 0
    MaxLoss = 0
    MaxInFlight = 1
    MaxPending = 5
INVARIANTS VotesOnce ElectedOnce ElectedByMajority LeaderWasElected ElectionInv
SYMMETRY Symmetry
