SPECIFICATION Spec
CONSTANTS
    Client = {c1, c2}
    Server = {s1, s2}
    None = None
    MaxStarts = 2
    MaxOpens = 2
    MaxElections = 2
    MaxRequests = 1
    MaxDeliveries = 1
    MaxDepartures = 1
SYMMETRY Symmetry
INVARIANTS AnswersToAsker EmptyOnlyIfMisled  RequestsReachLeader OneUnderWay
CHECK_DEADLOCK FALSE
