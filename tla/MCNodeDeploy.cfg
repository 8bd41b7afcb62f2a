\* Two requests at a time on two containers and two nodes, four in all.
CONSTANTS
    p1 = p1  p2 = p2  k1 = k1  k2 = k2  n1 = n1  n2 = n2
    None = None
    Container <- TwoContainers
    Node <- TwoNodes
    Proc <- TwoProcs
    Rams = {1}
    Capacities = {1, 2}
    MaxRequests = 4
SPECIFICATION Spec
SYMMETRY Symmetry
INVARIANTS TypeOK ReservationsExact FullWhenUsedUp OneDeployment
CHECK_DEADLOCK FALSE
