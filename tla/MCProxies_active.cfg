\* A deactivation overlaps an assignment.
CONSTANTS
    p1 = p1  p2 = p2  n1 = n1  n2 = n2  x1 = x1
    None = None
    Proxy <- OneProxy
    Node <- OneNode
    Proc <- TwoProcs
    Gives <- OneOrNone
    MaxRequests = 3
SPECIFICATION Spec
PROPERTY AssignsActive
CHECK_DEADLOCK FALSE
