\* A deletion overlaps the update of a node that has the proxy.
CONSTANTS
    p1 = p1  p2 = p2  n1 = n1  n2 = n2  x1 = x1
    None = None
    Proxy <- OneProxy
    Node <- OneNode
    Proc <- TwoProcs
    Gives <- OneOrNone
    MaxRequests = 4
SPECIFICATION Spec
PROPERTY DeletedStaysDeleted
CHECK_DEADLOCK FALSE
