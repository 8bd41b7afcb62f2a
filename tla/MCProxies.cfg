\* Two requests of several statements at a time, five in all, on one proxy and
\* one node; an update gives at most one credential.
CONSTANTS
    p1 = p1  p2 = p2  n1 = n1  n2 = n2  x1 = x1
    None = None
    Proxy <- OneProxy
    Node <- OneNode
    Proc <- TwoProcs
    Gives <- OneOrNone
    MaxRequests = 5
SPECIFICATION Spec
SYMMETRY Symmetry
INVARIANTS TypeOK AssignedExists ClosedTakesNoNodes
PROPERTY CredentialsKept
CHECK_DEADLOCK FALSE
