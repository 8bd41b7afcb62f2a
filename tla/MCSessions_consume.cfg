\* A refresh token used once.
CONSTANTS
    p1 = p1  p2 = p2  a1 = a1  a2 = a2  s1 = s1  s2 = s2  s3 = s3  s4 = s4
    None = None
    Account <- OneAccount
    Session <- ThreeSessions
    Proc <- TwoProcs
    MaxRequests = 5
SPECIFICATION Spec
SYMMETRY Symmetry
INVARIANTS RefreshConsumes
CHECK_DEADLOCK FALSE
