\* Two requests at a time on two accounts and three sessions, eight in all.
CONSTANTS
    p1 = p1  p2 = p2  a1 = a1  a2 = a2  s1 = s1  s2 = s2  s3 = s3  s4 = s4
    None = None
    Account <- TwoAccounts
    Session <- ThreeSessions
    Proc <- TwoProcs
    MaxRequests = 8
SPECIFICATION Spec
SYMMETRY Symmetry
INVARIANTS TypeOK SuccessorReplaces LogoutIsFinal SessionsHaveAccounts
CHECK_DEADLOCK FALSE
