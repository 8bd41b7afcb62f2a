\* Half a cent of fee.
CONSTANTS
    p1 = p1  p2 = p2  p3 = p3  t1 = t1  t2 = t2  g1 = g1
    None = None
    Gateway <- OneGateway
    Topup <- TwoTopups
    Proc <- ThreeProcs
    Amounts = {20, 50}
    FeePercentage = 250
    FeeFixed = 5
    MaxRequests = 5
SPECIFICATION Spec
SYMMETRY Symmetry
INVARIANT TotalIsSum
CHECK_DEADLOCK FALSE
