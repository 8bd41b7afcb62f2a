\* Two requests at a time on one customer and two top-ups, four in all.
CONSTANTS
    p1 = p1  p2 = p2  p3 = p3  c1 = c1  c2 = c2  t1 = t1  t2 = t2
    None = None
    Customer <- OneCustomer
    Topup <- TwoTopups
    Proc <- TwoProcs
    Cent = 2
    Amounts = {1}
    MaxRequests = 4
SPECIFICATION FairSpec
INVARIANTS TypeOK LedgerChain CreditedOnce CreditFindsCustomer
PROPERTIES SuccessIsFinal WalletRefinement EveryRequestEnds
CHECK_DEADLOCK FALSE
