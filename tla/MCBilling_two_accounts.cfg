\* Two requests at a time over two customers and two top-ups, three in all.
CONSTANTS
    p1 = p1  p2 = p2  p3 = p3  c1 = c1  c2 = c2  t1 = t1  t2 = t2
    None = None
    Customer <- TwoCustomers
    Topup <- TwoTopups
    Proc <- TwoProcs
    Cent = 2
    Amounts = {1}
    MaxRequests = 3
SPECIFICATION FairSpec
INVARIANTS LedgerChain CreditedOnce
PROPERTIES WalletRefinement EveryRequestEnds
CHECK_DEADLOCK FALSE
