\* Three concurrent requests on one customer and one top-up, six in all, in
\* whole cents.
CONSTANTS
    p1 = p1  p2 = p2  p3 = p3  c1 = c1  c2 = c2  t1 = t1  t2 = t2
    None = None
    Customer <- OneCustomer
    Topup <- OneTopup
    Proc <- ThreeProcs
    Cent = 1
    Amounts = {1}
    MaxRequests = 6
SPECIFICATION Spec
SYMMETRY ProcSymmetry
INVARIANTS TypeOK LedgerChain CreditedOnce CreditFindsCustomer
PROPERTIES SuccessIsFinal WalletRefinement
CHECK_DEADLOCK FALSE
