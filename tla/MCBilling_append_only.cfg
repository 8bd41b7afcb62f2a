\* The ledger as an append-only audit trail.
CONSTANTS
    p1 = p1  p2 = p2  p3 = p3  c1 = c1  c2 = c2  t1 = t1  t2 = t2
    None = None
    Customer <- OneCustomer
    Topup <- OneTopup
    Proc <- TwoProcs
    Cent = 2
    Amounts = {1}
    MaxRequests = 4
SPECIFICATION Spec
PROPERTIES AuditTrailAppendOnly
CHECK_DEADLOCK FALSE
