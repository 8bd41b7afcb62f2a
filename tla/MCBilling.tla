----------------------------- MODULE MCBilling -----------------------------
(* Model values for checking Billing: requests are interchangeable.        *)
EXTENDS Billing, TLC

CONSTANTS p1, p2, p3, c1, c2, t1, t2

TwoProcs == {p1, p2}
ThreeProcs == {p1, p2, p3}
OneCustomer == {c1}
TwoCustomers == {c1, c2}
OneTopup == {t1}
TwoTopups == {t1, t2}

ProcSymmetry == Permutations(Proc)
=============================================================================
