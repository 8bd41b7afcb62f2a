----------------------------- MODULE MCGateways -----------------------------
(* Model values for checking Gateways: requests are interchangeable, and   *)
(* so are top-ups.                                                         *)
EXTENDS Gateways, TLC

CONSTANTS p1, p2, p3, t1, t2, g1

ThreeProcs == {p1, p2, p3}
TwoTopups == {t1, t2}
OneGateway == {g1}

Symmetry == Permutations(Proc) \cup Permutations(Topup)
=============================================================================
