----------------------------- MODULE MCSessions -----------------------------
(* Model values for checking Sessions; ids and requests are interchangeable. *)
EXTENDS Sessions, TLC

CONSTANTS p1, p2, a1, a2, s1, s2, s3, s4

TwoProcs == {p1, p2}
OneAccount == {a1}
TwoAccounts == {a1, a2}
ThreeSessions == {s1, s2, s3}
FourSessions == {s1, s2, s3, s4}

Symmetry == Permutations(Proc) \cup Permutations(Session) \cup Permutations(Account)
=============================================================================
