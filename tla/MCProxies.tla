----------------------------- MODULE MCProxies ------------------------------
(* Model values for checking Proxies: requests are interchangeable, and so *)
(* are nodes.                                                              *)
EXTENDS Proxies, TLC

CONSTANTS p1, p2, n1, n2, x1

TwoProcs == {p1, p2}
OneNode == {n1}
TwoNodes == {n1, n2}
OneProxy == {x1}
OneOrNone == {{}} \cup {{c} : c \in Credential}

Symmetry == Permutations(Proc) \cup Permutations(Node)
=============================================================================
