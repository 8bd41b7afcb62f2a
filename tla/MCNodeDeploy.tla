---------------------------- MODULE MCNodeDeploy ----------------------------
(* Model values for checking NodeDeploy: requests are interchangeable, and *)
(* so are containers and nodes.                                            *)
EXTENDS NodeDeploy, TLC

CONSTANTS p1, p2, k1, k2, n1, n2

TwoProcs == {p1, p2}
TwoContainers == {k1, k2}
TwoNodes == {n1, n2}

Symmetry == Permutations(Proc) \cup Permutations(Container) \cup Permutations(Node)
=============================================================================
