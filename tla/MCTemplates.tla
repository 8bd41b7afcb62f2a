---------------------------- MODULE MCTemplates -----------------------------
(* Model values for checking Templates: requests are interchangeable.      *)
EXTENDS Templates, TLC

CONSTANTS p1, p2, p3, x1, k1, k2

TwoProcs == {p1, p2}
OneTemplate == {x1}
OneContainer == {k1}

\* Text that no parser takes, YAML, and JSON (which YAML's parser takes too).
SomeContents == {{}, {"yaml"}, {"yaml", "json"}}

Symmetry == Permutations(Proc)
=============================================================================
