\* Two requests of several statements at a time, five in all, on one template and
\* one container.
CONSTANTS
    p1 = p1  p2 = p2  p3 = p3  x1 = x1  k1 = k1  k2 = k2
    None = None
    Template <- OneTemplate
    Container <- OneContainer
    Proc <- TwoProcs
    Contents <- SomeContents
    Types = {"", "json", "xml"}
    MaxRequests = 5
SPECIFICATION Spec
SYMMETRY Symmetry
INVARIANTS TypeOK TemplatesExist ContentParses
PROPERTY StartsOnActive
CHECK_DEADLOCK FALSE
