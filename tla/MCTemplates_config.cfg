\* Updates of the configuration alone.
CONSTANTS
    p1 = p1  p2 = p2  p3 = p3  x1 = x1  k1 = k1  k2 = k2
    None = None
    Template <- OneTemplate
    Container <- OneContainer
    Proc <- TwoProcs
    Contents <- SomeContents
    Types = {"", "json", "xml"}
    MaxRequests = 3
SPECIFICATION Spec
INVARIANT ContentHasItsType
CHECK_DEADLOCK FALSE
