\* A publication while three handlers come and go.
CONSTANTS
    h1 = h1  h2 = h2  h3 = h3  e1 = e1
    None = None
    Handler <- ThreeHandlers
    Publication <- OnePublication
SPECIFICATION BusFairSpec
INVARIANTS CalledOnce UnsubscribesNested
PROPERTIES AllCalled
CHECK_DEADLOCK FALSE
