\* Unsubscribing in any order.
CONSTANTS
    h1 = h1  h2 = h2  h3 = h3  e1 = e1
    None = None
    Handler <- ThreeHandlers
    Publication <- OnePublication
SPECIFICATION BusSpec
INVARIANTS UnsubscribesOwn
CHECK_DEADLOCK FALSE
