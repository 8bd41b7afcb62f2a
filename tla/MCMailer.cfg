\* Three mails, a channel of two, three retries.
CONSTANTS
    m1 = m1  m2 = m2  m3 = m3  m4 = m4
    Mail <- ThreeMails
    Capacity = 2
    MaxRetries = 3
SPECIFICATION FairSpec
INVARIANTS OnePlace SendsBounded
PROPERTY ServesMail
CHECK_DEADLOCK FALSE
