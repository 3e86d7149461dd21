SPECIFICATION FairSpec
CONSTANTS
    p1 = p1
    p2 = p2
    p3 = p3
    m1 = m1
    m2 = m2
    Proc = {p1, p2}
    Body = {m1}
    Script <- Exchange
PROPERTIES
    Reliable
    EventuallyQuiet
CHECK_DEADLOCK FALSE
