SPECIFICATION FairSpec
CONSTANTS
    p1 = p1
    p2 = p2
    p3 = p3
    m1 = m1
    Proc = {p1, p2, p3}
    Payload = {m1}
    Script <- OneMessage
    NoId = NoId
    MaxCrash = 1
    AddId = {}
    OncePerPacket = TRUE
    Races = FALSE
    Hoisted = FALSE
PROPERTIES
    UniformAgreement
CHECK_DEADLOCK FALSE
