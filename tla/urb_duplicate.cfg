SPECIFICATION Spec
CONSTANTS
    p1 = p1
    p2 = p2
    p3 = p3
    m1 = m1
    Proc = {p1, p2, p3, p4, p5}
    Payload = {m1}
    Script <- OneMessage
    NoId = NoId
    MaxCrash = 2
    AddId = {}
    OncePerPacket = FALSE
    Races = FALSE
    Hoisted = FALSE
SYMMETRY Symmetry
INVARIANTS
    SurvivingHolder
CHECK_DEADLOCK FALSE
