SPECIFICATION Spec
CONSTANTS
    p1 = p1
    p2 = p2
    p3 = p3
    m1 = m1
    Proc = {p1, p2, p3}
    Payload = {m1}
    Script <- Everyone
    NoId = NoId
    MaxCrash = 1
    AddId = {}
    OncePerPacket = TRUE
    Races = TRUE
    Hoisted = TRUE
SYMMETRY Symmetry
INVARIANTS
    TypeOK
    MajorityHolds
    SurvivingHolder
PROPERTIES
    ContractSpec
CHECK_DEADLOCK FALSE
CONSTRAINT OneOrPair
