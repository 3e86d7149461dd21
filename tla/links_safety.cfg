SPECIFICATION Spec
CONSTANTS
    p1 = p1
    p2 = p2
    p3 = p3
    m1 = m1
    m2 = m2
    Proc = {p1, p2, p3}
    Body = {m1}
    Script <- OneSender
SYMMETRY Symmetry
INVARIANTS
    TypeOK
    ForgottenWhenHeld
PROPERTIES
    ContractSpec
CHECK_DEADLOCK FALSE
