SPECIFICATION FairSpec
CONSTANTS
    p1 = p1
    p2 = p2
    p3 = p3
    m1 = m1
    Proc = {p1, p2, p3}
    Body = {m1}
    Script <- OneMessage
    MaxCrash = 2
INVARIANTS
    TypeOK
    RelayersKeep
    ForgottenWhenHeld
    NoCreation
    SettledDelivers
PROPERTIES
    Agreement
    Validity
CHECK_DEADLOCK FALSE
