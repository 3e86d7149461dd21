SPECIFICATION Spec
CONSTANTS
    l1 = l1
    l2 = l2
    NoLink = NoLink
    Link = {l1, l2}
SYMMETRY Symmetry
INVARIANTS
    TypeOK
    NoCircularWait
CHECK_DEADLOCK FALSE
