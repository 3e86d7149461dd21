SPECIFICATION Spec
CONSTANTS
    p1 = p1
    p2 = p2
    p3 = p3
    Proc = {p1, p2, p3}
    Deps <- ObserverDeps
    Count <- PairCount
INVARIANTS
    LocalizedCausality
CHECK_DEADLOCK FALSE
