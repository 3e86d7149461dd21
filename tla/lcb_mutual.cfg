SPECIFICATION FairSpec
CONSTANTS
    p1 = p1
    p2 = p2
    p3 = p3
    Proc = {p1, p2, p3}
    Deps <- MutualDeps
    Count <- MutualCount
INVARIANTS
    TypeOK
    CausalFromCall
    NothingStuck
PROPERTIES
    FifoSpec
    AllDelivered
CHECK_DEADLOCK FALSE
