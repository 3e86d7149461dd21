SPECIFICATION StackSpec
CONSTANTS
    p1 = p1
    p2 = p2
    Proc = {p1, p2}
    Payload <- Texts
    Script <- Calls
    Batch <- Three
    Extra <- OneMore
    Misread <- Digits
INVARIANTS
    StackTypeOK
    NothingHeldBack
PROPERTIES
    FifoSpec
CHECK_DEADLOCK FALSE
