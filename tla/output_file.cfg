SPECIFICATION FairSpec
CONSTANTS
    Counts = {0, 14, 15, 17}
    PeerCount = 17
    GroupBy = 15
    Handlers = {"main", "poller", "sender", "other"}
    Ids = {0, 1, 2, 3}
    MaxLines = 3
    NoLink = NoLink
INVARIANTS
    TypeOK
    FileInOrder
    FileComplete
    GroupsAgree
    SentIsWritten
    LinksByIndex
PROPERTIES
    StopWrites
CHECK_DEADLOCK FALSE
