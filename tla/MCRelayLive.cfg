\* One session, fair scheduling, connections that may break.
CONSTANTS
    Uuid = {u1}
    NoUuid = NoUuid
    MaxUp = 1
    MaxDown = 1
    LinkMayFail = TRUE
SPECIFICATION FairSpec
PROPERTIES
    RejectedClientClosed
    BothEofCleanUp
    DisconnectStopsNodes
    WritersReturn
CHECK_DEADLOCK FALSE
