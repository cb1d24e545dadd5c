\* One session with several units in each direction.
CONSTANTS
    Uuid = {u1}
    NoUuid = NoUuid
    MaxUp = 3
    MaxDown = 2
    LinkMayFail = TRUE
SPECIFICATION Spec
INVARIANTS
    TypeOK
    UpstreamConserved
    ReferenceValid
    MapsHoldLiveSessions
PROPERTY
    MainWritesToOpenRemote
    DownstreamIsPipe
CHECK_DEADLOCK FALSE
