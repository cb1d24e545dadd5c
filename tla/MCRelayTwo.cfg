\* Two sessions that share the wire, the main loop of C and the reader of B.
CONSTANTS
    Uuid = {u1, u2}
    NoUuid = NoUuid
    MaxUp = 1
    MaxDown = 2
    LinkMayFail = FALSE
SPECIFICATION Spec
SYMMETRY UuidSymmetry
INVARIANTS
    DownstreamInOrder
    ClientFinAfterData
    UpstreamConserved
    ReferenceValid
    MapsHoldLiveSessions
CONSTRAINTS
    TwoUnitsOneWay
    UntilCrash
CHECK_DEADLOCK FALSE
