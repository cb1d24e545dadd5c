\* One session, any operation may fail, fair scheduling.
CONSTANTS
    Session = {s1}
    NoSession = NoSession
    MaxReads = 2
    MaxOut = 3
SPECIFICATION FairSpec
INVARIANTS
    TypeOK
    CloseAllOnce
    EndedMeansClosed
    CloseLosesNothing
    FinAfterData
PROPERTIES
    ClosedSessionEnds
    AcceptLoopComesBack
CHECK_DEADLOCK FALSE
