\* Three connections that register one identifier, fair scheduling: a pair with
\* several frames in each direction and a duplicate beside it.
CONSTANTS
    Conn = {c1, c2, c3}
    Id = {i1}
    NoConn = NoConn
    NoId = NoId
    MaxFrames <- MCMaxFrames
    Busy = c1
    PeersSendEof = TRUE
SPECIFICATION FairSpec
INVARIANTS
    TypeOK
    SingleWriter
    OutboxWellFormed
    ClosedByOnePump
PROPERTIES
    PumpsEndTogether
    PairStarts
CHECK_DEADLOCK FALSE
