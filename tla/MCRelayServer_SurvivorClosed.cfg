\* SurvivorClosed is not what the code does: TLC shows how.
CONSTANTS
    Conn = {c1, c2}
    Id = {i1}
    NoConn = NoConn
    NoId = NoId
    MaxFrames <- MCMaxFrames
    Busy = c1
    PeersSendEof = FALSE
SPECIFICATION Spec
INVARIANT SurvivorClosed
CHECK_DEADLOCK FALSE
