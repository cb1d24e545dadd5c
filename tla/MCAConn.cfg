\* Three coroutines, frames of one to three operations, fair scheduling.
CONSTANTS
    Coroutine = {w1, w2, w3}
    MaxLen = 3
    MaxTransfer = 2
    MaxFrames = 3
SPECIFICATION FairSpec
INVARIANTS
    TypeOK
    FramesTakeTurns
    StartInCallOrder
    OneHandlerEach
PROPERTY EveryCallReturns
CHECK_DEADLOCK FALSE
