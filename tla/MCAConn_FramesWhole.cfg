\* FramesWhole is not what the code does: TLC shows how.
CONSTANTS
    Coroutine = {w1, w2}
    MaxLen = 2
    MaxTransfer = 1
    MaxFrames = 2
SPECIFICATION Spec
INVARIANT FramesWhole
CHECK_DEADLOCK FALSE
