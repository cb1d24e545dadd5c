\* UpstreamInOrder is not what the code does: TLC shows how.
CONSTANTS
    Uuid = {u1}
    NoUuid = NoUuid
    MaxUp = 2
    MaxDown = 0
    LinkMayFail = FALSE
SPECIFICATION Spec
INVARIANT UpstreamInOrder
CHECK_DEADLOCK FALSE
