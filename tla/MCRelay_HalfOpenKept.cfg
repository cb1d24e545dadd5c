\* HalfOpenKept is not what the code does: TLC shows how.
CONSTANTS
    Uuid = {u1}
    NoUuid = NoUuid
    MaxUp = 1
    MaxDown = 1
    LinkMayFail = FALSE
SPECIFICATION Spec
INVARIANT HalfOpenKept
CHECK_DEADLOCK FALSE
