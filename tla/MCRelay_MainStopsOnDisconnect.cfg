\* MainStopsOnDisconnect is not what the code does: TLC shows how.
CONSTANTS
    Uuid = {u1, u2}
    NoUuid = NoUuid
    MaxUp = 1
    MaxDown = 0
    LinkMayFail = FALSE
SPECIFICATION Spec
INVARIANT MainStopsOnDisconnect
CHECK_DEADLOCK FALSE
