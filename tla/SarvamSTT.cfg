SPECIFICATION Spec
CONSTANTS NSockets = 3 NFrames = 2 NSwitches = 1
INVARIANTS TypeOK SocketsAreOwned SilentWhenOver
CHECK_DEADLOCK FALSE
