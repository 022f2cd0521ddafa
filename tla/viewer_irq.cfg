\* A device interrupt between two frames.
CONSTANTS
    ScanCode = {k1}
    Pointer = {p1}
    StepsPerFrame = 2
    MaxFrames = 3
    IrqAt = {3}
    ReadAt = {5}
    StopAt = {7}
    MayFail = TRUE
    MayContinue = FALSE
    SameSecond = FALSE
    MaxPosts = 2
    MaxMoves = 0
    MaxToggles = 2
    MaxSessions = 2
SPECIFICATION ViewerSpec
INVARIANT ReplayFaithful
CHECK_DEADLOCK FALSE
