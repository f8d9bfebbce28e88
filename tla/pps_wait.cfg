CONSTANTS
    NBlocks = 4
    MaxAdvance = 3
    StallLimit = 4
    StartTurns = 2
    FillTurns = 1
    SendTurns = 2
SPECIFICATION Spec
INVARIANT StopIsObeyed
CHECK_DEADLOCK FALSE
