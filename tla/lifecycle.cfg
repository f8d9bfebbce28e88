CONSTANTS
    NBlocks = 4
    MaxAdvance = 3
    StallLimit = 4
    StartTurns = 2
    FillTurns = 1
    SendTurns = 2
SPECIFICATION FairSpec
INVARIANTS TypeOK WatchdogInTime
PROPERTIES NoFalseAlarm SilentHackRFRestarts SignalEnds
CHECK_DEADLOCK FALSE
