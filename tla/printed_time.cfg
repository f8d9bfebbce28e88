CONSTANTS
    MinSize = 13
    FftSize = 16
    Preamble = 3
    LongData = 2
    Rate = 48
    Second = 500
    Width = 2
    MaxChunk = 20
    Transfers = {5, 8, 20}
    MaxLoss = 3
    MaxSample = 60
SPECIFICATION Spec
INVARIANT PrintedTimeReadsRight
CHECK_DEADLOCK FALSE
