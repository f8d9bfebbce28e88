CONSTANTS
    Lane = {l1, l2}
    Frames <- MCFrames
    Errors <- MCErrors
    NCoh = 4
    Preamble = 64
    LongData = 48
    FftSize = 256
    Snr = 1
    Starts <- MCStarts
    BitsSent <- MCBitsSent
    Noise <- MCNoise
SYMMETRY LaneSymmetry
SPECIFICATION MCSpec
INVARIANTS TypeOK AcceptedAsSent LearntIsReal DataErrorsAreFixed FileIsKnown
    PreambleFoundOnce BitsSurviveOffset
PROPERTY StrongestAreKept
