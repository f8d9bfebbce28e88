CONSTANTS
    MinBlocks = 5
    NBlocks = 8
    NoBlock = NoBlock
    Hwms = {1, 4, 6}
    MaxPackets = 10
SPECIFICATION FairSpec
INVARIANTS TypeOK PacketsInOrder InputIsStable ComparesNeighbours
PROPERTY BothReturn
CHECK_DEADLOCK FALSE
