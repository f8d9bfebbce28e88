CONSTANTS
    MinBlocks = 3
    NBlocks = 4
    NoBlock = NoBlock
    Collector = Collector
    Lane = {l1, l2}
    Hwm = 1
    NoLane = NoLane
    ByteBits = 3
SPECIFICATION RunningSpec
INVARIANTS ExclusiveAccess StagesInOrder FlagsAreShown PipesAreWired
PROPERTY ImplementsBlockPool
SYMMETRY LaneSymmetry
CHECK_DEADLOCK FALSE
