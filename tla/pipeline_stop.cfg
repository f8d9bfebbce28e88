CONSTANTS
    MinBlocks = 2
    NBlocks = 2
    NoBlock = NoBlock
    Collector = Collector
    Lane = {l1}
    Hwm = 1
SPECIFICATION FairSpec
INVARIANTS TypeOK
PROPERTIES ImplementsBlockPool EveryBlockReturns SamplerReturns StopDrains
CHECK_DEADLOCK FALSE
