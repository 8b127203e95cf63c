CONSTANTS
    QueueSize = 2
    SortBlocks = 2
    StartHeights = {0, 1}
    MaxHeight = 2
    MaxRound = 2
    MaxForks = 1
SPECIFICATION FairSpec
INVARIANT NextBlockTried AskedOnce TriedInOrder
CHECK_DEADLOCK FALSE
PROPERTY RoundsGoOn
