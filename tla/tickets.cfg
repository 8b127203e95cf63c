\* Two miners, sorts drawn one block ahead, a chain of four blocks, one block
\* taken off or one restart.
CONSTANTS
    mA = mA
    mB = mB
    Miner <- Miners
    Genesis <- OneEach
    MaxCount = 1
    SortBlocks = 1
    MaxHeight = 3
    MaxSeen = 1
    MaxEvents = 2
    MaxAsked = 2
    MaxFaults = 1
SPECIFICATION Spec
SYMMETRY MinersAlike
INVARIANT CountsFresh  
CHECK_DEADLOCK FALSE
