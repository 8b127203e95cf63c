CONSTANTS
  Worker = {w1, w2, w3}
  MaxVotes = 3
  MaxCount = 3
  QueueSize = 2
SPECIFICATION PoolsSpec
INVARIANT Conserved Quiet
PROPERTY Implements SortImplements AllSigned LoopReturns
