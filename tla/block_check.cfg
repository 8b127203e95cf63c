CONSTANTS
  nA = nA
  nB = nB
  Node = {nA, nB}
  SortBlocks = 2
  ZeroHash = ZeroHash
  Wins <- MCWins
  Quorums <- MCQuorums
  Binder = {nB}
  Root <- MCRoot
  MaxHeight = 5
  MaxRound = 1
SPECIFICATION Spec
INVARIANT RedrawnValid  FailsOnlyUndone
CHECK_DEADLOCK FALSE
