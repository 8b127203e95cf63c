CONSTANTS
  nA = nA
  nB = nB
  nC = nC
  Node = {nA, nB}
  Sort <- MCTwoRounds
  Owner <- MCTwoOwners
  VoterSize = 4
  CommitteeSize = 4
  MustVotes = 3
  MaxRound = 1
  Outcomes <- MCTwoViews
  MayCrash = {nA}
  Timely = FALSE
SPECIFICATION Spec
INVARIANT OneVotePerRound BlockFromVotes OneMakerPerRound NodeMakesOnce
CHECK_DEADLOCK FALSE
