CONSTANTS
  nA = nA
  nB = nB
  nC = nC
  Node = {nA, nB, nC}
  Sort <- MCFourSorts
  Owner <- MCFourOwners
  VoterSize = 4
  CommitteeSize = 4
  MustVotes = 3
  MaxRound = 1
  Outcomes <- MCOneRound
  MayCrash = {}
  Timely = TRUE
SPECIFICATION FairSpec
PROPERTY BlockInFirstRound
CHECK_DEADLOCK FALSE
