CONSTANTS
  nA = nA
  nB = nB
  nC = nC
  Node = {nA, nB}
  Sort <- MCFewerLater
  Owner <- MCFewerLaterOwners
  VoterSize = 4
  CommitteeSize = 4
  MustVotes = 3
  MaxRound = 1
  Outcomes <- MCFewerLaterViews
  MayCrash = {}
  Timely = FALSE
SPECIFICATION Spec
INVARIANT MoreVotesWin
CHECK_DEADLOCK FALSE
