CONSTANTS
  nA = nA
  nB = nB
  nC = nC
  Node = {nA, nB, nC}
  Sort <- MCFiveSorts
  Owner <- MCFiveOwners
  VoterSize = 4
  CommitteeSize = 4
  MustVotes = 3
  MaxCalls = 1
SPECIFICATION Spec
INVARIANT ElectedByVotes CommonVoter TimelyAgreement
 
CHECK_DEADLOCK FALSE
