CONSTANTS
  u = u
  m = m
  k1 = k1
  k2 = k2
  NoAddr = NoAddr
  AddrSeq <- MCTwoAddrs
  TicketPrice = 2
  BlockReward = 60
  VoteReward = 5
  MineReward = 20
  RewardTransfer = 4
  FeePercent = 50
  MaxInt64 = 32767
  Arm64 = FALSE
  FloatLow <- MCFloatLow
  StartCoins = 6
  Deposits = {6}
  BlsKeys <- MCOneKey
  BlsLists <- MCOneKeyLists
  Requests <- MCOverdrawRequests
  Overdraw = TRUE
  MaxStake = 6
  MaxHeight = 1
SPECIFICATION Spec
PROPERTY BlockRewardBound
CHECK_DEADLOCK FALSE
