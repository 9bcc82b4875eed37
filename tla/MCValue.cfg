CONSTANTS
  INITIAL_REWARD = 8
  HALVING_INTERVAL = 3
  MAX_SUPPLY = 44
  FEE_BPS = 5000
  DEV_SHARE_BPS = 4000
  MAX_HALVINGS = 6
  AMOUNT_MAX = 40000
  genesis_amount = 8
  FeesOfABlock = {0, 6, 20}
  MaxHeight = 13
  customer = "carol"
  Miners <- MCMiners
  TotalRewards = {0, 100}
  Shares = {0, 1, 2, 4000}
  winner_bonus_percent = 2000
  pool_fee_percent = 1000
  U64 = 262144
  NoOne = "no one"
  MaxCalls = 3
  o1 = o1
  o2 = o2
  b1 = b1
  b2 = b2
  Owners = {o1, o2}
  SplitTxs = {"tx"}
  Bridges = {b1, b2}
  RootIds = {"root"}
  GENESIS_SUPPLY = 3
  EpochRewards = {1}
  MaxSupply = 4
  MaxSplits = 2
  Accounts <- MCAccounts
  founder = "founder"
  community_fund = "fund"
  Txs <- MCTxs
  FOUNDER_SHARE_BPS = 1000
  MAX_U64 = 99
  Deposits = {49, 50}
  MaxCredited = 99
SYMMETRY MCSymmetry
SPECIFICATION ValueSpec
INVARIANTS
  EmissionIsExact
  PayoutsAreExact
  SupplyIsPartitioned
  LineageReachesEmission
  ValueIsConserved
  NoncesInOrder
CHECK_DEADLOCK FALSE
