CONSTANTS
  Txs <- MCTxs
  Fee <- MCFee
  EstimatedSize <- MCEstimatedSize
  Nullifiers <- MCNullifiers
  Inputs <- MCInputs
  FEE_BUCKETS = 2
  MIN_FEE = 1
  MAX_MEMPOOL_TX = 2
  MAX_MEMPOOL_BYTES = 4
  TX_TTL = 0
  BlockLimits <- MCBlockLimits
  MaxClock = 1
  MaxWatermark = 2
  MaxRefs = 2
SPECIFICATION FairSpec
PROPERTY EvictsOnlyStale
