CONSTANTS
  Txs <- MCTxs
  Fee <- MCFee
  EstimatedSize <- MCEstimatedSize
  Nullifiers <- MCNullifiers
  Inputs <- MCInputs
  FEE_BUCKETS = 1
  MIN_FEE = 1
  MAX_MEMPOOL_TX = 3
  MAX_MEMPOOL_BYTES = 4
  TX_TTL = 0
  BlockLimits <- MCBlockLimits
  MaxClock = 0
  MaxWatermark = 1
  MaxRefs = 3
  None = "none"
  Workers = {"w1", "w2"}
  TxType <- MCTxType
  mempool_max_tx = 0
  MaxRequests = 3
  Keys = {"k1", "k2"}
  Contents = {"c1", "c2"}
  Nonces = {1, 2, 3}
  Clock = {0, 1, 3}
  max_timestamp_drift = 1
  max_future_drift = 1
  CacheSizes = {0, 1, 2}
  MaxAccepted = 4
SPECIFICATION GatewaySpec
INVARIANTS
  OvershootIsBounded
  UnracedMetricIsExact
  ReplayNeedsAFullCache
PROPERTIES
  RequestsAreAnswered
CHECK_DEADLOCK FALSE
