CONSTANTS
  EXPECTED_WIRE_VERSION = 5
  Cells = {0, 1, 2, 3, 5}
  WireTxs <- MCWireTxs
  BLOCK_TXS_MAX = 2
  BlockTxs <- MCBlockTxs
  Headers <- MCHeaders
  StateRoots = {0, 1}
  Supplies = {0, 1}
  BASE_BYTES = 1
  TX_BYTES = 1
  MAX_BLOCK_BYTES = 5
  MAX_TRANSACTIONS = 5
  MAX_TX_INPUTS = 1
  MAX_TX_OUTPUTS = 2
  MAX_WITNESSES = 1
  WIRE_VERSION = 9
  WireVersions = {8, 9}
  SUM_MODULUS = 4
  CANDIDATE_MAX = 3
  Utxos <- MCUtxos
  Nullifiers = {3, 4, 5}
  U64_MAX = 2
  UTXOS_MAX = 2
  SPENT_MAX = 4
  RecordHashes = {1, 2, 3}
  ParentLists <- MCParentLists
  Runs <- MCRuns
  NoKey = 0
  BloomKeys <- MCBloomKeys
  HashKey <- MCHashKey
  WORD_BITS = 4
  WORD_BYTES = 2
  HEADER_BYTES = 1
  MAX_HASHES = 5
  U64 = 16
  ExpectedKeys = {0, 2, 3}
  BitsPerKey = {0, 2, 4}
  SIZE_MAX = 3
SPECIFICATION FormatsSpec
INVARIANTS
  ViewsAreExact
  HashNamesOneBlock
  ValidBlocksArrive
  RootIdentifiesState
  WalkFindsCycles
  MergeIsFaithful
  NoFalseNegatives
CHECK_DEADLOCK FALSE
