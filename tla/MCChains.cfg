CONSTANTS
  Blocks <- MCBlocks
  Local <- MCLocal
  Hashes <- MCHashes
  Zero = "0"
  MAX_REORG_DEPTH = 1
  EPOCH_LENGTH_BLOCKS = 2
  Heights = {1, 2}
  MaxLedger = 4
  n1 = n1
  n2 = n2
  Nodes <- MCNodes
  Members <- MCMembers
  committee_pubkeys <- MCCommittee
  threshold = 2
  genesis <- MCGenesis
  Versions = {1}
  Times = {"t1"}
  Roots = {"r1", "r2"}
  Figures = {"f1", "f2"}
  MaxEpochs = 2
  MaxBlocks = 3
SYMMETRY NodeSymmetry
SPECIFICATION ChainsSpec
INVARIANTS
  HistoryIsLinked
  AnchorsAreExecuted
  PreviewIsFresh
  ContentsAreCertified
  ChainsAgree
PROPERTIES
  FinalizedHistoryIsFixed
  ReorgIsBounded
CHECK_DEADLOCK FALSE
