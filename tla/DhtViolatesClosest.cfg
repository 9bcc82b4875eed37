CONSTANTS
  Keys <- MCKeys
  genesis_bootstrap = "genesis"
  min_quorum = 3
  max_quorum = 4
  max_delegates = 6
  MaxEpoch = 1
  BYTES = 2
  BITS = 2
  K = 2
  our_id = {}
  Ids <- MCIds
  Addrs = {"a"}
  Times = {0, 1, 2}
  timeout_secs = 2
SPECIFICATION MembershipSpec
INVARIANT AnswersAreClosest
