CONSTANTS
  t1 = t1
  t2 = t2
  n1 = n1
  n2 = n2
  Threads = {t1, t2}
  Nodes = {n1, n2}
  Addrs <- MCAddrs
  Ips <- MCIps
  Ip <- MCIp
  MAX_PEERS = 1
  MAX_OUTBOUND = 1
  MAX_CONNECTING = 1
  MAX_PER_IP = 1
  RATE_LIMIT_PER_SEC = 1
  ReportedHeights = {1}
  WORD = 8
  MaxOps = 4
SYMMETRY MCSymmetry
SPECIFICATION Spec
INVARIANTS
  CountsSettle
  SlotsAreKept
  UnracedIpsAreExact
PROPERTIES
  BroadcastSparesTheLiving
  RetriesAreSpaced
CHECK_DEADLOCK FALSE
