CONSTANTS
  u1 = u1
  u2 = u2
  i1 = i1
  p1337 = p1337
  p7 = p7
  NUM_RX_DESCS = 3
  NUM_TX_DESCS = 2
  CacheSize = 3
  PacketsSize = 2
  UdpSockets = {u1}
  IcmpSockets = {}
  Ports = {p1337, p7}
  SendPort = p1337
  Workloads <- MCRxWorkloads
  Modulus = 4
SPECIFICATION Spec
INVARIANT TakenOnce
CHECK_DEADLOCK FALSE
