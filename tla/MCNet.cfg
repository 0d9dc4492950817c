CONSTANTS
  u1 = u1
  u2 = u2
  i1 = i1
  p1337 = p1337
  p7 = p7
  NUM_RX_DESCS = 4
  NUM_TX_DESCS = 4
  CacheSize = 3
  PacketsSize = 3
  UdpSockets = {u1, u2}
  IcmpSockets = {i1}
  Ports = {p1337, p7}
  SendPort = p1337
  Workloads <- MCWorkloads
  Modulus = 4
SPECIFICATION Spec
INVARIANTS RxComplete PacketsAccounted UdpInOrder TxInOrder ChecksumVerifies
CHECK_DEADLOCK FALSE
