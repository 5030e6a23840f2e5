SPECIFICATION FairSpec
CONSTANTS
  Callers = {c1, c2, c3}
  Addrs = {a1, a2, a3}
  Null = Null
  Udp = FALSE
  UdpRetries = 6
  Concurrency = 2
  MaxXid = 3
  Faults = {}
PROPERTIES ServiceSpec EveryCallIsAnswered
CHECK_DEADLOCK FALSE
