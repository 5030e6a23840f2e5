SPECIFICATION FairSpec
CONSTANTS
  Callers = {c1, c2}
  Addrs = {a1, a2}
  Null = Null
  Udp = TRUE
  UdpRetries = 2
  Concurrency = 2
  MaxXid = 2
  Faults = {"timeout", "loss", "duplicate", "close", "connect"}
INVARIANTS TypeOK TableIsSound NoStrandedCaller MixupOnlyByDangling PermitsAreKept
PROPERTIES EveryCallReturns DeliveredReplyIsKept
CHECK_DEADLOCK FALSE
