SPECIFICATION Spec
CONSTANTS
  Callers = {c1, c2}
  Addrs = {a1, a2}
  Null = Null
  Udp = FALSE
  UdpRetries = 6
  Concurrency = 2
  MaxXid = 3
  Faults = {"timeout"}
INVARIANTS ReplyIsForRequest
CHECK_DEADLOCK FALSE
