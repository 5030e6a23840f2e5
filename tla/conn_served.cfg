SPECIFICATION FairSpec
CONSTANTS
  Conns = {k1}
  Threads = {t1, t2}
  Fds = {f1}
  None = None
  Udp = FALSE
  MaxWrites = 3
  MaxSends = 2
  Faults = {"busy"}
INVARIANTS QueueIsServed
PROPERTIES EveryPacketIsSent
CHECK_DEADLOCK FALSE
