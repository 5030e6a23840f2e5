SPECIFICATION Spec
CONSTANTS
  Conns = {k1}
  Threads = {t1, t2}
  Fds = {f1}
  None = None
  Udp = FALSE
  MaxWrites = 2
  MaxSends = 2
  Faults = {"close"}
INVARIANTS OpenIsManaged
CHECK_DEADLOCK FALSE
