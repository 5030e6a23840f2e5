SPECIFICATION Spec
CONSTANTS
  Conns = {k1}
  Threads = {t1, t2}
  Fds = {f1}
  None = None
  Udp = FALSE
  MaxWrites = 3
  MaxSends = 2
  Faults = {"connect", "close", "busy", "clear"}
INVARIANTS TypeOK NoMessageForgotten NothingTorn
CHECK_DEADLOCK FALSE
