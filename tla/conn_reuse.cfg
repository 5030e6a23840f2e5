SPECIFICATION Spec
CONSTANTS
  Conns = {k1, k2}
  Threads = {t1}
  Fds = {f1, f2}
  None = None
  Udp = TRUE
  MaxWrites = 1
  MaxSends = 2
  Faults = {"close", "clear"}
SYMMETRY Symmetric
INVARIANT MapIsSound
CHECK_DEADLOCK FALSE
