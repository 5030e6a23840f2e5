SPECIFICATION FairSpec
CONSTANTS
  HeaderLen = 2
  Lengths = {0, 1, 2}
  IndexRange = 8
  MaxFrags = 2
  MaxConns = 2
  Faults = {"end", "hangup", "garbled", "drop"}
INVARIANTS TypeOK ReaderIsAligned FragmentFits
PROPERTIES StreamSpec EveryReplyIsDelivered
CHECK_DEADLOCK FALSE
