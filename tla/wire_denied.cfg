SPECIFICATION Spec
CONSTANTS
  Calls <- MCCalls
  Sizes = {4, 5}
  Entries = {0, 2}
  Supported <- MCSupported
  Faults = {"denied"}
INVARIANT AlwaysReceived
CHECK_DEADLOCK FALSE
