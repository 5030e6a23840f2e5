SPECIFICATION Spec
CONSTANTS
  Calls <- MCCalls
  Sizes = {4, 5}
  Entries = {0, 2}
  Supported <- MCSupported
  Faults = {"refused", "denied", "lost"}
INVARIANTS
  RequestIsRead
  ResultsAreSent
  SuccessIsExecuted
  ExecutedIsSuccess
  HandedOutIsTheServers
CHECK_DEADLOCK FALSE
