SPECIFICATION Spec
CONSTANTS
  Threads = {t1, t2}
  Files = {f1, f2}
  None = None
  MaxOps = 3
  Faults = {"refuse", "before", "after", "reject", "timeout", "setattr", "decode"}
INVARIANTS
  TypeOK
  SeqidInStep
  SeqidsAreOrdered
  RightFile
  EveryOpenIsHeld
PROPERTIES
  OpensEndByClose
  EveryOperationReturns
