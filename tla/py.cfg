SPECIFICATION LiveSpec
CONSTANTS
  t1 = t1
  t2 = t2
  Caller = {t1, t2}
  Receiver = rx
  Nobody = nobody
  Uses <- TwoUses
  Size = {1, 2}
  MaxFailures = 2
  Raising <- AnyCallback
  MaxRaise = 1
INVARIANTS TypeOK StateOwned ExceptionsReported
PROPERTIES OverrunsOnlyReplaced ReleasedOnReturn CallsReturn StopReturns
CHECK_DEADLOCK FALSE
