SPECIFICATION Spec
CONSTANTS
  Controller = controller
  Reader = reader
  Thread = {t1}
  SeqModulo = 8
  MaxFailures = 3
  MaxSend <- TwoController
  MaxConnect <- TwoEach
  Failing = {"transmitBytes", "condvarWait"}
  MaxExtFail = 1
  MaxNack = 0
  Lossy = TRUE
  Delay = "any"
  LateWakeup = FALSE
  Disconnects = TRUE
  SizeFirst = FALSE
CHECK_DEADLOCK FALSE
INVARIANTS TypeOK AtMostOnce AtMostOnceInv
PROPERTY ImplementsService
