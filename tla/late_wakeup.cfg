SPECIFICATION Spec
CONSTANTS
  Controller = controller
  Reader = reader
  Thread = {t1}
  SeqModulo = 8
  MaxFailures = 3
  MaxSend <- TwoController
  MaxConnect <- TwoEach
  Failing = {}
  MaxExtFail = 0
  MaxNack = 0
  Lossy = TRUE
  Delay = "none"
  LateWakeup = TRUE
  Disconnects = TRUE
  SizeFirst = FALSE
CHECK_DEADLOCK FALSE
INVARIANT AtMostOnce
