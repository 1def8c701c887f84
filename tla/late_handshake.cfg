SPECIFICATION Spec
CONSTANTS
  Controller = controller
  Reader = reader
  Thread = {t1}
  SeqModulo = 8
  MaxFailures = 3
  MaxSend <- TwoController
  MaxConnect <- TwoEach
  Failing = {}
  MaxExtFail = 0
  MaxNack = 0
  Lossy = FALSE
  Delay = "any"
  LateWakeup = FALSE
  Disconnects = FALSE
  SizeFirst = FALSE
CHECK_DEADLOCK FALSE
INVARIANT ConfirmedPickedUp
