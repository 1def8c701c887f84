SPECIFICATION ServedSpec
CONSTANTS
  Controller = controller
  Reader = reader
  Thread = {t1}
  SeqModulo = 8
  MaxFailures = 3
  MaxSend <- Wrap
  MaxConnect <- OneEach
  Failing = {}
  MaxExtFail = 0
  MaxNack = 0
  Lossy = FALSE
  Delay = "none"
  LateWakeup = FALSE
  Disconnects = FALSE
  SizeFirst = FALSE
CHECK_DEADLOCK FALSE
PROPERTY AcceptedConfirmed
