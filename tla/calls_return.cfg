SPECIFICATION LiveSpec
CONSTANTS
  Controller = controller
  Reader = reader
  Thread = {t1, t2}
  SeqModulo = 8
  MaxFailures = 2
  MaxSend <- TwoController
  MaxConnect <- OneController
  Failing = {"transmitBytes", "condvarSignal"}
  MaxExtFail = 1
  MaxNack = 1
  Lossy = TRUE
  Delay = "any"
  LateWakeup = TRUE
  Disconnects = FALSE
  SizeFirst = TRUE
CHECK_DEADLOCK FALSE
INVARIANTS CallersInv OneSender
PROPERTIES CopiesAnnounced CallsReturn
