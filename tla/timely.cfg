SPECIFICATION Spec
CONSTANTS
  Controller = controller
  Reader = reader
  Thread = {t1}
  SeqModulo = 8
  MaxFailures = 3
  MaxSend <- OneEach
  MaxConnect <- TwoEach
  Failing = {}
  MaxExtFail = 0
  MaxNack = 0
  Lossy = TRUE
  Delay = "handshake"
  LateWakeup = FALSE
  Disconnects = FALSE
  SizeFirst = FALSE
CHECK_DEADLOCK FALSE
INVARIANTS TimelyInv ConfirmedPickedUp SequenceAgreement
PROPERTY ImplementsReliableService
