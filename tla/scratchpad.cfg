SPECIFICATION Spec
CONSTANTS
  MaxFrameLen <- DEADCOM_MAX_FRAME_LEN
  Frames <- UpToLimit
  MaxSent = 2
  MaxChunk = 16
  Noise = {}
  MaxDamage = 0
  MaxHandlerFails = 0
CHECK_DEADLOCK FALSE
INVARIANT ScratchpadHolds
