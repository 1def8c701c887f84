SPECIFICATION LiveSpec
CONSTANTS
  MaxFrameLen = 5
  Frames <- ShortAndLong
  MaxSent = 3
  MaxChunk = 3
  Noise = {126, 125, 0}
  MaxDamage = 2
  MaxHandlerFails = 1
CHECK_DEADLOCK FALSE
INVARIANT DecoderOK
INVARIANT OnlySent
INVARIANT UndamagedReceived
INVARIANT UndamagedInv
INVARIANT FaithfulInv
INVARIANT TableIsPolynomial
INVARIANT GoodResidue
PROPERTY ProcessDataReturns
PROPERTY TurnsEnd
PROPERTY CarriesFrames
