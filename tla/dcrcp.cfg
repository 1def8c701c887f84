SPECIFICATION Spec
CONSTANTS
  Messages <- Encoded
  Foreign <- Sent
  PoolSizes = {9, 13, 14}
  BufSizes = {60, 204}
  Arbitrary = arbitrary
INVARIANTS RoundTrip TerminatorOverruns NothingLeaked RoomEnough
PROPERTIES PoolLasts
