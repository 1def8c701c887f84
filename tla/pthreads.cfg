SPECIFICATION FairSpec
CONSTANTS
  Caller = {c1}
  Receiver = {r1, r2, r3, r4}
  Nobody = nobody
INVARIANT NoMissedSignal
PROPERTY ImplementsCondvar
PROPERTY SignalsOnly
PROPERTY WaitReturns
