SPECIFICATION FairSpec
CONSTANTS
  Pods = {p1, p2}
  Msgs = {m1}
  BufferMax = 2
  ChanMax = 1
  Resync = Resync
  None = None
  MaxFaults = 2
  MaxJoins = 1
  p1 = p1
  p2 = p2
  m1 = m1
PROPERTY Reconciles
