SPECIFICATION Spec
CONSTANTS
  Pods = {p1}
  Msgs = {m1}
  BufferMax = 2
  ChanMax = 2
  Resync = Resync
  None = None
  MaxFaults = 0
  MaxJoins = 1
  p1 = p1
  m1 = m1
INVARIANT AllSeen
