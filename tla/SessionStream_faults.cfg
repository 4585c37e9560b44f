SPECIFICATION Spec
CONSTANTS
  Pods = {p1, p2}
  Msgs = {m1, m2}
  BufferMax = 1
  ChanMax = 2
  Resync = Resync
  None = None
  MaxFaults = 1
  MaxJoins = 1
  p1 = p1
  p2 = p2
  m1 = m1
  m2 = m2
SYMMETRY Symmetry
INVARIANTS
  TypeOK
  NoSilentLoss
  ClockRunsForward
