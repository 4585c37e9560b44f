SPECIFICATION Spec
CONSTANTS
  Msgs = {m1, m2, m3}
  Calls = {k1}
  Conns = {c1, c2}
  None = None
  MaxTurns = 1
  LlmAttempts = 1
  MailboxSize = 1
  MaxFaults = 0
  Overlaps = TRUE
  m1 = m1
  m2 = m2
  m3 = m3
  k1 = k1
  c1 = c1
  c2 = c2
SYMMETRY Symmetry
INVARIANTS
  PairedHistory
