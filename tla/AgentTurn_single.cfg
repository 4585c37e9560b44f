SPECIFICATION Spec
CONSTANTS
  Msgs = {m1, m2}
  Calls = {k1, k2}
  Conns = {c1, c2}
  None = None
  MaxTurns = 2
  LlmAttempts = 2
  MailboxSize = 1
  MaxFaults = 2
  Overlaps = FALSE
  m1 = m1
  m2 = m2
  k1 = k1
  k2 = k2
  c1 = c1
  c2 = c2
SYMMETRY Symmetry
INVARIANTS
  TypeOK
  AnswerNeverBlocks
  AnswerReaches
  PairedHistory
  FollowUpKept
  OwnCancelReaches
