SPECIFICATION Spec
CONSTANTS
  Replicas = {r1, r2}
  Serving = {r2}
  Roles = {a}
  MaxAttempts = 1
  MaxChanges = 2
  MaxFaults = 1
  Deleter = Deleter
  Absent = Absent
  None = None
  r1 = r1
  r2 = r2
  a = a
INVARIANTS
  TypeOK
  GateClosedWhileApplying
  ReadyIsCurrent
  NoStaleSession
  NoOrphanOnceProvisioned
