SPECIFICATION FairSpec
CONSTANTS
  Replicas = {r1, r2}
  Serving = {}
  Roles = {a}
  MaxAttempts = 2
  MaxChanges = 2
  MaxFaults = 1
  Deleter = Deleter
  Absent = Absent
  None = None
  r1 = r1
  r2 = r2
  a = a
PROPERTY AccessConverges
