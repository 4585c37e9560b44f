SPECIFICATION Spec
CONSTANTS
  Replicas = {r1, r2}
  Serving = {}
  Roles = {a}
  MaxAttempts = 1
  MaxChanges = 1
  MaxFaults = 0
  Deleter = Deleter
  Absent = Absent
  None = None
  r1 = r1
  r2 = r2
  a = a
INVARIANT LostProvisionerFailsClosed
