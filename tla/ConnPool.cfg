SPECIFICATION Spec
CONSTANTS
  Endpoints = {e1, e2}
  Users = {u1, u2}
  Fingerprints = {f1, f2}
  Conns = {c1, c2, c3, c4}
  Clients = {q1, q2}
  MaxPools = 1
  None = None
  e1 = e1
  u1 = u1
  u2 = u2
  e2 = e2
  f1 = f1
  f2 = f2
  c1 = c1
  c2 = c2
  c3 = c3
  c4 = c4
  q1 = q1
  q2 = q2
SYMMETRY Symmetry
INVARIANTS
  TypeOK
  ListMatchesEntries
  RefsCountLeases
  OverageOnlyWhileLeased
PROPERTY ImplementsLeasePool
