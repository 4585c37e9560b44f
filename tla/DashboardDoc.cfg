CONSTANTS
  Relays = {r1}
  Requests = {q1, q2}
  Edits = {e1, e2}
  Base = Base
  Publish = Publish
  None = None
  Damaged = Damaged
  MaxVersions = 1
  MaxFaults = 1
  MaxDamage = 1
  Budget = 2
SPECIFICATION MCSpec
INVARIANTS
  TypeOK
  OpenTransactionIsAlone
  RowsMirrorDocument
  NoBlankServed
  SettledIsSaved
  VersionsFollowDraft
PROPERTIES
  ImplementsSharedDoc
  DeadCopiesLeave
