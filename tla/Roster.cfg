SPECIFICATION Spec
CONSTANTS
  None = None
  Worker = {w1, w2, w3}
  Class <- TwoClasses
  Invitation <- TwoClasses
  Scopes <- MCScopes
SYMMETRY Interchangeable
INVARIANTS
  Consistent
  OrderedLocks
PROPERTIES
  RefusalStands
  TombstoneStays
