\* Overlapping imports and restartable reprocessing of one owner's archives.
SPECIFICATION Spec
CONSTANTS
  u1 = u1
  c1 = c1
  c2 = c2
  i1 = i1
  i2 = i2
  j1 = j1
  j2 = j2
  op1 = op1
  MaxWord = 15
  Limits <- LimitsDef
  Manifest = "manifest"
  Supported = "v1"
  Users = {u1}
  Archives <- ArchivesDef
  Captures = {c1, c2}
  OwnerOf <- Owners
  IdentityOf <- Identities
  NoIdentity = "unresolved"
  Importers = {i1, i2}
  Operators = {j1, j2}
  Operations = {op1}
  Commands <- CommandsDef
  Chunks = {1, 9}
  MaxBytes = 4
  MaxReceipts = 2
SYMMETRY Symmetry
INVARIANTS
  CompletedWithinLimits
  ReplayAddsNothing
  ReprocessingFollowsPlan
PROPERTIES
  FinishedRunIsFinal
CHECK_DEADLOCK FALSE
