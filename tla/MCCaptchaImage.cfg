\* A background with room for two rows of small characters, and one that is too narrow.
CONSTANTS
  Backgrounds <- SmallBackgrounds
  MaxKeys = 5
  CharacterSize = 2
  DummiesPerType = 2
  Tolerance = 1
\* The image is done, or failed.
CHECK_DEADLOCK FALSE
SPECIFICATION Spec
INVARIANTS
  TypeOK
  NothingOverlaps
  DummiesRefused
PROPERTY EverFinishes
