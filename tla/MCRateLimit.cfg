\* Two addresses; windows of three ticks for two requests.
CONSTANTS
  Addresses = {a1, a2}
  Window = 3
  Limit = 2
  NoEntry = NoEntry
SPECIFICATION Spec
INVARIANTS
  BurstBounded
PROPERTIES
  WindowSpec
  OldOnesGo
