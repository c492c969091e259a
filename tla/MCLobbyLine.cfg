\* Three connections of two sessions that queue, are promoted, leave and reconnect.
CONSTANTS
  Sessions = {s1, s2}
  Conns = {c1, c2, c3}
  Reqs = {r1}
  Calls = {"start"}
  NoSession = NoSession
  NoConn = NoConn
\* Once every connection attempt of the bound has ended nobody may have a move left.
CHECK_DEADLOCK FALSE
SPECIFICATION Spec
SYMMETRY Symmetry
INVARIANTS
  TypeOK
  QueuedOnce
  PositionsFresh
  NoGhosts
PROPERTY LineSpec
