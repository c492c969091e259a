\* One session, two connections, the calls of the frontend: what must eventually happen.
CONSTANTS
  Sessions = {s1}
  Conns = {c1, c2}
  Reqs = {r1}
  Calls = {"start", "result", "submit"}
  NoSession = NoSession
  NoConn = NoConn
\* Once every connection attempt of the bound has ended nobody may have a move left.
CHECK_DEADLOCK FALSE
SPECIFICATION FairSpec
PROPERTIES
  EntriesLeave
  PositionsCatchUp
  EjectedCleansUp
