\* Every call of two sessions, one request at a time: the failure path.
CONSTANTS
  Sessions = {s1, s2}
  Conns = {c1, c2}
  Reqs = {r1}
  Calls = {"start", "result", "captcha", "submit", "attempts"}
  NoSession = NoSession
  NoConn = NoConn
\* Once every connection attempt of the bound has ended nobody may have a move left.
CHECK_DEADLOCK FALSE
SPECIFICATION Spec
SYMMETRY Symmetry
INVARIANTS
  OwnConnection
  NoGhosts
  NeverCrashes
