\* One session that reconnects while it plays: does the new connection keep its place?
CONSTANTS
  Sessions = {s1}
  Conns = {c1, c2}
  Reqs = {r1}
  Calls = {"start", "result", "submit"}
  NoSession = NoSession
  NoConn = NoConn
\* Once every connection attempt of the bound has ended nobody may have a move left.
CHECK_DEADLOCK FALSE
SPECIFICATION Spec
PROPERTY NewestKeepsPlace
