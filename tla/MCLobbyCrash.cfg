\* One session with one connection whose form is submitted twice at once.
CONSTANTS
  Sessions = {s1}
  Conns = {c1}
  Reqs = {r1, r2}
  Calls = {"start", "result", "submit"}
  NoSession = NoSession
  NoConn = NoConn
\* Once every connection attempt of the bound has ended nobody may have a move left.
CHECK_DEADLOCK FALSE
SPECIFICATION Spec
INVARIANT NeverCrashes
