\* Two countdowns of one timeout, one watch, and a user who connects twice.
CONSTANTS
  Timers = {t1, t2}
  Watchers = {w1}
  Conns = {c1, c2}
  NoConn = NoConn
  NoTimer = NoTimer
  NoWatcher = NoWatcher
\* The process may end by a panic.
CHECK_DEADLOCK FALSE
SPECIFICATION Spec
INVARIANTS
  RunningHasTimer
  ClosedOnce
  NoneLost
PROPERTIES
  ExpiryNoticed
  HeldIsClosed
