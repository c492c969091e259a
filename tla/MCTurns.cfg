\* Two promotions, two connections of one session, one transition.
CONSTANTS
  Sessions = {s1}
  Conns = {c1, c2}
  Calls = {e1, e2}
  Moves = {m1}
  NoTimer = NoTimer
  NoEntry = NoEntry
  NoSession = NoSession
\* The executor and the queue come to rest when nobody calls.
CHECK_DEADLOCK FALSE
SYMMETRY Symmetry
SPECIFICATION Spec
INVARIANTS
  TypeOK
  PoppedOnce
  TurnIsPromotion
  RestIsTold
  NoneAfterCancel
  WaitsForSomething
PROPERTY
  OnlyStaleSkips
