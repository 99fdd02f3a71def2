\* A broadcast to two waiters.
SPECIFICATION FairSpec
CONSTANTS
  Waiters = {w1, w2}
  Signallers = {}
  Broadcasters = {b1}
  NoOne = NoOne
  SemMax = 2
PROPERTIES SignalAllReturns
CHECK_DEADLOCK FALSE
