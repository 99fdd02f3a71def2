\* Three waiters, one of which signals too, a signaller and a broadcaster that
\* never wait.  A thread inside a call that can go on does; a broadcast to two
\* waiters stops for ever.
SPECIFICATION FairSpec
CONSTANTS
  Waiters = {w1, w2, w3}
  Signallers = {w1, s1}
  Broadcasters = {b1}
  NoOne = NoOne
  SemMax = 2
INVARIANTS OneToken WaitersCounted
PROPERTIES WakesEarlierWaiter ImplementsMonitor SignalReturns
CHECK_DEADLOCK FALSE
