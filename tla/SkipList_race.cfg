\* Every search runs beside insert() without a lock.  A crashed reader stops.
SPECIFICATION Spec
CONSTANTS
  Keys <- ThreeKeys
  Readers = {r1}
  MaxHeight = 3
  Head = Head
  NULL = NULL
  Uninit = Uninit
  Wild = Wild
  LockFreeOps <- EverySearch
INVARIANTS IInv OnlyHalfLinkedTowers
PROPERTIES SearchesOnlyMiss
CHECK_DEADLOCK FALSE
