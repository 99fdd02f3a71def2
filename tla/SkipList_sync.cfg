\* seek, contains and prev exclude insert(); iteration and seekToLast do not.
\* Threads inside an operation keep being scheduled.
SPECIFICATION FairSpec
CONSTANTS
  Keys <- ThreeKeys
  Readers = {r1}
  MaxHeight = 3
  Head = Head
  NULL = NULL
  Uninit = Uninit
  Wild = Wild
  LockFreeOps <- OnlySeekToLast
INVARIANTS LoadsInitialised InsertAsserts IteratorsOnList
PROPERTIES ImplementsOrderedSet SearchesEnd InsertsEnd
