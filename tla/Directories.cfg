\* Two processes; the file they lock and another one.
SPECIFICATION FairSpec
CONSTANTS
  Procs = {p1, p2}
  Nobody = Nobody
  Names = {LOCK, f1}
  LOCK = LOCK
  MaxHandles = 2
INVARIANTS HeldLockStays
PROPERTIES ImplementsLock CreateDirHonest ListingHonest CallsReturn
