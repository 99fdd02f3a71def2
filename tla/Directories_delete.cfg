\* A process alone.
SPECIFICATION FairSpec
CONSTANTS
  Procs = {p1}
  Nobody = Nobody
  Names = {LOCK, f1}
  LOCK = LOCK
  MaxHandles = 2
PROPERTIES DeleteDirDeletes
